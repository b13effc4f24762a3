# sigstore-rust in TLA+

Specifications of the stateful and decision-making parts of sigstore-rust, the
TLC configurations that check them on small instances, and theorems about them
proved with TLAPS. Paths below are relative to `src/crates/`.

## The system

| Part | State it keeps | Operations | What must be right |
|---|---|---|---|
| `sigstore-tuf/trusted.rs` `TrustedMetadataSet` | the trusted root, timestamp, snapshot, targets roles by name | `from_root`, `update_root`, `update_timestamp`, `update_snapshot`, `update_targets`, `update_delegated_targets` | everything in the set is vouched for by what is in the set *now*; versions never go down |
| `sigstore-tuf/client.rs` `Updater` | its trusted set, the attached store | `with_store`, `refresh`, `get_targetinfo`, `find_cached_target`, `get_target` | a refresh that returns Ok is fresh and consistent; floors survive restarts; it always returns; delegation search terminates and honours `terminating` |
| `sigstore-tuf/cache.rs` `FileStore`, `StoreRepository` | files by name, written atomically one by one, shared by processes | `load`, `store`; a read-only `Repository` view | an offline run re-verifies from it; sharing it is harmless |
| `sigstore-trust-root/tuf.rs` | the per-URL cache directory | `from_tuf`, `fetch_trust_material`: online, from cache, from the embedded copy | one call, one generation; an instance is only served its own; what was kept is found offline |
| `sigstore-trust-root` `TrustedRoot`, `SigningConfig` | none | select keys by validity window, services by version and validity | only keys valid at the signing time; the best service in force |
| `sigstore-cache` `InMemoryCache`, `FileSystemCache` | entries with an expiry; a data and a metadata file per key | `get`, `set`, `remove`, `clear`, `get_or_set` | never an expired value, never a value that was not set, no lost fresh value |
| `sigstore-merkle` | none | inclusion and consistency proof verification | agrees with RFC 6962 |
| `sigstore-verify` `Verifier` | none | `verify`, `verify_with_key`: time, certificate chain, SCT, policy, log entry, signature | every check that can be skipped is one the policy skips |
| `sigstore-sign` `SigningContext`, `Signer` | the endpoints; one signing session | key, certificate, signature, log entry, timestamp, bundle | a bundle the verifier accepts; what is left behind on failure |
| `sigstore-rekor`, `sigstore-fulcio`, `sigstore-tsa` clients | the optional cache | HTTP requests; public key and trust bundle through the cache | best-effort caching; the right request for the version of the log |
| `sigstore-oidc` | one authorization flow | PKCE, redirect or out of band, token exchange | state and verifier belong together; a code is honoured in the call it belongs to |
| `sigstore-types`, `-crypto`, `-bundle`, `-conformance` | none | encodings, primitives, bundle building and validation, command line | round trips |

How they interact. `TufClient` builds an `Updater` over an HTTP repository and a
`FileStore`, refreshes it and downloads `trusted_root.json` and
`signing_config.v0.2.json`; the `Verifier` and the `Signer` take keys and
services from those. The `Updater` owns one `TrustedMetadataSet`, which alone
decides what is trusted, and writes every verified file through to the store.
The `Signer` is handed a token of the OAuth client, asks Fulcio, Rekor and the
timestamp authority in turn, and returns a bundle that the `Verifier` is to
accept. The store, the target files and the two caches are the only state that
several processes or tasks share.

What is hard here: a store without a lock between processes; restarts between
two writes; a mirror that answers with any file of any age; reuse of what was
verified earlier, under another root, snapshot or clock; loops that must end;
boundaries of versions, rotations, thresholds and tree sizes; keys and
authorities that were rotated since something was signed; a bundle whose parts
come from different signings; services that fail, or act and lose their answer,
between two steps of one signing; a browser tab that outlives the flow that
opened it.

## Modules

| Module | Models |
|---|---|
| `TufTrusted` | what `trusted.rs` decides about a candidate document, as operators on a trusted set; no variables |
| `TrustedMetadataSet` | the public trusted set: any sequence of calls with any documents |
| `VersionFloors` | abstract: what the set promises about versions |
| `TufUpdater` | `with_store` and `refresh` of one or more `Updater`s over one store, a mirror and a clock |
| `TufDelegation` | `get_targetinfo`, the search through delegated roles |
| `PreorderSearch` | abstract: the recursive search of the TUF specification, which `TufDelegation` is compared with; no variables of its own |
| `TrustClient` | where the trusted root and the signing configuration come from, for several processes and instances |
| `ReadThroughCache` | both cache adapters and the Rekor and Fulcio calls that read through them |
| `Merkle` | inclusion and consistency proofs, with the RFC 6962 definitions; no variables |
| `MerkleLog` | a client that checks a log's proofs, some of them altered |
| `TrustedRoot` | what is selected from a trusted root, and when; no variables |
| `Verifier` | `verify` and `verify_with_key`, step by step, with structural validation |
| `GenuineBundle` | which bundles `verify` is there to accept: what an honest signer and the services of a trusted root leave; no variables |
| `OAuthFlow` | the authorization-code flow, several calls on one machine |
| `Signer` | the choice of services, and `sign`, `sign_attestation`, `sign_raw_statement` with the bundle builder |
| `SigningSession` | `OAuthFlow`, `Signer` and `Verifier` composed |
| `MC...` | documents, stores, mirrors, delegation graphs, services and bundles for TLC |
| `..._proofs` | theorems about `TrustedMetadataSet`, `TufUpdater`, `TufDelegation`, `TrustClient`, `ReadThroughCache`, `MerkleLog`, `Verifier`, and `SigningSession` with the `OAuthFlow` and `Signer` in it |

`TrustedMetadataSet` and `TufUpdater` both build on `TufTrusted`, so the refresh
runs on exactly the decisions that the theorems are about. `Verifier` extends
`TrustedRoot` and `Merkle`. `MerkleLog` checks `Merkle` on its own.
`SigningSession` extends `OAuthFlow` and instantiates `Signer` once, and
`Verifier` for each bundle, artifact and time it asks about.

### Documents

A document is a record of what the checks look at. `signers` is the set of keys
whose signature over it verifies: canonical JSON, key parsing and signature
arithmetic (`canonical_json.rs`, `key.rs`) only matter through that set. A
`digest` stands for the file's bytes, and with them for its length. A document
that fails to parse is one that is in none of the document sets, like `NoDoc`.
A role that `root.roles` or a `delegations` block does not bind is bound to
threshold 0, which `verify_threshold` refuses just as an absent role is.

### `TrustedMetadataSet`

One action per operation; `XAccepts` is the condition for `Ok`, `AfterX` the
resulting set. An operation that returns an error changes nothing and is a
stuttering step. `now` is any instant at every call: nothing in this module
relies on a monotonic clock.

`VersionFloors` keeps the versions the set answers for: of the root, of the timestamp,
of the snapshot that the timestamp pins and of the targets roles that the snapshot
pins. Under one root the first and the last of the lower ones never go down. The
snapshot version goes down in one way only: a newer timestamp that pins none is
accepted, and gives up that floor for the next one.

### `TufUpdater`

One action per step of `refresh` between two awaits or two accesses to the
store. A fetch, the verification of the answer and the writes of that file are
one action; the header of the module says why that loses nothing. `pc[u]` is the
stage of the refresh, `now[u]` its argument, `rotations[u]` the loop counter of
`refresh_root`; `completed[u]` is a history variable with the versions held when
a refresh last returned Ok. `Crash` ends a process anywhere, also in `with_store`'s
caller, and starts it again from the pinned root. `LoadDelegated` is what
`get_targetinfo` does to the trusted set and the store between two refreshes,
for any role it may meet. `OnlyVerifiedSteps`, which says that the steps of a
trusted set are those of `TrustedMetadataSet`, stands in `MCTufUpdater`: it takes
an instance of that module per client, which the prover cannot, so the proofs
state the same with the operators of `TufTrusted` (`StepVerified`).

### `TufDelegation`

One action per iteration of the loop of `get_targetinfo`: the `Updater` is
borrowed for the whole search, nothing interleaves with it. `queue` is
`to_visit`, `via` the visited set with the delegator through which each role was
reached, `steps` the bounded counter. `loaded` is what is left of earlier
searches. Whether the file served for a role is accepted under a delegator is
part of the repository. The delegations of a role that count for a path are places in
its list (`Matching`), up to the first one that ends the search (`Ends`);
`ChildrenAmong` goes through the places as the loop does.

`PreorderSearch` has no work list. A `Walk` (what is loaded, what is visited, how it
ended) is handed through the delegations of a role in their order, and into a role
that has just been visited before it goes on. `Search` is a recursive function of
how many roles deep it may go; a role is entered once, so as many as there are
roles are enough (`DeepEnough` in the proofs). `FollowsPreorder` compares the result
and the set of visited roles, and leaves out the searches that give up at the bound.

### `TrustClient`

One action per target that a call resolves, and one for the refresh of its
session between its start and its end. A refresh is abstracted to what the runs of
`TufUpdater` show of it: it adopts one published generation, not below the floor
it read when it began, and writes that over whatever the directory holds by
then. A cached target is used if it is the pinned one and downloaded otherwise,
and a write of it may fail. `config[p]` is the `TufConfig` of the call:
instance, directory, cache, offline, and whether a root of trust is known for
its URL. `Restart` ends a process anywhere, perhaps to upgrade the program and
with it the embedded copies (`binary`). `kept` remembers what an online call
stored.

### `ReadThroughCache`

One action per critical section of the lock of `InMemoryCache` and one per file
operation of `FileSystemCache`. Time is relative (an entry carries the ticks it
has left), so the clock has no bound. `cut` remembers that some `set` was
dropped or killed part way.

### `Merkle` and `MerkleLog`

Hashes are symbolic: a leaf hashes to `<<leaf>>`, two children to
`<<left, right>>`. The index of a node, the bit of an index and the split of a
proof are computed as in the code: `Cut` is `decompose_inclusion_proof` with the shift and the
mask, `Chain` the three loops that fold hashes into one (`ChainInner`,
`ChainInnerRight`, `ChainBorderRight`), which differ in the side each hash is
on, `Ascent` the one of an inclusion proof. Shifts are repeated halving (`Shifted`),
powers repeated doubling (`Power`); all recursion is in recursive functions, so that
it can be proved about. `Append`, `Rewrite` and `Observe` are the
log's operator and the client around the crate; `Alter` exchanges one part of a
proof. The sizes are far from `u64`'s limits, so no arithmetic wraps.

### `TrustedRoot` and `Verifier`

One action per numbered step of `verify`; a step that fails is the early return.
`verify_with_key` takes the same steps without those about a certificate. `now`
is read by each step, as each selection from the trusted root reads the clock.
`Request` says which bundle is verified against which policy; `Signing` what
really happened, which the code never sees and the properties compare with. A
policy is put together as `VerificationPolicy`'s builder does. A selection from
the trusted root keeps the places its instances have in the file, so that the
first one of it is the code's first match. The module ends with what the proofs
assume of root, requests and signings; every run evaluates that for its own.

What is signed is modelled layer by layer where layers can be mixed up. A
signature verifies under one key for one text. An envelope is signed over its
pre-authentication encoding, which covers the payload and its type. A timestamp
token is a TSTInfo and a signature. If the token has signed attributes, they carry
the digest of the TSTInfo and the signature is over them; if it has none, the
signature is over the TSTInfo itself. It is checked with the first certificate of
its signer, from the token or the trusted root, which must end in a trusted root. A checkpoint is a note with several
signatures, each with a hint of its key. Left out: the index that a promise
covers as well (no other check uses it), artifacts given by digest, malformed
validity times, chains with more than one intermediate.

### `OAuthFlow`

One action per await of `auth_with_options`: the listener, the connection it
accepts, the request line, the answer to the browser, the exchange; or the
prompt for a code out of band. A flow's random state and verifier are the flow
itself. A URL that was shown stays: a user may log in there at any time, once,
and the browser is then sent to its port, whoever listens there by then. Whoever
connects may stay silent (`read`), and the call then waits without an end: the timer
only covers `accept`.

### `Signer` and `SigningSession`

One action per service that a call asks. Each answers, fails, or does what it
was asked and loses the answer; the log may also answer with an entry of
somebody else. `Configuring` is `SigningContext`'s constructors and setters, so
that a context lives on while endpoints and keys change. The bundle is that of
`Verifier`, put together as `builder.rs` does from what the services answered.
`log` is what each log holds. `SigningSession` lets a flow's token be used for
any number of calls and asks what `Verifier` says of the result (`Accepts`: all
its steps, at one time). `Timely` and `Trusted` say what a caller may need of the
services for that.

## Runs

| Run | Question | Result |
|---|---|---|
| `trusted_set` | does everything in the set stay vouched for, and are the version floors kept? | holds |
| `tuf_refresh` | is a completed refresh fresh and consistent, is every step verified, and is the cached root history a chain in spite of failed writes and sharing? | holds |
| `tuf_floor` | do floors survive restarts of one client with an honest publisher, does every refresh return, and does a client recover after the publisher rotates keys and resets versions? | holds |
| `tuf_shared` | do floors survive for two processes over one store, honest publisher? | violated: the slower writer wins |
| `tuf_offline` | can an offline run re-verify from the store of an online one? | violated with consistent snapshots: the targets were stored under another name |
| `delegation_walk` | does the work-list search find what the recursive pre-order search finds, within its bound? | holds |
| `delegation_handoff` | is every role used only under a delegator whose keys signed it? | violated: a loaded role is not verified again |
| `trust_client` | does each call get the targets of one generation, each instance only its own, an offline run what was kept, and every caller an answer? | holds |
| `cache_read_through` | is what a cache serves younger than its time to live, and does everyone converge to the published value? | holds |
| `merkle_proofs` | are honest proofs accepted and altered ones harmless? | holds |
| `verify_bundle` | is only what was logged accepted, at an attested time, and always what is genuine? | holds |
| `signing_session` | is what `sign` returns accepted exactly when the services answered in time, is every log entry accounted for, the best endpoint taken and every redirected code honoured? | holds |

Bounds.

* TUF: three roots (one rotation of the lower keys, and in `trusted_set` one of
  the root key), two to four documents per role and one delegated role: enough
  for a document from before a rotation, one from after, one re-issued at the
  same version and one expired, which is what the checks tell apart. Two
  processes are enough for every overwrite of one's write by another's.
  `MaxTime` bounds the clock (2: fresh, expiring, expired), `MaxRotations` is
  the code's own limit. In `tuf_refresh` the second process (`RootsOnly`) goes no
  further than the root chain, which is all that the shared history depends on.
  `HistoryChains` needs a publisher that signs at most one acceptable root per
  version: two would fork the history. `tuf_floor` has `MaxRotations = 1` and a
  mirror whose chain is two roots long, so that a client is exactly at the limit.
  In `tuf_offline` both clients start from the latest root, so that the offline one
  gets through the root, the timestamp and the snapshot, and fails at the targets; in a
  world without consistent snapshots that run finds nothing.
* Delegation: three delegated roles; two delegations from the top-level targets,
  one from each of two others, terminating or not, matching, not matching or
  malformed; one role unpinned, one refused under one delegator, the target in
  either of two roles. Cycles, diamonds, self-delegation and a role reached
  twice all occur. `MaxDelegations` is 3, below what some graphs need, so the
  bound bites.
* Trust client: two processes over the directory of one instance, one of which
  also uses a second instance; two generations of the first, between which one
  target changes and the other does not; one embedded copy; every kind of
  configuration but a directory of one's own, which no property but
  `OneGeneration` speaks of. `OnePublic` keeps the second instance at one
  generation.
* Cache: two tasks, two published values, a time to live of one tick and one
  set that is cut short. Two writers and one clearing task give every overlap of
  the file operations; one tick separates fresh from expired.
* Merkle: logs of up to nine leaves, every index and every pair of sizes; that
  is past 8, so a tree one above and one below a power of two both occur, and
  paths with every pattern of promotion of up to four levels.
* Verification: five signings (two of one signer and key, one of another, one
  after all authorities were rotated, one never logged), bundle forms for
  all entry kinds, versions and materials, four policies. Each bundle comes
  whole, with every single part exchanged for that of any other signing, missing
  or added, and with every subset of its parts exchanged for those of a second
  signing. One timestamp comes from an authority that is in no trusted root. The
  clock takes one value before the rotation and two after it.
* Signing: two flows over one port; two instances' configurations, one of them
  with a log whose shards take over at time 2 and a timestamp authority that is
  not listed for a while; clock to 3, certificates that live for one tick, two
  attempts, a token that expires at once and one that does not. `OneAtATime`
  looks at flows while nothing is signed, and signs with one token while no flow
  is under way; flows and signings touch only through the token.

Fairness. `RefreshReturns` assumes that a stage that can go on does
(`WF(Refreshing)`): each await is bounded by the connect and read timeouts of
`HttpRepository::new`, and store accesses do not block. It does not assume that
any answer is good. `Recovers` also assumes that the application keeps calling
`refresh` (`Polling`) and that the mirror serves the publisher's current files.
`SearchEnds` assumes that a search that can go on does; it awaits only such
fetches. `FetchReturns` assumes that local steps are taken and that a
request either is answered or times out (the timeouts are those of
`HttpRepository::new` again); it assumes of no server that it answers.
`Converges` assumes that time goes on, that a call that has begun takes
its next step (locks are held for one map operation, file operations and
requests end) and that the clients keep calling (`Polling`: strong fairness of
`Call`, as a task that also removes entries is not always able to call).
The clock is never assumed to advance in the TUF modules. `signing_session` has no
liveness: once a connection was accepted the flow may wait for ever (see
Observations), and so may every request of the signer, whose HTTP clients have no
timeout; that a call returns would have to be assumed of users, browsers and services.
`verify_bundle` has none either: verification is a straight line.

Deadlock is not checked in `trusted_set`, where at the end no document is accepted
any more, in `merkle_proofs`, where the log is full and no alteration is left, in `verify_bundle`, where a rejected verification ends,
and in `signing_session`, where time and attempts are bounded.

## Proofs

All theorems hold for every value of the constants; what they assume is named
below. All are safety.

`TrustedMetadataSet_proofs`: `TypeCorrect`, `VerifiedUnderRootHolds`,
`PinnedBySnapshotHolds`, `DelegationAuthorizedHolds`, `ImplementsVersionFloors`,
for all documents, keys, delegated names and instants. Assumptions are those
of `TufTrusted`: documents have the shapes of their roles
(`DocumentAssumption`), the markers for absent things are not documents
(`NameAssumption`), and digests do not collide (`DigestAssumption`, used only by
`DelegationAuthorizedHolds`). The type invariant makes the first two properties
inductive. Delegation needs `PinnedBySnapshot` as well: a delegator may be
replaced in place while roles it delegated stay loaded, which is harmless only
because the replacement must match the same pin, and with a digest in the pin
that makes it the same file (lemma `SameFile`). The type invariant also says that a
snapshot is never without its timestamp. In the refinement -1 is "none"
(`SnapshotVersion`, `Floor`); the work is in `SnapshotKeepsFloors` and
`TimestampKeepsFloor`. It says nothing of the snapshot version across a timestamp
without a pin: there the code keeps no floor.

`TufUpdater_proofs`: for any number of processes over one store, any mirror and any
store left by earlier runs.

* `TypeCorrect` and `CompletedIsCurrentHolds`. That a completed refresh is
  current is not inductive; what is, is `Reached`: after the root chain the root
  has not expired, after the snapshot stage timestamp and snapshot form a chain
  and have not expired either, after the last stage the targets. Each stage
  keeps what the earlier ones found because it changes only its own role and
  because `now` is fixed for a refresh; the paths that fetch nothing are covered
  by the tests they make before they reuse.
* `OnlyVerifiedOperations`: a trusted set changes only by an accepted operation, or
  with a new process. What `TrustedMetadataSet_proofs` shows for all sequences of
  operations therefore holds of every client, whatever the shared store does.
* `HistoryChainsHolds`. It assumes a lineage: a set of roots with the pinned one
  in it, that contains whatever one of its roots accepts, and never two of one
  version (roots that no root of the lineage accepts do not matter); that the
  initial history belongs to it; and that no delegated role is called
  `root_history/N.root.json`, which the percent encoding of role names excludes.
  The invariant is that every history file is the root of its number and was
  accepted after *some* root of the lineage; as that root has the version of the
  preceding file, it is that file.
* `FloorSpansRunsHolds`: for one client over its own store, which is `tuf_floor`
  for any documents, mirror and number of restarts. Beside a lineage it assumes that
  the writes of `timestamp.json` and of the root history succeed (`OneClient`; all
  others may be lost), and a publisher that is orderly (`OrderlyPublisher`):
  timestamp and snapshot keys that a root replaced do not come back, and under one pair of
  such keys a later timestamp neither expires earlier nor pins a lower snapshot, and a
  later snapshot does not pin lower targets. The publisher of `tuf_floor` is one.
  The invariant (`FloorInv`) follows the floor to where it survives a restart.
  The trusted timestamp is the one on disk (`Vouched`); the one on disk is at least
  the completed one, and whatever it or a later one leads to is at least the completed
  targets (`Floored`, `Covers`); it was not seeded only because it has expired
  (`Missed`), and then whatever is accepted expires later and so is later. That a
  restarted client judges the timestamp on disk by the same keys is because the cached
  history leads it to its newest root (`Top`, lemma `SuccessorIsCached`), so
  `HistoryInv` is needed as well. Snapshot and targets files may be lost, or be those
  of another version: only the timestamp has to survive.

`TufDelegation_proofs` proves, for every delegation graph, pinning, acceptance and
bound, `TypeCorrect`, `VisitsBoundedHolds`, `LoadedWasVerifiedHolds`,
`VisitedIsDelegatedHolds` and `FollowsPreorderHolds`, from `RepositoryAssumption` (a
repository has the shape its type says, it names finitely many delegated roles, and
they have neither top-level names nor the names of the model's outcomes). `VisitsBounded` is
inductive together with `steps` counting at least the visits and staying within
the bound. That a loaded role was accepted under the delegator it was loaded
through is inductive as it stands; the run `delegation_handoff` shows that
nothing stronger holds, namely for the delegator it is used under. That a visited
role was delegated by a visited one says nothing of the work list, so it is not
inductive; what is, is that every entry of the list is already such a pair
(`Sound`, in `SearchInv`): its delegator was visited and delegates the path to
its role. It is kept because what is pushed are delegations of the role just visited
(`ChildrenAreMatching`, by descent to the least place of the list at which the loop
would have collected anything else).

`FollowsPreorderHolds` rests on what the work list means: `LeadsThere` says that the
walk along its entries (`IsTrail`), each handed to the recursive search, ends where
the reference does. It holds of a search that starts. An entry that is skipped leaves the walk as
it is; one that ends the search stops it, and a walk that is over is
not changed by the entries behind (`TrailOfStopped`). A visit replaces an entry by the
children of its role, and `OverChildren` shows that the walk along those is what the
recursion makes of the role, up to its first terminating match, behind
which it is over: so it makes no difference that the code cuts the list there.
The existence of the recursive functions (`OverThem`, `SearchThem`) is proved too, as
TLA+ gives a recursive definition a meaning only then.

`TrustClient_proofs` proves `TypeCorrect`, `OneGenerationHolds`,
`ServedWasPublishedHolds` and `OfflineServesKeptHolds` for all processes, instances,
directories and contents, from `ClientAssumption`. Types need that a running call
has a target left to ask for. `OneGeneration` needs that a session's generation
was published, and not more: a cached copy only counts when it is the pinned one.
`ServedWasPublished` needs that the directory of an instance holds only bytes it
published, which other processes' writes keep because directories that are passed
explicitly are apart (an assumption, and an observation below).
`OfflineServesKept` needs that what is `kept` has a file, since files are replaced
and never removed.

`ReadThroughCache_proofs` proves `TypeCorrect` and `LiveEntryIsFreshHolds` for any number of
tasks and values and any time to live, from `CacheAssumption`. The invariant is
that age and remaining lifetime add up to at most the time to live. In memory it
must hold already of an entry that is about to be inserted; on disk only when no
task is between its two files and no set was cut short, and it is restored by
whoever writes the data last, whatever metadata it meets.

`SigningSession_proofs` is about flows and signings together. `TypeCorrect` and
`RedirectedCodeHonoured` are of `OAuthFlow` alone, for any number of flows and
ports. The proof follows a code backwards: whoever calls a port has a code issued
for that port, under the state of the flow it was issued to; a flow exchanges
only a code with its own state; and a code was not spent before, because only
its own flow can spend it and that ends the flow. The same invariant carries over
to sessions (`SessionCodeHonoured`), and with `SessionTypeCorrect` come four
theorems for any configurations, services, tokens and number of attempts:

* `LogIsAccountableHolds`. That no two entries of a log are by one key is not
  inductive: a call that may still log must have a key that is in no log yet
  (`KeysAreSpent`). That entries keep what was signed needs that a call past its
  certificate has a statement, which the type invariant says.
* `BestEndpointHolds`. The selection of an endpoint is the first of the best
  version among the usable places of a list; the lemma is that such a place
  exists as soon as one is usable (`BestIsUsable`).
* `AcceptedWasTimelyHolds`: if a bundle that `sign` returned is accepted, at
  whatever time, the services had answered in time. It relates two programs. On the
  signer's side `PartsFit` says what is known of the parts it puts together: whose
  they are, when they were made and in which log the entry is. On the verifier's
  side each step is read off for that bundle (`SignatureIsLogged`,
  `AcceptedIsTimely`).

* `ReturnedVerifiesHolds`, the other direction: if the services answered in time
  (`Timely`) and are ones that the root names (`Trusted`), the bundle is accepted for
  everything that was signed, whichever endpoints, formats and versions of the log
  were used. `PartsKnown` is the invariant: which service made the certificate, the
  entry and the timestamp, at which time and from what it was asked. From that the bundle
  is shown to be `Genuine`, clause by clause (`ReturnedForm` to `ReturnedBody`), so that the
  lemmas of `Verifier_proofs` about genuine requests apply, instantiated as `G` with
  the returned bundle, the default policy and one artifact as the request; the
  proof of inclusion verifies by `HonestInclusion` again. The lemmas `Same...` say
  that the steps `G` speaks of are those of `Accepts`. The lemmas rest on the
  assumptions of `Verifier` under these names, and `RootIsAsAssumed` proves them:
  those about requests and signings because the instance has none among its
  constants, those about the root from `RootAssumption`.

They assume that lists are lists and the defaults a configuration
(`ListAssumption`); that there is a service under every URL a configuration may name,
and that what was in a log before is signed and timed, by none of the keys of these
calls (`ServiceAssumption`); and that
a caller who signs bytes does not sign the pre-authentication encoding of a statement
of its own (`CallerAssumption`, without which an artifact's signature is one of
an envelope as well). `ReturnedVerifiesHolds` also needs that the root is a file with
lists (`RootAssumption`) and right about the services it names (`TrustAssumption`):
an authority's name and key belong together, in all of the root, and its certificates are
in a log of the root; a log's ID is that of its key; a timestamp authority stamps with
the certificate that the root has, while that is valid. Two hypotheses stand in the theorem,
since they are about every value: a log answers with the RFC 6962 proof and a signed
checkpoint (`HonestLogs`, which the run's `Prove <- HonestProof` makes true), and a record is
not the absence of one (`UnsetIsNoRecord`). That authorities differ in name if in key is
what the code needs, see the hazard about issuers found by name.

`MerkleLog_proofs` proves that both kinds of proof are sound, for logs, indexes,
sizes and proofs of every length, honest or not, and that honest ones are accepted:

* `AcceptedLeafIsLoggedHolds`. That the leaf is in the log needs no count of hashes
  (`AcceptedIsLeaf`): from the root down, every hash of the ascent is the root over a
  range of leaves, as a pair of hashes is never that of a leaf. Where it stands
  does: the root over a level of nodes is that over the level of their pairs
  (`RootOfPairs`), one step of the ascent is one level or, for a promoted node,
  none (`LevelUp`), and the expected length says how many levels are left
  (`AscentFinds`).
* `AcceptedGrowthKeepsHistoryHolds`. The same level by level for two trees at
  once. As long as the older size is even, both trees lose a level and the proof
  is cut as before (`HalfCut`). From there the last node of the older tree is
  followed: below the level where the two right edges part, a hash on the right
  belongs to the newer tree only (`InnerAgrees`); above it each hash is a sibling
  in both (`BorderAgrees`). Equal roots of equally many nodes have equal nodes
  (`SameRootSameNodes`).
* `HonestProofsAreAcceptedHolds`. The way back, up the same levels. The log's
  recursion goes down from the root, the verifier's up from the leaf; they meet in
  the first hash, as the path to a leaf is the path to its pair after its sibling,
  or just that path if it has none (`PathOfPairs`), and so the ascent runs through the
  nodes of the levels (`AscentReaches`). What is sent for an even older size is what is
  sent for half of it and the pairs (`SubOfPairs`); for an odd one, the path to the
  last leaf of the older log, after that leaf unless it is the only one
  (`SubOfOdd`). The two chains reach the meeting point of the edges
  (`InnerReaches`) and then the roots (`BorderReaches`).

The state invariants are only that an accepted claim is one that verifies against
the logs as they are (`AcceptedVerifies`), and that one that is rejected does not and,
if nobody altered it, is what the log sends (`RejectedFails`); the work is in the lemmas
about `Merkle`. A function that is defined by recursion is a `CHOOSE`, so each one is first
shown to satisfy its equation: values exist up to any rank, they agree, and
together they are the function (`DescentExists`, `RootsDef`, `PathsDef`, `AscentDef`, `ChainDef`). What
they compute is shown of the least argument at which it would fail.

`Verifier_proofs` proves `TypeCorrect`, `AcceptedWasLoggedHolds`,
`TimeWasAttestedHolds`, `GenuineIsAcceptedHolds` and `AcceptedStaysAcceptedHolds` for any
trusted root, any bundles, policies and artifacts, any readings of the clock. The assumptions say what those stand for whose signatures
are verified: a log of the trusted root promises, and includes under a
checkpoint it signed, only entries of signings (`LogAssumption`; for the
inclusion of a single leaf see `AcceptedLeafIsLogged`); an authority below one of
its roots stamps a signature when it is made (`TsaAssumption`); an entry has the
one signature of its signing, and its certificate (`BodyAssumption`); whoever
signs an artifact or a statement about it means that artifact
(`SigningAssumption`); and sequences are sequences, times positive
(`FormAssumption`, `TimeAssumption`). Nothing is assumed about the bundle being put
together from one signing: that is what is proved. The invariant `IInv` lists what
holds past which step. Every part of it depends on the request only, and on
the time taken, so neither later steps nor the clock, which each step reads
anew, undo it. That the parts are of one signing is not in it: it follows at the
end, because the last step compares the body of every entry with the
bundle, and an entry that counts has a body with one signature. `BodyAssumption`
demands a certificate in bodies of hashedrekord 0.0.2: the proof does not go
through without, see the observations.

For `AcceptedStaysAcceptedHolds` nobody needs to be honest. The invariant `Stays` says
of every step that is passed, now or in the earlier verification, that its check
would succeed at this moment, and `FindingsStay` that a check which succeeds does
so at every later time. A selection from the trusted root only grows, since what was in use
stays usable after its end; what could change is the match a lookup takes, the
first one. `OrderAssumption` excludes that: logs of one ID, timestamp leaves of
one ID and authorities with a subject in common are listed in the order in which they
come into use, as the authorities in `trusted_root.json` and
`trusted_root_github.json` are, several of which share a subject; and a checkpoint has one signature at most whose hint is that of a log of
the root. Nothing in the code demands either: without the first a bundle that
was accepted is rejected once an instance listed earlier comes into use.

`GenuineIsAcceptedHolds` is the converse of the first two, and its assumption,
`GenuineAssumption`, is about the honest: what is presented as signed and unchanged
is what a signer had made, by a certain time, of the answers of services that were in
use by then (`Genuine`, a module of its own, with one definition for each party), and the proof of
inclusion in it is the one of RFC 6962 for the entry's place in a log of any length
(`ProvedFromLog`). The run evaluates it for every bundle that it presents so. Nothing is
assumed of the verifier's clock. The invariant says that a genuine request that
is past a step passes all the steps that are left, so that it is never rejected:
each step is shown to succeed for it (`GenuineFormHolds` to `GenuineLogHolds`), by
exhibiting the instance of the root that answered among those that are usable at any later time and,
where the code takes the first match, from what the assumption says of
instances that a lookup cannot tell apart. That the proof of inclusion verifies is
`HonestInclusion` of `MerkleLog_proofs`: `Verifier` and `MerkleLog` each have `Merkle`'s
operators, and `SameTrees` and `SameClimb` say that they are the same functions.

What is only model-checked: liveness (`RefreshReturns`, `Recovers`, `SearchEnds`,
`FetchReturns`, `Converges`), which the prover does not do.
Every invariant and every action property of the passing runs is proved, but that
`OnlyVerifiedSteps` is stated by an instance of a module for each client, and
proved in the words of `TufTrusted`.
The library's induction theorems cannot be instantiated with
the provers at hand; induction is done by way of the least counterexample.

## Observations

Met while modelling. The first bullet is the three violation runs. Of the others, most are
outside of what the repository promises; where one is at odds with a sentence of it,
that sentence is quoted.

Trust and its store:

* Two processes over one store lower the floor (`tuf_shared`); a store filled
  with consistent snapshots has the targets as `targets.json`, and an offline refresh
  asks for `N.targets.json` (`tuf_offline`); a
  delegated role that is loaded already is used under any delegator
  (`delegation_handoff`).
* `sigstore-tuf/client.rs:160`: a client exactly `max_root_rotations` behind
  adopts the latest root and then fails, once; `Recovers` shows that the next
  refresh gets through.
* `sigstore-tuf/trusted.rs:169`: a timestamp without a snapshot pin is accepted
  and removes the pin that the next one is compared with, so the pinned snapshot
  version may go down: in the documents of `trusted_set`, from timestamp 2, which pins
  snapshot 2, over a timestamp 3 that pins none, to a timestamp 4 that pins snapshot 1.
  The comments at 142 and 168 say that `update_timestamp` "rejects rollback of both the
  timestamp version and the snapshot version it pins" and "The pinned snapshot version
  must not move backwards either." `NeverBelowFloor` states the floor with this
  exception. The targets versions inside a snapshot are still compared role by role.
* `sigstore-tuf/client.rs:174`: a process that dies between `timestamp.json` and
  `snapshot.json` leaves a snapshot that is not seeded again. When the holder of
  the snapshot key then rolls the targets back, the targets floor is gone.
  `tuf_floor` therefore has a publisher that never pins backwards.
* `sigstore-tuf/client.rs:122`: the cached timestamp is verified against the current
  time, so one that has expired sets no floor. If an earlier timestamp expires later,
  a restarted client then accepts that one and completes below its floor: with such a
  pair `tuf_floor` is violated. `FloorSpansRunsHolds` therefore assumes that later
  timestamps do not expire earlier.
* `sigstore-tuf/client.rs:307`: `max_delegations` bounds visits, not depth: in a tree
  that is two roles deep and has four roles, a bound of three makes the search report
  a target as absent that the last role lists. `transport.rs:68` says "Maximum depth
  of the delegation tree to traverse."
* `sigstore-trust-root/tuf.rs:398`: offline, the targets of one call may be of
  different generations: a process that ended, or another one that wrote,
  between the two. `OneGeneration` is about online calls.
* `sigstore-trust-root/tuf.rs:387`: offline, a cached target is preferred to the
  embedded one even when a newer program embeds a newer one; the comment there says
  "Cached data is preferred over embedded because it is at least as fresh as the
  embedded snapshot". Conversely a call whose cache write failed is
  followed by an offline one that is served something older, and an online call
  may get a generation older than the embedded one.
* A directory passed to `with_cache_dir` for two instances serves one instance the
  targets of the other offline, because the file names carry no instance and
  nothing is verified; `ServedWasPublished` speaks of default directories.
* `TufConfig::custom` with a URL that begins like a known one is taken to have
  that one's embedded targets.

Caches:

* `sigstore-cache/memory.rs:103`: evicting an expired entry may drop a fresh one
  that was set in between; it is fetched again. `filesystem.rs:233`: metadata is
  written before the data, so a set that is cut short gives old data a new
  lifetime, and `get_public_key` (`sigstore-rekor/client.rs:390`) accepts the
  text of a truncated file. `LiveEntryIsFresh` speaks of caches with no writer
  under way and no `set` cut short since the last whole one.
* `sigstore-cache/lib.rs`: `get_or_set` returns a cache error instead of calling
  the function; nothing in the workspace calls it.

Verification:

* `sigstore-verify/verify_impl/tlog.rs:163`: a checkpoint is compared with a
  proof by root hash only; tree size and index follow from the proof itself.
* DSSE envelopes with several signatures: timestamps and hashedrekord entries
  speak of the first one, verification accepts any. `AcceptedWasLogged` speaks
  of envelopes with one signature; `TimeWasAttested` of the first.
* `hashedrekord.rs:100`: a 0.0.2 body that names a public key instead of a
  certificate is not compared with the bundle's certificate. Whoever signed with
  a bare key that is also certified has an entry that fits either.
* An intoto 0.0.2 body's verifier is not compared with the bundle's certificate,
  and it is no source of time although it is a version 1 entry;
  `has_v2_tlog_entries` takes it for version 2, in an error message only.
* `helpers.rs:417` finds the issuer by name, so that with two authorities of one
  name the first one's key is used; `trusted_root.rs:530` accepts a time within
  the validity of any timestamp authority.
* `helpers.rs:212`: with `skip_tlog`, the time may come from an entry whose
  promise nobody verified; `result.integrated_time` may come from an entry
  without a promise; `skip_timestamp` sets `policy.verify_timestamp`, which is
  never read.

Signing:

* `sigstore-sign/sign.rs`: the answers of the services are not looked at. A
  certificate that expired between two steps, the entry of somebody else, or a log
  of version 2 without a timestamp authority give a bundle that nobody can verify
  (`AcceptedWasTimely`). `is_expired` of a token is never called.
* When the timestamp authority fails, or the answer of the log is lost, the entry
  stays in the log without a bundle, and the retry logs another (`LogIsAccountable`
  says that nothing else is ever logged).
* An attestation without subjects is signed and logged, but no verifier accepts
  it for any artifact.
* The comment at `sign.rs:32` says of the log's version "(defaults to V2)"; the
  default is 1. The operator and count of a service list (`EXACT`, `count`) are not used:
  the first endpoint is. `staging()` with `with_rekor_version` takes the default
  URL of that version, which is the production log.

Authorization:

* `sigstore-oidc/oauth.rs:359`: one connection is accepted. Whatever else
  connects first uses it up. `CALLBACK_TIMEOUT` is called "Timeout for waiting for the
  browser callback (5 minutes)" (`oauth.rs:26`), but can only end `accept`: the request
  line is read from a blocking socket without an await, and a peer that connects and
  says nothing holds the call for ever. On a runtime of one thread it holds every other
  task as well, timers included. The page that says success is sent before state and
  code are looked at.
* The clients of Fulcio, Rekor, the timestamp authority and the provider set no
  HTTP timeouts.
* `sigstore-conformance`: the usage of `verify-bundle` lists `--staging`, which
  the command ignores.

## Not modelled

Encodings and primitives (`sigstore-types`, `sigstore-crypto`, ASN.1 and CMS
syntax, canonical JSON, key parsing, SHA-384 digests and the schemes with a
prehash), HTTP requests and command-line handling: they keep no state, and what
they compute appears as sets and predicates above. Size limits of downloads
appear as a fetch that fails. Of the OIDC crate, ambient credentials and the
decoding of tokens; of the Rekor client, retrieval and search of entries, each
one request that nothing in the workspace calls; of the cache, `get_or_set` and
`cleanup_expired`. Two authorities of one name, and envelopes with several
signatures beyond what is said above, are not among the instances.

## Plan

1. An abstract register with a lifetime that `ReadThroughCache` refines in memory,
   and a one-step fetch that `TrustClient` refines.
2. `Verifier` with a second authority of one name and envelopes with several
   signatures.
