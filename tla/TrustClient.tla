----------------------------- MODULE TrustClient -----------------------------
(***************************************************************************)
(* Where the trusted root and the signing configuration come from:         *)
(* `TrustedRoot::from_tuf`, `SigningConfig::from_tuf` and                   *)
(* `fetch_trust_material` (sigstore-trust-root/src/tuf.rs), several         *)
(* processes over the cache directories of several Sigstore instances.      *)
(* Online, a refreshed TUF session resolves each target, uses the cached    *)
(* copy when it is the pinned one and downloads it otherwise; offline, a    *)
(* target is read from the cache or from the copy compiled into the         *)
(* program.                                                                 *)
(*                                                                          *)
(* A refresh is abstracted to what the TufUpdater runs show of it: it       *)
(* adopts one published generation that is not below the floor it read from *)
(* the store when it began, writes that generation over whatever is there   *)
(* by then, or fails.                                                       *)
(***************************************************************************)
EXTENDS Naturals, Sequences, FiniteSets

CONSTANTS
  Process,        \* programs that use the crate
  Instance,       \* Sigstore instances; each stands for its TUF URL
  GivenDir,       \* directories passed to with_cache_dir
  Target,         \* trusted_root.json and signing_config.v0.2.json
  Uses,           \* Uses[p]: the TufConfigs p may call with
  Request,        \* sequences of targets that are asked for together
  Embedded,       \* <<i, t>>: a copy of t of instance i is compiled in
  MaxGeneration,  \* bound: generations an instance publishes
  Content,        \* Content[i][t][g]: the bytes of t in generation g of i
  Garbage,        \* bytes that were never published
  NoFile,         \* no such file
  Undirected      \* TufConfig without a cache directory of its own

Generation == 1 .. MaxGeneration
Dir == Instance \cup GivenDir
Bytes == {Content[i][t][g] : i \in Instance, t \in Target, g \in Generation} \cup {Garbage}

\* A TufConfig; root: its URL parses, and it brings a root of trust that can be used
\* or is known to have one.
Config == [instance : Instance, dir : GivenDir \cup {Undirected},
           cache : BOOLEAN, offline : BOOLEAN, root : BOOLEAN]

ASSUME ClientAssumption ==
  /\ MaxGeneration \in Nat \ {0}
  /\ Uses \in [Process -> SUBSET Config]
  /\ \A p \in Process : Uses[p] # {}
  /\ Request \subseteq Seq(Target) \ {<<>>}
  /\ Request # {}
  /\ Embedded \subseteq Instance \X Target
  /\ Content \in [Instance -> [Target -> [Generation -> Bytes]]]
  /\ NoFile \notin Bytes
  /\ GivenDir \cap (Instance \cup {Undirected}) = {}
  /\ \A i \in Instance, t \in Target, g \in Generation : Content[i][t][g] # Garbage

VARIABLES
  published,   \* published[i]: the latest generation of instance i
  metadata,    \* metadata[d]: whose metadata the directory holds, and of when
  files,       \* files[d]: the files under d by name
  binary,      \* binary[p][i]: the generation compiled into the program p runs
  pc,          \* pc[p]: where the current call of p is
  config,      \* config[p]: its TufConfig
  request,     \* request[p]: the targets it asks for
  generation,  \* generation[p]: what its session has: seeded, then refreshed
  got,         \* got[p]: the targets obtained so far, in order
  kept         \* history: <<d, t>> an online call stored without an error

vars == <<published, metadata, files, binary, pc, config, request, generation,
          got, kept>>
call == <<config, request, generation, got>>

-----------------------------------------------------------------------------
\* get_cache_dir: a directory that was passed is used as it is, by any instance;
\* the default is named after the URL (url_to_dirname).
CacheDir(c) == IF c.dir = Undirected THEN c.instance ELSE c.dir

TargetFile(t) == <<"targets", t>>
TargetFiles == {TargetFile(t) : t \in Target}

Wanted(p) == request[p][Len(got[p]) + 1]
Pinned(p) == Content[config[p].instance][Wanted(p)][generation[p]]
CachedFile(p) == files[CacheDir(config[p])][TargetFile(Wanted(p))]
HasCopy(p) == config[p].cache /\ CachedFile(p) # NoFile

Goto(p, step) == pc' = [pc EXCEPT ![p] = step]

\* An error of any step is the result of the call.
Fail(p) ==
  /\ Goto(p, "failed")
  /\ UNCHANGED <<published, metadata, files, binary, call, kept>>

\* One target more; the call returns with the last.
Obtain(p, bytes) ==
  /\ got' = [got EXCEPT ![p] = Append(@, bytes)]
  /\ UNCHANGED <<published, metadata, binary, config, request, generation>>

Proceed(p, step) ==
  Goto(p, IF Len(got[p]) + 1 = Len(request[p]) THEN "done" ELSE step)

-----------------------------------------------------------------------------
Init ==
  /\ published = [i \in Instance |-> 1]
  /\ metadata = [d \in Dir |-> NoFile]
  /\ files = [d \in Dir |-> [f \in TargetFiles |-> NoFile]]
  /\ binary = [p \in Process |-> [i \in Instance |-> 1]]
  /\ pc = [p \in Process |-> "idle"]
  /\ config = [p \in Process |-> CHOOSE c \in Uses[p] : TRUE]
  /\ request = [p \in Process |-> CHOOSE r \in Request : TRUE]
  /\ generation = [p \in Process |-> 0]
  /\ got = [p \in Process |-> <<>>]
  /\ kept = {}

Publish(i) ==
  /\ published[i] < MaxGeneration
  /\ published' = [published EXCEPT ![i] = @ + 1]
  /\ UNCHANGED <<metadata, files, binary, pc, call, kept>>

\* The process ends anywhere, and the program may be upgraded before it runs again.
Restart(p) ==
  /\ \E b \in [Instance -> Generation] :
       /\ \A i \in Instance : binary[p][i] <= b[i] /\ b[i] <= published[i]
       /\ binary' = [binary EXCEPT ![p] = b]
  /\ Goto(p, "idle")
  /\ config' = [config EXCEPT ![p] = CHOOSE c \in Uses[p] : TRUE]
  /\ request' = [request EXCEPT ![p] = CHOOSE r \in Request : TRUE]
  /\ generation' = [generation EXCEPT ![p] = 0]
  /\ got' = [got EXCEPT ![p] = <<>>]
  /\ UNCHANGED <<published, metadata, files, kept>>

Start(p) ==
  /\ pc[p] \in {"idle", "done", "failed"}
  /\ \E c \in Uses[p], r \in Request :
       /\ config' = [config EXCEPT ![p] = c]
       /\ request' = [request EXCEPT ![p] = r]
       /\ Goto(p, IF c.offline THEN "offline" ELSE "connect")
  /\ got' = [got EXCEPT ![p] = <<>>]
  /\ generation' = [generation EXCEPT ![p] = 0]
  /\ UNCHANGED <<published, metadata, files, binary, kept>>

-----------------------------------------------------------------------------
(* Online: build_updater, then get_target for every name.                   *)

\* What seeding finds: metadata of another instance does not verify.
Seeded(c) ==
  LET m == metadata[CacheDir(c)]
  IN IF c.cache /\ m # NoFile /\ m.instance = c.instance THEN m.generation ELSE 0

Connect(p) ==
  /\ pc[p] = "connect"
  /\ config[p].root
  /\ generation' = [generation EXCEPT ![p] = Seeded(config[p])]
  /\ Goto(p, "refresh")
  /\ UNCHANGED <<published, metadata, files, binary, config, request, got, kept>>

\* No repository or root of trust for the URL, or the cache directory cannot be
\* created.
ConnectFails(p) ==
  /\ pc[p] = "connect"
  /\ ~config[p].root \/ config[p].cache
  /\ Fail(p)

Refreshed(p) ==
  /\ pc[p] = "refresh"
  /\ \E g \in 1 .. published[config[p].instance] :
       /\ g >= generation[p]
       /\ generation' = [generation EXCEPT ![p] = g]
       /\ metadata' =
            IF config[p].cache
            THEN [metadata EXCEPT ![CacheDir(config[p])] =
                    [instance |-> config[p].instance, generation |-> g]]
            ELSE metadata
  /\ Goto(p, "find")
  /\ UNCHANGED <<published, files, binary, config, request, got, kept>>

\* Mutant: the cached copy is used without looking at it.
AnyCopy(bytes, pinned) == TRUE

\* verify_target_bytes: length and digest.
Verified(bytes, pinned) == bytes = pinned

\* find_cached_target
FoundCached(p) ==
  /\ pc[p] = "find"
  /\ HasCopy(p) /\ Verified(CachedFile(p), Pinned(p))
  /\ Obtain(p, CachedFile(p))
  /\ Proceed(p, "find")
  /\ UNCHANGED <<files, kept>>

NotCached(p) ==
  /\ pc[p] = "find"
  /\ ~(HasCopy(p) /\ Verified(CachedFile(p), Pinned(p)))
  /\ Goto(p, "download")
  /\ UNCHANGED <<published, metadata, files, binary, call, kept>>

\* Mutant: stored under the name it is downloaded as, digest and all.
CachePutAsDownloaded(p, bytes) ==
  LET d == CacheDir(config[p]) IN
  \/ /\ config[p].cache
     /\ files' = [files EXCEPT ![d] = [f \in DOMAIN @ \cup {<<"targets", bytes, Wanted(p)>>} |->
                    IF f = <<"targets", bytes, Wanted(p)>> THEN bytes ELSE @[f]]]
     /\ kept' = kept \cup {<<d, Wanted(p)>>}
  \/ UNCHANGED <<files, kept>>

\* cache_put is best effort: a write that fails is only logged.
CachePut(p, bytes) ==
  LET d == CacheDir(config[p]) IN
  \/ /\ config[p].cache
     /\ files' = [files EXCEPT ![d][TargetFile(Wanted(p))] = bytes]
     /\ kept' = kept \cup {<<d, Wanted(p)>>}
  \/ UNCHANGED <<files, kept>>

\* Mutant: the answer is stored before it is verified.
AnsweredStoringFirst(p) ==
  /\ pc[p] = "download"
  /\ \E reply \in Bytes :
       /\ CachePut(p, reply)
       /\ IF Verified(reply, Pinned(p))
          THEN Obtain(p, reply) /\ Proceed(p, "find")
          ELSE Goto(p, "failed") /\ UNCHANGED <<published, metadata, binary, call>>

\* download_target: whatever comes back is verified, then stored, then returned.
Answered(p) ==
  /\ pc[p] = "download"
  /\ \E reply \in Bytes :
       \/ /\ Verified(reply, Pinned(p))
          /\ CachePut(p, reply)
          /\ Obtain(p, reply)
          /\ Proceed(p, "find")
       \/ /\ ~Verified(reply, Pinned(p))
          /\ Fail(p)

\* Mutant: an HTTP client without timeouts.
NeverTimedOut(p) == FALSE

\* The connect and read timeouts of HttpRepository::new, a transport error, a
\* target that is not found or is longer than allowed, a refresh that is refused.
TimedOut(p) ==
  /\ pc[p] \in {"refresh", "download"}
  /\ Fail(p)

-----------------------------------------------------------------------------
(* Offline: fetch_target_offline for every name, one after the other.       *)

OfflineCached(p) ==
  /\ pc[p] = "offline"
  /\ HasCopy(p)
  /\ Obtain(p, CachedFile(p))
  /\ Proceed(p, "offline")
  /\ UNCHANGED <<files, kept>>

\* The copy is found by the URL's prefix: the instances' URLs begin differently.
OfflineEmbedded(p) ==
  LET i == config[p].instance IN
  /\ pc[p] = "offline"
  /\ ~HasCopy(p) /\ <<i, Wanted(p)>> \in Embedded
  /\ Obtain(p, Content[i][Wanted(p)][binary[p][i]])
  /\ Proceed(p, "offline")
  /\ UNCHANGED <<files, kept>>

OfflineMissing(p) ==
  /\ pc[p] = "offline"
  /\ ~HasCopy(p) /\ <<config[p].instance, Wanted(p)>> \notin Embedded
  /\ Fail(p)

-----------------------------------------------------------------------------
Local(p) ==
  \/ Connect(p) \/ ConnectFails(p) \/ FoundCached(p) \/ NotCached(p)
  \/ OfflineCached(p) \/ OfflineEmbedded(p) \/ OfflineMissing(p)

Network(p) == Refreshed(p) \/ Answered(p)

Next ==
  \/ \E i \in Instance : Publish(i)
  \/ \E p \in Process : Start(p) \/ Restart(p) \/ Local(p) \/ Network(p) \/ TimedOut(p)

Spec == Init /\ [][Next]_vars

\* Local steps are taken and timers go off; that a server ever answers is not
\* assumed.
Fairness == \A p \in Process : WF_vars(Local(p)) /\ WF_vars(TimedOut(p))
FairSpec == Spec /\ Fairness

-----------------------------------------------------------------------------
(* Properties.                                                             *)

Running == {"connect", "refresh", "find", "download", "offline"}

\* The state is well formed.
TypeOK ==
  /\ published \in [Instance -> Generation]
  /\ metadata \in [Dir -> {NoFile} \cup [instance : Instance, generation : Generation]]
  /\ files \in [Dir -> [TargetFiles -> Bytes \cup {NoFile}]]
  /\ binary \in [Process -> [Instance -> Generation]]
  /\ pc \in [Process -> Running \cup {"idle", "done", "failed"}]
  /\ config \in [Process -> Config] /\ \A p \in Process : config[p] \in Uses[p]
  /\ request \in [Process -> Request]
  /\ generation \in [Process -> 0 .. MaxGeneration]
  /\ got \in [Process -> Seq(Bytes)]
  /\ kept \subseteq Dir \X Target

\* Everything one online call returns belongs to the one generation its session
\* refreshed to, although cached copies are replaced by other processes meanwhile and some of them are
\* of other generations (tuf.rs fetch_targets, client.rs find_cached_target).
OneGeneration ==
  \A p \in Process : ~config[p].offline /\ got[p] # <<>> =>
    /\ generation[p] \in 1 .. published[config[p].instance]
    /\ \A k \in DOMAIN got[p] :
         got[p][k] = Content[config[p].instance][request[p][k]][generation[p]]

WasPublished(i, t, bytes) ==
  \E g \in 1 .. published[i] : bytes = Content[i][t][g]

\* Offline, nothing is verified: with a directory of its own, an instance still
\* only ever serves what it published, because nothing else is ever written
\* there or compiled in (tuf.rs fetch_target_offline, "verified at download
\* time"; get_cache_dir).
ServedWasPublished ==
  \A p \in Process : config[p].dir = Undirected =>
    \A k \in DOMAIN got[p] : WasPublished(config[p].instance, request[p][k], got[p][k])

\* "verified metadata and downloaded targets are written through to the per-URL
\* cache directory so a later `offline()` run can serve them" (tuf.rs
\* build_updater): an offline call does not fail on a target that was kept.
OfflineServesKept ==
  [][\A p \in Process :
       pc[p] = "offline" /\ pc'[p] = "failed" /\ config[p].cache =>
         <<CacheDir(config[p]), Wanted(p)>> \notin kept]_vars

\* A call returns, with what was asked for or with an error, whatever the servers
\* do (tuf.rs; client.rs HttpRepository::new: a mirror must not "hang a refresh
\* indefinitely").
FetchReturns ==
  \A p \in Process : pc[p] \in Running ~> pc[p] \notin Running
==============================================================================
