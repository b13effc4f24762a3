-------------------------- MODULE TrustClient_proofs --------------------------
(***************************************************************************)
(* Theorems about TrustClient, for all processes, instances, directories,   *)
(* configurations and contents.                                             *)
(***************************************************************************)
EXTENDS TrustClient, TLAPS

\* A call that runs still has a target to obtain.
Unfinished ==
  \A p \in Process : pc[p] \in Running => Len(got[p]) < Len(request[p])

TypeInv == TypeOK /\ Unfinished

-----------------------------------------------------------------------------
(* What the operators return.                                              *)

\* The directory of a TufConfig is one of the directories.
LEMMA CacheDirType ==
  ASSUME NEW c \in Config
  PROVE  CacheDir(c) \in Dir
BY DEF Config, CacheDir, Dir

\* The target a running call asks for next is a target.
LEMMA WantedType ==
  ASSUME TypeInv, NEW p \in Process, pc[p] \in Running
  PROVE  /\ Wanted(p) \in Target
         /\ request[p] \in Seq(Target)
         /\ got[p] \in Seq(Bytes)
         /\ Len(got[p]) + 1 \in 1 .. Len(request[p])
         /\ CacheDir(config[p]) \in Dir
         /\ config[p] \in Config
         /\ config[p].instance \in Instance
<1>1. request[p] \in Seq(Target)
  BY ClientAssumption DEF TypeInv, TypeOK
<1>2. got[p] \in Seq(Bytes) /\ config[p] \in Config
  BY DEF TypeInv, TypeOK
<1>3. Len(got[p]) + 1 \in 1 .. Len(request[p])
  BY <1>1, <1>2 DEF TypeInv, Unfinished
<1>4. Wanted(p) \in Target
  BY <1>1, <1>3 DEF Wanted
<1>5. CacheDir(config[p]) \in Dir /\ config[p].instance \in Instance
  BY <1>2, CacheDirType DEF Config
<1> QED
  BY <1>1, <1>2, <1>3, <1>4, <1>5

\* What is read from the cache is bytes, unless there is no file.
LEMMA CachedFileType ==
  ASSUME TypeInv, NEW p \in Process, pc[p] \in Running
  PROVE  CachedFile(p) \in Bytes \cup {NoFile}
<1>1. Wanted(p) \in Target /\ CacheDir(config[p]) \in Dir
  BY WantedType
<1>2. TargetFile(Wanted(p)) \in TargetFiles
  BY <1>1 DEF TargetFiles
<1>3. files[CacheDir(config[p])] \in [TargetFiles -> Bytes \cup {NoFile}]
  BY <1>1 DEF TypeInv, TypeOK
<1> QED
  BY <1>2, <1>3 DEF CachedFile

\* The generation read from the store is one, or none.
LEMMA SeededType ==
  ASSUME TypeOK, NEW c \in Config
  PROVE  Seeded(c) \in 0 .. MaxGeneration
<1>1. metadata[CacheDir(c)] \in {NoFile} \cup [instance : Instance, generation : Generation]
  BY CacheDirType DEF TypeOK
<1>2. MaxGeneration \in Nat
  BY ClientAssumption
<1> QED
  BY <1>1, <1>2 DEF Seeded, Generation

\* What has been compiled in or is pinned is bytes that were published once.
LEMMA ContentType ==
  ASSUME NEW i \in Instance, NEW t \in Target, NEW g \in Generation
  PROVE  /\ Content[i][t][g] \in Bytes
         /\ Content[i][t][g] # NoFile
BY ClientAssumption

\* Obtaining one target more keeps `got` a sequence of bytes and the call
\* unfinished unless it returns.
LEMMA ObtainType ==
  ASSUME TypeInv, NEW p \in Process, pc[p] \in Running,
         NEW bytes \in Bytes, NEW step \in Running,
         got' = [got EXCEPT ![p] = Append(@, bytes)], Proceed(p, step),
         UNCHANGED request
  PROVE  /\ got' \in [Process -> Seq(Bytes)]
         /\ pc' \in [Process -> Running \cup {"idle", "done", "failed"}]
         /\ Unfinished'
<1>1. got[p] \in Seq(Bytes) /\ request[p] \in Seq(Target) /\ Len(got[p]) < Len(request[p])
  BY WantedType DEF TypeInv, Unfinished
<1>2. Append(got[p], bytes) \in Seq(Bytes) /\ Len(Append(got[p], bytes)) = Len(got[p]) + 1
  BY <1>1
<1>3. got' \in [Process -> Seq(Bytes)] /\ got'[p] = Append(got[p], bytes)
  BY <1>2 DEF TypeInv, TypeOK
<1>4. pc' \in [Process -> Running \cup {"idle", "done", "failed"}]
  BY DEF TypeInv, TypeOK, Proceed, Goto
<1>5. ASSUME NEW q \in Process, pc'[q] \in Running
      PROVE  Len(got'[q]) < Len(request'[q])
  <2>1. CASE q = p
    <3>1. Len(got[p]) + 1 # Len(request[p])
      BY <1>5, <2>1 DEF Proceed, Goto, Running, TypeInv, TypeOK
    <3> QED
      BY <1>1, <1>2, <1>3, <2>1, <3>1
  <2>2. CASE q # p
    BY <1>5, <2>2 DEF TypeInv, TypeOK, Unfinished, Proceed, Goto
  <2> QED
    BY <2>1, <2>2
<1> QED
  BY <1>3, <1>4, <1>5 DEF Unfinished

\* Storing a target keeps the directories well formed.
LEMMA CachePutType ==
  ASSUME TypeInv, NEW p \in Process, pc[p] \in Running,
         NEW bytes \in Bytes, CachePut(p, bytes)
  PROVE  /\ files' \in [Dir -> [TargetFiles -> Bytes \cup {NoFile}]]
         /\ kept' \subseteq Dir \X Target
<1>1. Wanted(p) \in Target /\ CacheDir(config[p]) \in Dir
  BY WantedType
<1>2. files[CacheDir(config[p])] \in [TargetFiles -> Bytes \cup {NoFile}]
  BY <1>1 DEF TypeInv, TypeOK
<1>3. [files[CacheDir(config[p])] EXCEPT ![TargetFile(Wanted(p))] = bytes]
        \in [TargetFiles -> Bytes \cup {NoFile}]
  BY <1>2
<1>4. CASE UNCHANGED <<files, kept>>
  BY <1>4 DEF TypeInv, TypeOK
<1>5. CASE /\ files' = [files EXCEPT ![CacheDir(config[p])][TargetFile(Wanted(p))] = bytes]
           /\ kept' = kept \cup {<<CacheDir(config[p]), Wanted(p)>>}
  <2>1. files' = [files EXCEPT ![CacheDir(config[p])] =
                    [files[CacheDir(config[p])] EXCEPT ![TargetFile(Wanted(p))] = bytes]]
    BY <1>5
  <2>2. files \in [Dir -> [TargetFiles -> Bytes \cup {NoFile}]] /\ kept \subseteq Dir \X Target
    BY DEF TypeInv, TypeOK
  <2>3. files' \in [Dir -> [TargetFiles -> Bytes \cup {NoFile}]]
    BY <1>1, <1>3, <2>1, <2>2
  <2> QED
    BY <1>1, <1>5, <2>2, <2>3
<1> QED
  BY <1>4, <1>5 DEF CachePut

-----------------------------------------------------------------------------
(* Type correctness.                                                       *)

\* The initial state is well formed and no call runs.
LEMMA InitTypeInv == Init => TypeInv
<1> SUFFICES ASSUME Init PROVE TypeInv
  OBVIOUS
<1>1. \A p \in Process : (CHOOSE c \in Uses[p] : TRUE) \in Uses[p] /\ Uses[p] \subseteq Config
  BY ClientAssumption
<1>2. (CHOOSE r \in Request : TRUE) \in Request
  BY ClientAssumption
<1>3. config \in [Process -> Config] /\ \A p \in Process : config[p] \in Uses[p]
  BY <1>1 DEF Init
<1>4. request \in [Process -> Request]
  BY <1>2 DEF Init
<1>5. published \in [Instance -> Generation] /\ binary \in [Process -> [Instance -> Generation]]
  BY ClientAssumption DEF Init, Generation
<1>6. generation \in [Process -> 0 .. MaxGeneration]
  BY ClientAssumption DEF Init
<1>7. got \in [Process -> Seq(Bytes)]
  BY DEF Init
<1>8. files \in [Dir -> [TargetFiles -> Bytes \cup {NoFile}]]
  BY DEF Init
<1> QED
  BY <1>3, <1>4, <1>5, <1>6, <1>7, <1>8 DEF Init, TypeInv, TypeOK, Unfinished, Running

\* A step that fails, or leaves the targets and the files alone and moves a
\* running call on.
LEMMA MoveTypeInv ==
  ASSUME TypeInv, NEW p \in Process, pc[p] \in Running,
         NEW step \in Running \cup {"failed"}, Goto(p, step),
         UNCHANGED <<published, files, binary, config, request, got, kept>>,
         metadata' \in [Dir -> {NoFile} \cup [instance : Instance, generation : Generation]],
         generation' \in [Process -> 0 .. MaxGeneration]
  PROVE  TypeInv'
<1>1. TypeOK'
  BY DEF TypeInv, TypeOK, Goto
<1>2. Unfinished'
  BY DEF TypeInv, TypeOK, Unfinished, Goto
<1> QED
  BY <1>1, <1>2 DEF TypeInv

\* Failing is such a step.
LEMMA FailTypeInv ==
  ASSUME TypeInv, NEW p \in Process, pc[p] \in Running, Fail(p)
  PROVE  TypeInv'
<1>1. "failed" \in Running \cup {"failed"} /\ Goto(p, "failed")
  BY DEF Fail
<1>2. UNCHANGED <<published, files, binary, config, request, got, kept>>
  BY DEF Fail, call
<1>3. metadata' \in [Dir -> {NoFile} \cup [instance : Instance, generation : Generation]]
      /\ generation' \in [Process -> 0 .. MaxGeneration]
  BY DEF Fail, call, TypeInv, TypeOK
<1> QED
  BY <1>1, <1>2, <1>3, MoveTypeInv

\* Obtaining a target from wherever it comes is well typed.
LEMMA ObtainTypeInv ==
  ASSUME TypeInv, NEW p \in Process, pc[p] \in Running,
         NEW bytes \in Bytes, NEW step \in Running, Obtain(p, bytes), Proceed(p, step),
         files' \in [Dir -> [TargetFiles -> Bytes \cup {NoFile}]],
         kept' \subseteq Dir \X Target
  PROVE  TypeInv'
<1>1. /\ got' \in [Process -> Seq(Bytes)]
      /\ pc' \in [Process -> Running \cup {"idle", "done", "failed"}]
      /\ Unfinished'
  BY ObtainType DEF Obtain
<1> QED
  BY <1>1 DEF Obtain, TypeInv, TypeOK

\* The steps of one process keep the state well formed.
LEMMA StepTypeInv ==
  ASSUME TypeInv, NEW p \in Process, Local(p) \/ Network(p) \/ TimedOut(p)
  PROVE  TypeInv'
<1>1. CASE Connect(p)
  <2>1. pc[p] \in Running /\ "refresh" \in Running \cup {"failed"} /\ Goto(p, "refresh")
    BY <1>1 DEF Connect, Running
  <2>2. config[p] \in Config
    BY DEF TypeInv, TypeOK
  <2>3. generation' \in [Process -> 0 .. MaxGeneration]
    BY <1>1, <2>2, SeededType DEF Connect, TypeInv, TypeOK
  <2>4. metadata' \in [Dir -> {NoFile} \cup [instance : Instance, generation : Generation]]
    BY <1>1 DEF Connect, TypeInv, TypeOK
  <2>5. UNCHANGED <<published, files, binary, config, request, got, kept>>
    BY <1>1 DEF Connect
  <2> QED
    BY <2>1, <2>3, <2>4, <2>5, MoveTypeInv
<1>2. CASE ConnectFails(p)
  BY <1>2, FailTypeInv DEF ConnectFails, Running
<1>3. CASE FoundCached(p)
  <2>1. pc[p] \in Running /\ "find" \in Running
    BY <1>3 DEF FoundCached, Running
  <2>2. /\ Obtain(p, CachedFile(p)) /\ Proceed(p, "find")
        /\ files' \in [Dir -> [TargetFiles -> Bytes \cup {NoFile}]] /\ kept' \subseteq Dir \X Target
    BY <1>3 DEF FoundCached, TypeInv, TypeOK
  <2>3. CachedFile(p) \in Bytes
    BY <1>3, <2>1, CachedFileType DEF FoundCached, HasCopy
  <2> QED
    BY <2>1, <2>2, <2>3, ObtainTypeInv
<1>4. CASE NotCached(p)
  <2>1. pc[p] \in Running /\ "download" \in Running \cup {"failed"} /\ Goto(p, "download")
    BY <1>4 DEF NotCached, Running
  <2>2. UNCHANGED <<published, files, binary, config, request, got, kept>>
    BY <1>4 DEF NotCached, call
  <2>3. /\ generation' \in [Process -> 0 .. MaxGeneration]
        /\ metadata' \in [Dir -> {NoFile} \cup [instance : Instance, generation : Generation]]
    BY <1>4 DEF NotCached, call, TypeInv, TypeOK
  <2> QED
    BY <2>1, <2>2, <2>3, MoveTypeInv
<1>5. CASE OfflineCached(p)
  <2>1. pc[p] \in Running /\ "offline" \in Running
    BY <1>5 DEF OfflineCached, Running
  <2>2. CachedFile(p) \in Bytes
    BY <1>5, <2>1, CachedFileType DEF OfflineCached, HasCopy
  <2>3. /\ Obtain(p, CachedFile(p)) /\ Proceed(p, "offline")
        /\ files' \in [Dir -> [TargetFiles -> Bytes \cup {NoFile}]] /\ kept' \subseteq Dir \X Target
    BY <1>5 DEF OfflineCached, TypeInv, TypeOK
  <2> QED
    BY <2>1, <2>2, <2>3, ObtainTypeInv
<1>6. CASE OfflineEmbedded(p)
  <2> DEFINE bytes == Content[config[p].instance][Wanted(p)][binary[p][config[p].instance]]
  <2>1. pc[p] \in Running /\ "offline" \in Running
    BY <1>6 DEF OfflineEmbedded, Running
  <2>2. Wanted(p) \in Target /\ config[p].instance \in Instance
    BY <2>1, WantedType
  <2>3. binary[p][config[p].instance] \in Generation
    BY <2>2 DEF TypeInv, TypeOK
  <2>4. bytes \in Bytes
    BY <2>2, <2>3, ContentType
  <2>5. /\ Obtain(p, bytes) /\ Proceed(p, "offline")
        /\ files' \in [Dir -> [TargetFiles -> Bytes \cup {NoFile}]] /\ kept' \subseteq Dir \X Target
    BY <1>6 DEF OfflineEmbedded, TypeInv, TypeOK
  <2> HIDE DEF bytes
  <2> QED
    BY <2>1, <2>4, <2>5, ObtainTypeInv
<1>7. CASE OfflineMissing(p)
  BY <1>7, FailTypeInv DEF OfflineMissing, Running
<1>8. CASE Refreshed(p)
  <2>1. pc[p] \in Running /\ "find" \in Running \cup {"failed"} /\ Goto(p, "find")
    BY <1>8 DEF Refreshed, Running
  <2>2. PICK g \in 1 .. published[config[p].instance] :
          /\ generation' = [generation EXCEPT ![p] = g]
          /\ metadata' =
               IF config[p].cache
               THEN [metadata EXCEPT ![CacheDir(config[p])] =
                       [instance |-> config[p].instance, generation |-> g]]
               ELSE metadata
    BY <1>8 DEF Refreshed
  <2>3. config[p].instance \in Instance /\ CacheDir(config[p]) \in Dir
    BY <2>1, WantedType
  <2>4. published[config[p].instance] \in 1 .. MaxGeneration /\ MaxGeneration \in Nat
    BY <2>3, ClientAssumption DEF TypeInv, TypeOK, Generation
  <2>5. g \in Generation /\ g \in 0 .. MaxGeneration
    BY <2>4 DEF Generation
  <2>6. generation' \in [Process -> 0 .. MaxGeneration]
    BY <2>2, <2>5 DEF TypeInv, TypeOK
  <2>7. metadata' \in [Dir -> {NoFile} \cup [instance : Instance, generation : Generation]]
    BY <2>2, <2>3, <2>5 DEF TypeInv, TypeOK
  <2>8. UNCHANGED <<published, files, binary, config, request, got, kept>>
    BY <1>8 DEF Refreshed
  <2> QED
    BY <2>1, <2>6, <2>7, <2>8, MoveTypeInv
<1>9. CASE Answered(p)
  <2>1. pc[p] \in Running /\ "find" \in Running
    BY <1>9 DEF Answered, Running
  <2>2. PICK reply \in Bytes :
          \/ /\ CachePut(p, reply) /\ Obtain(p, reply) /\ Proceed(p, "find")
          \/ Fail(p)
    BY <1>9 DEF Answered
  <2>3. CASE Fail(p)
    BY <2>1, <2>3, FailTypeInv
  <2>4. CASE CachePut(p, reply) /\ Obtain(p, reply) /\ Proceed(p, "find")
    <3>1. files' \in [Dir -> [TargetFiles -> Bytes \cup {NoFile}]] /\ kept' \subseteq Dir \X Target
      BY <2>1, <2>4, CachePutType
    <3> QED
      BY <2>1, <2>4, <3>1, ObtainTypeInv
  <2> QED
    BY <2>2, <2>3, <2>4
<1>10. CASE TimedOut(p)
  BY <1>10, FailTypeInv DEF TimedOut, Running
<1> QED
  BY <1>1, <1>2, <1>3, <1>4, <1>5, <1>6, <1>7, <1>8, <1>9, <1>10 DEF Local, Network

\* The steps of the publishers and the starts and ends of calls do too.
LEMMA OtherTypeInv ==
  ASSUME TypeInv,
         \/ \E i \in Instance : Publish(i)
         \/ \E p \in Process : Start(p) \/ Restart(p)
  PROVE  TypeInv'
<1>1. ASSUME NEW i \in Instance, Publish(i) PROVE TypeInv'
  <2>1. published' \in [Instance -> Generation]
    BY <1>1, ClientAssumption DEF Publish, TypeInv, TypeOK, Generation
  <2> QED
    BY <1>1, <2>1 DEF Publish, call, TypeInv, TypeOK, Unfinished
<1>2. ASSUME NEW p \in Process, Start(p) PROVE TypeInv'
  <2>1. PICK c \in Uses[p], r \in Request :
          /\ config' = [config EXCEPT ![p] = c]
          /\ request' = [request EXCEPT ![p] = r]
          /\ Goto(p, IF c.offline THEN "offline" ELSE "connect")
    BY <1>2 DEF Start
  <2>2. c \in Config /\ r \in Seq(Target) /\ r # <<>>
    BY ClientAssumption
  <2>3. <<>> \in Seq(Bytes) /\ Len(<<>>) < Len(r)
    BY <2>2
  <2>4. 0 \in 0 .. MaxGeneration
    BY ClientAssumption
  <2>5. TypeOK'
    BY <1>2, <2>1, <2>2, <2>3, <2>4 DEF Start, Goto, TypeInv, TypeOK, Running
  <2>6. Unfinished'
    BY <1>2, <2>1, <2>3 DEF Start, Goto, TypeInv, TypeOK, Unfinished
  <2> QED
    BY <2>5, <2>6 DEF TypeInv
<1>3. ASSUME NEW p \in Process, Restart(p) PROVE TypeInv'
  <2>1. (CHOOSE c \in Uses[p] : TRUE) \in Uses[p] /\ Uses[p] \subseteq Config
    BY ClientAssumption
  <2>2. (CHOOSE r \in Request : TRUE) \in Request
    BY ClientAssumption
  <2>3. 0 \in 0 .. MaxGeneration /\ <<>> \in Seq(Bytes)
    BY ClientAssumption
  <2>4. binary' \in [Process -> [Instance -> Generation]]
    <3>1. PICK b \in [Instance -> Generation] : binary' = [binary EXCEPT ![p] = b]
      BY <1>3 DEF Restart
    <3>2. binary \in [Process -> [Instance -> Generation]]
      BY DEF TypeInv, TypeOK
    <3> QED
      BY ONLY <3>1, <3>2
  <2>5. TypeOK'
    BY <1>3, <2>1, <2>2, <2>3, <2>4 DEF Restart, Goto, TypeInv, TypeOK
  <2>6. Unfinished'
    BY <1>3 DEF Restart, Goto, TypeInv, TypeOK, Unfinished, Running
  <2> QED
    BY <2>5, <2>6 DEF TypeInv
<1> QED
  BY <1>1, <1>2, <1>3

\* Every step keeps the state well formed and running calls unfinished.
LEMMA NextTypeInv == TypeInv /\ [Next]_vars => TypeInv'
<1> SUFFICES ASSUME TypeInv, [Next]_vars PROVE TypeInv'
  OBVIOUS
<1>1. CASE UNCHANGED vars
  BY <1>1 DEF vars, TypeInv, TypeOK, Unfinished
<1>2. CASE Next
  BY <1>2, StepTypeInv, OtherTypeInv DEF Next
<1> QED
  BY <1>1, <1>2

\* The state of TrustClient is always well formed.
THEOREM TypeCorrect == Spec => []TypeOK
<1>1. TypeInv => TypeOK
  BY DEF TypeInv
<1> QED
  BY <1>1, InitTypeInv, NextTypeInv, PTL DEF Spec

-----------------------------------------------------------------------------
(* What is served.                                                         *)

\* What the stage of a call says of its mode, its session and its results.
SessionOf(p) ==
  /\ pc[p] \in {"connect", "refresh", "find", "download"} => ~config[p].offline
  /\ pc[p] = "offline" => config[p].offline
  /\ pc[p] \in {"connect", "refresh"} => got[p] = <<>>
  /\ pc[p] \in {"find", "download"} =>
       generation[p] \in 1 .. published[config[p].instance]
Session == \A p \in Process : SessionOf(p)

\* Default directories hold published files of their own instance only.
FilesPublished ==
  \A i \in Instance, t \in Target :
    files[i][TargetFile(t)] # NoFile => WasPublished(i, t, files[i][TargetFile(t)])

\* Programs are built from what was published.
BinaryPublished ==
  \A p \in Process, i \in Instance : binary[p][i] <= published[i]

IInv ==
  /\ TypeInv
  /\ Session
  /\ OneGeneration
  /\ FilesPublished
  /\ BinaryPublished
  /\ ServedWasPublished

\* What was published stays published.
LEMMA PublishedGrows ==
  ASSUME TypeInv, [Next]_vars, NEW i \in Instance
  PROVE  published'[i] >= published[i] /\ published'[i] \in Nat /\ published[i] \in Nat
<1>1. published[i] \in Nat
  BY ClientAssumption DEF TypeInv, TypeOK, Generation
<1>2. CASE \E j \in Instance : Publish(j)
  BY <1>1, <1>2 DEF Publish, TypeInv, TypeOK
<1>3. ASSUME NEW p \in Process, Start(p) \/ Restart(p) \/ Local(p) \/ Network(p) \/ TimedOut(p)
      PROVE  published' = published
  BY <1>3 DEF Start, Restart, Local, Network, TimedOut, Fail, Obtain, Connect, ConnectFails,
              FoundCached, NotCached, OfflineCached, OfflineEmbedded, OfflineMissing,
              Refreshed, Answered
<1> QED
  BY <1>1, <1>2, <1>3 DEF Next, vars

\* ... whatever it is.
LEMMA StaysPublished ==
  ASSUME TypeInv, [Next]_vars, NEW i \in Instance, NEW t, NEW bytes, WasPublished(i, t, bytes)
  PROVE  WasPublished(i, t, bytes)'
<1>1. PICK g \in 1 .. published[i] : bytes = Content[i][t][g]
  BY DEF WasPublished
<1>2. g \in 1 .. published'[i]
  BY PublishedGrows
<1> QED
  BY <1>1, <1>2 DEF WasPublished

\* Only the instance of a TufConfig uses the default directory of that instance.
LEMMA OwnDirectory ==
  ASSUME NEW c \in Config, CacheDir(c) \in Instance
  PROVE  c.dir = Undirected /\ CacheDir(c) = c.instance
BY ClientAssumption DEF Config, CacheDir

\* What the session pins was published.
LEMMA PinnedPublished ==
  ASSUME IInv, NEW p \in Process, pc[p] \in {"find", "download"}
  PROVE  WasPublished(config[p].instance, Wanted(p), Pinned(p))
BY DEF IInv, Session, SessionOf, WasPublished, Pinned

\* A step that changes neither publications nor results nor the call.
LEMMA QuietInv ==
  ASSUME IInv, UNCHANGED <<published, got, config, request>>,
         \A p \in Process : generation'[p] = generation[p] \/ got[p] = <<>>
  PROVE  OneGeneration' /\ ServedWasPublished'
BY DEF IInv, OneGeneration, ServedWasPublished, WasPublished

\* A published target more is served.
LEMMA ObtainServed ==
  ASSUME IInv, NEW p \in Process, pc[p] \in Running, NEW bytes \in Bytes, Obtain(p, bytes),
         config[p].dir = Undirected => WasPublished(config[p].instance, Wanted(p), bytes)
  PROVE  ServedWasPublished'
<1>1. got[p] \in Seq(Bytes) /\ got'[p] = Append(got[p], bytes)
  BY DEF Obtain, IInv, TypeInv, TypeOK
<1>2. UNCHANGED <<published, config, request>>
  BY DEF Obtain
<1> SUFFICES ASSUME NEW q \in Process, config[q].dir = Undirected, NEW k \in DOMAIN got'[q]
             PROVE  WasPublished(config[q].instance, request[q][k], got'[q][k])
  BY <1>2 DEF ServedWasPublished, WasPublished
<1>3. CASE q # p
  BY <1>3 DEF Obtain, IInv, TypeInv, TypeOK, ServedWasPublished
<1>4. CASE q = p /\ k \in DOMAIN got[p]
  BY <1>1, <1>4 DEF IInv, ServedWasPublished
<1>5. CASE q = p /\ k = Len(got[p]) + 1
  BY <1>1, <1>5 DEF Wanted
<1> QED
  BY <1>1, <1>3, <1>4, <1>5

\* An online session obtains what it pins.
LEMMA ObtainPinned ==
  ASSUME IInv, NEW p \in Process, pc[p] \in {"find", "download"}, Pinned(p) \in Bytes,
         Obtain(p, Pinned(p))
  PROVE  OneGeneration'
<1>1. got[p] \in Seq(Bytes) /\ got'[p] = Append(got[p], Pinned(p))
  BY DEF Obtain, IInv, TypeInv, TypeOK
<1>2. UNCHANGED <<published, config, request, generation>>
  BY DEF Obtain
<1>3. generation[p] \in 1 .. published[config[p].instance] /\ ~config[p].offline
  BY DEF IInv, Session, SessionOf
<1> SUFFICES ASSUME NEW q \in Process, ~config[q].offline, got'[q] # <<>>
             PROVE  /\ generation[q] \in 1 .. published[config[q].instance]
                    /\ \A k \in DOMAIN got'[q] :
                         got'[q][k] = Content[config[q].instance][request[q][k]][generation[q]]
  BY <1>2 DEF OneGeneration
<1>4. CASE q # p
  <2>1. got'[q] = got[q]
    <3>1. got' = [got EXCEPT ![p] = got'[p]]
      BY <1>1 DEF Obtain
    <3>2. got \in [Process -> Seq(Bytes)]
      BY DEF IInv, TypeInv, TypeOK
    <3> QED
      BY <1>4, <3>1, <3>2
  <2>2. OneGeneration
    BY DEF IInv
  <2> QED
    BY <2>1, <2>2 DEF OneGeneration
<1>5. CASE q = p
  <2>1. ASSUME NEW k \in DOMAIN got[p]
        PROVE  got'[p][k] = Content[config[p].instance][request[p][k]][generation[p]]
    <3>1. got'[p][k] = got[p][k] /\ got[p] # <<>>
      BY <1>1, <2>1
    <3> QED
      BY <1>3, <3>1 DEF IInv, OneGeneration
  <2>2. got'[p][Len(got[p]) + 1] = Content[config[p].instance][request[p][Len(got[p]) + 1]][generation[p]]
    <3>1. got'[p][Len(got[p]) + 1] = Pinned(p)
      BY <1>1
    <3> QED
      BY ONLY <3>1 DEF Pinned, Wanted
  <2>3. DOMAIN got'[p] = DOMAIN got[p] \cup {Len(got[p]) + 1}
    BY <1>1
  <2> QED
    BY ONLY <1>3, <1>5, <2>1, <2>2, <2>3
<1> QED
  BY <1>4, <1>5

\* Stored is what the session pins, in a directory that may hold it.
LEMMA StoredPublished ==
  ASSUME IInv, NEW p \in Process, pc[p] \in {"find", "download"}, Pinned(p) \in Bytes,
         CachePut(p, Pinned(p)), UNCHANGED published
  PROVE  FilesPublished'
<1> DEFINE d == CacheDir(config[p])
<1>1. /\ pc[p] \in Running /\ TypeInv
      /\ files \in [Dir -> [TargetFiles -> Bytes \cup {NoFile}]]
  BY DEF IInv, TypeInv, TypeOK, Running
<1>2. d \in Dir /\ config[p] \in Config /\ Wanted(p) \in Target
  BY <1>1, WantedType
<1>3. CASE UNCHANGED files
  BY <1>3 DEF IInv, FilesPublished, WasPublished
<1>4. CASE files' = [files EXCEPT ![d][TargetFile(Wanted(p))] = Pinned(p)]
  <2> SUFFICES ASSUME NEW i \in Instance, NEW t \in Target, files'[i][TargetFile(t)] # NoFile
               PROVE  WasPublished(i, t, files'[i][TargetFile(t)])
    BY DEF FilesPublished, WasPublished
  <2>1. i \in Dir /\ TargetFile(t) \in TargetFiles
    BY DEF Dir, TargetFiles
  <2>2. CASE i = d /\ t = Wanted(p)
    <3>1. files'[i][TargetFile(t)] = Pinned(p)
      BY <1>1, <1>4, <2>1, <2>2
    <3>2. CacheDir(config[p]) = i
      BY <2>2
    <3>3. i = config[p].instance
      BY <1>2, <3>2, OwnDirectory
    <3> QED
      BY <2>2, <3>1, <3>3, PinnedPublished
  <2>3. CASE i # d \/ t # Wanted(p)
    <3>1. TargetFile(t) = TargetFile(Wanted(p)) => t = Wanted(p)
      BY DEF TargetFile
    <3>2. files'[i][TargetFile(t)] = files[i][TargetFile(t)]
      BY <1>1, <1>4, <2>1, <2>3, <3>1
    <3> QED
      BY <3>2 DEF IInv, FilesPublished
  <2> QED
    BY <2>2, <2>3
<1> QED
  BY <1>3, <1>4 DEF CachePut

-----------------------------------------------------------------------------
(* The invariant is kept by every step.                                    *)

\* The sessions of the processes that do not move stay what they are.
LEMMA SessionKept ==
  ASSUME IInv, [Next]_vars, NEW p \in Process,
         \A q \in Process \ {p} : /\ pc'[q] = pc[q] /\ config'[q] = config[q]
                                  /\ got'[q] = got[q] /\ generation'[q] = generation[q],
         SessionOf(p)'
  PROVE  Session'
<1> SUFFICES ASSUME NEW q \in Process, q # p PROVE SessionOf(q)'
  BY DEF Session
<1>1. config[q].instance \in Instance
  BY DEF IInv, TypeInv, TypeOK, Config
<1>2. SessionOf(q)
  BY DEF IInv, Session
<1>3. published'[config[q].instance] >= published[config[q].instance]
      /\ published'[config[q].instance] \in Nat /\ published[config[q].instance] \in Nat
  BY <1>1, PublishedGrows DEF IInv
<1> QED
  BY <1>2, <1>3 DEF SessionOf

\* Files that are not written stay published.
LEMMA FilesKept ==
  ASSUME IInv, [Next]_vars, UNCHANGED files
  PROVE  FilesPublished'
<1> SUFFICES ASSUME NEW i \in Instance, NEW t \in Target, files[i][TargetFile(t)] # NoFile
             PROVE  WasPublished(i, t, files[i][TargetFile(t)])'
  BY DEF FilesPublished
<1>1. WasPublished(i, t, files[i][TargetFile(t)])
  BY DEF IInv, FilesPublished
<1>2. PICK g \in 1 .. published[i] : files[i][TargetFile(t)] = Content[i][t][g]
  BY <1>1 DEF WasPublished
<1>3. g \in 1 .. published'[i]
  BY PublishedGrows DEF IInv
<1> QED
  BY <1>2, <1>3 DEF WasPublished

\* So do the programs that are not replaced.
LEMMA BinaryKept ==
  ASSUME IInv, [Next]_vars, UNCHANGED binary
  PROVE  BinaryPublished'
<1> SUFFICES ASSUME NEW p \in Process, NEW i \in Instance
             PROVE  binary[p][i] <= published'[i]
  BY DEF BinaryPublished
<1>1. binary[p][i] \in Nat /\ binary[p][i] <= published[i]
  BY ClientAssumption DEF IInv, BinaryPublished, TypeInv, TypeOK, Generation
<1>2. published'[i] >= published[i] /\ published'[i] \in Nat /\ published[i] \in Nat
  BY PublishedGrows DEF IInv
<1> QED
  BY <1>1, <1>2

\* The initial state satisfies the invariant: nothing was obtained or stored.
LEMMA InitIInv == Init => IInv
<1> SUFFICES ASSUME Init PROVE IInv
  OBVIOUS
<1>1. TypeInv
  BY InitTypeInv
<1>2. Session /\ OneGeneration /\ ServedWasPublished
  BY DEF Init, Session, SessionOf, OneGeneration, ServedWasPublished
<1>3. FilesPublished
  BY DEF Init, FilesPublished, Dir, TargetFiles
<1>4. BinaryPublished
  BY DEF Init, BinaryPublished
<1> QED
  BY <1>1, <1>2, <1>3, <1>4 DEF IInv

\* A failure changes nothing but the stage.
LEMMA FailInv ==
  ASSUME IInv, [Next]_vars, NEW p \in Process, pc[p] \in Running, Fail(p)
  PROVE  IInv'
<1>1. TypeInv'
  BY NextTypeInv DEF IInv
<1>2. Session'
  BY SessionKept DEF Fail, Goto, call, SessionOf, IInv, TypeInv, TypeOK
<1>3. OneGeneration' /\ ServedWasPublished'
  BY QuietInv DEF Fail, call
<1>4. FilesPublished' /\ BinaryPublished'
  BY FilesKept, BinaryKept DEF Fail
<1> QED
  BY <1>1, <1>2, <1>3, <1>4 DEF IInv

\* A published target obtained online: the call goes on in the same session.
LEMMA OnlineInv ==
  ASSUME IInv, [Next]_vars, NEW p \in Process, pc[p] \in {"find", "download"},
         Pinned(p) \in Bytes, Obtain(p, Pinned(p)), Proceed(p, "find"),
         FilesPublished'
  PROVE  IInv'
<1>1. TypeInv' /\ pc[p] \in Running
  BY NextTypeInv DEF IInv, Running
<1>2. SessionOf(p)'
  BY DEF IInv, Session, SessionOf, Obtain, Proceed, Goto, TypeInv, TypeOK
<1>3. Session'
  BY <1>2, SessionKept DEF Obtain, Proceed, Goto, IInv, TypeInv, TypeOK
<1>4. OneGeneration'
  BY ObtainPinned
<1>5. ServedWasPublished'
  BY <1>1, ObtainServed, PinnedPublished
<1>6. BinaryPublished'
  BY BinaryKept DEF Obtain
<1> QED
  BY <1>1, <1>3, <1>4, <1>5, <1>6 DEF IInv

\* A target obtained offline.
LEMMA OfflineInv ==
  ASSUME IInv, [Next]_vars, NEW p \in Process, pc[p] = "offline",
         NEW bytes \in Bytes, Obtain(p, bytes), Proceed(p, "offline"), UNCHANGED files,
         config[p].dir = Undirected => WasPublished(config[p].instance, Wanted(p), bytes)
  PROVE  IInv'
<1>1. TypeInv' /\ pc[p] \in Running
  BY NextTypeInv DEF IInv, Running
<1>2. SessionOf(p)'
  BY DEF IInv, Session, SessionOf, Obtain, Proceed, Goto, TypeInv, TypeOK
<1>3. Session'
  BY <1>2, SessionKept DEF Obtain, Proceed, Goto, IInv, TypeInv, TypeOK
<1>4. config[p].offline
  BY DEF IInv, Session, SessionOf
<1>5. OneGeneration'
  BY <1>4 DEF IInv, OneGeneration, Obtain, TypeInv, TypeOK
<1>6. ServedWasPublished'
  BY <1>1, ObtainServed
<1>7. FilesPublished' /\ BinaryPublished'
  BY FilesKept, BinaryKept DEF Obtain
<1> QED
  BY <1>1, <1>3, <1>5, <1>6, <1>7 DEF IInv

\* A publication: everything that was published still is.
LEMMA PublishInv ==
  ASSUME IInv, [Next]_vars, NEW j \in Instance, Publish(j)
  PROVE  IInv'
<1>1. TypeInv'
  BY NextTypeInv DEF IInv
<1>2. ASSUME NEW p \in Process
      PROVE  /\ config[p].instance \in Instance
             /\ published'[config[p].instance] >= published[config[p].instance]
             /\ published'[config[p].instance] \in Nat /\ published[config[p].instance] \in Nat
  <2>1. config[p].instance \in Instance
    BY DEF IInv, TypeInv, TypeOK, Config
  <2> QED
    BY <2>1, PublishedGrows DEF IInv
<1>3. Session'
  BY <1>2 DEF IInv, Session, SessionOf, Publish, call
<1>4. OneGeneration'
  BY <1>2 DEF IInv, OneGeneration, Publish, call
<1>5. ServedWasPublished'
  <2> SUFFICES ASSUME NEW p \in Process, config[p].dir = Undirected, NEW k \in DOMAIN got[p]
               PROVE  WasPublished(config[p].instance, request[p][k], got[p][k])'
    BY DEF Publish, call, ServedWasPublished
  <2>1. PICK g \in 1 .. published[config[p].instance] :
          got[p][k] = Content[config[p].instance][request[p][k]][g]
    BY DEF IInv, ServedWasPublished, WasPublished
  <2>2. g \in 1 .. published'[config[p].instance]
    BY <1>2
  <2> QED
    BY <2>1, <2>2 DEF WasPublished, Publish, call
<1>6. FilesPublished' /\ BinaryPublished'
  BY FilesKept, BinaryKept DEF Publish
<1> QED
  BY <1>1, <1>3, <1>4, <1>5, <1>6 DEF IInv

\* A call that starts, or a process that starts again, has nothing yet.
LEMMA FreshInv ==
  ASSUME IInv, [Next]_vars, NEW p \in Process, Start(p) \/ Restart(p)
  PROVE  IInv'
<1>1. TypeInv'
  BY NextTypeInv DEF IInv
<1>2. /\ UNCHANGED <<published, files>> /\ got' = [got EXCEPT ![p] = <<>>]
      /\ \A q \in Process \ {p} : /\ pc'[q] = pc[q] /\ config'[q] = config[q]
                                  /\ request'[q] = request[q]
                                  /\ got'[q] = got[q] /\ generation'[q] = generation[q]
  BY DEF Start, Restart, Goto, IInv, TypeInv, TypeOK
<1>3. SessionOf(p)'
  <2>1. CASE Start(p)
    BY <2>1 DEF Start, Goto, SessionOf, IInv, TypeInv, TypeOK
  <2>2. CASE Restart(p)
    BY <2>2 DEF Restart, Goto, SessionOf, IInv, TypeInv, TypeOK
  <2> QED
    BY <2>1, <2>2
<1>4. Session'
  BY <1>2, <1>3, SessionKept
<1>5. got'[p] = <<>>
  BY <1>2 DEF IInv, TypeInv, TypeOK
<1>6. OneGeneration'
  BY <1>2, <1>5 DEF IInv, OneGeneration
<1>7. ServedWasPublished'
  BY <1>2, <1>5 DEF IInv, ServedWasPublished, WasPublished
<1>8. FilesPublished'
  BY <1>2, FilesKept
<1>9. BinaryPublished'
  <2>1. CASE Start(p)
    BY <2>1, BinaryKept DEF Start
  <2>2. CASE Restart(p)
    BY <2>2 DEF Restart, IInv, BinaryPublished, TypeInv, TypeOK
  <2> QED
    BY <2>1, <2>2
<1> QED
  BY <1>1, <1>4, <1>6, <1>7, <1>8, <1>9 DEF IInv

\* The steps of a running call.
LEMMA StepInv ==
  ASSUME IInv, [Next]_vars, NEW p \in Process, Local(p) \/ Network(p) \/ TimedOut(p)
  PROVE  IInv'
<1>1. CASE Connect(p)
  <2>1. got[p] = <<>>
    BY <1>1 DEF Connect, IInv, Session, SessionOf
  <2>2. TypeInv'
    BY NextTypeInv DEF IInv
  <2>3. SessionOf(p)'
    BY <1>1 DEF Connect, Goto, IInv, Session, SessionOf, TypeInv, TypeOK
  <2>4. Session'
    BY <1>1, <2>3, SessionKept DEF Connect, Goto, IInv, TypeInv, TypeOK
  <2>5. OneGeneration' /\ ServedWasPublished'
    BY <1>1, <2>1, QuietInv DEF Connect, IInv, TypeInv, TypeOK
  <2>6. FilesPublished' /\ BinaryPublished'
    BY <1>1, FilesKept, BinaryKept DEF Connect
  <2> QED
    BY <2>2, <2>4, <2>5, <2>6 DEF IInv
<1>2. CASE ConnectFails(p)
  BY <1>2, FailInv DEF ConnectFails, Running
<1>3. CASE FoundCached(p)
  <2>1. pc[p] \in {"find", "download"} /\ pc[p] \in Running /\ CachedFile(p) = Pinned(p)
    BY <1>3 DEF FoundCached, Verified, Running
  <2>2. Pinned(p) \in Bytes
    BY <1>3, <2>1, CachedFileType DEF FoundCached, HasCopy, IInv
  <2>3. Obtain(p, Pinned(p)) /\ Proceed(p, "find") /\ FilesPublished'
    BY <1>3, <2>1, FilesKept DEF FoundCached
  <2> QED
    BY <2>1, <2>2, <2>3, OnlineInv
<1>4. CASE NotCached(p)
  <2>1. TypeInv'
    BY NextTypeInv DEF IInv
  <2>2. SessionOf(p)'
    BY <1>4 DEF NotCached, Goto, call, IInv, Session, SessionOf, TypeInv, TypeOK
  <2>3. Session'
    BY <1>4, <2>2, SessionKept DEF NotCached, Goto, call, IInv, TypeInv, TypeOK
  <2>4. OneGeneration' /\ ServedWasPublished'
    BY <1>4, QuietInv DEF NotCached, call
  <2>5. FilesPublished' /\ BinaryPublished'
    BY <1>4, FilesKept, BinaryKept DEF NotCached
  <2> QED
    BY <2>1, <2>3, <2>4, <2>5 DEF IInv
<1>5. CASE OfflineCached(p)
  <2>1. pc[p] = "offline" /\ pc[p] \in Running
    BY <1>5 DEF OfflineCached, Running
  <2>2. CachedFile(p) \in Bytes /\ CachedFile(p) # NoFile
    BY <1>5, <2>1, CachedFileType DEF OfflineCached, HasCopy, IInv
  <2>3. ASSUME config[p].dir = Undirected
        PROVE  WasPublished(config[p].instance, Wanted(p), CachedFile(p))
    <3>1. CacheDir(config[p]) = config[p].instance
      BY <2>3 DEF CacheDir
    <3>2. Wanted(p) \in Target /\ config[p].instance \in Instance
      BY <2>1, WantedType DEF IInv
    <3> QED
      BY <2>2, <3>1, <3>2 DEF CachedFile, IInv, FilesPublished
  <2>4. Obtain(p, CachedFile(p)) /\ Proceed(p, "offline") /\ UNCHANGED files
    BY <1>5 DEF OfflineCached
  <2> QED
    BY <2>1, <2>2, <2>3, <2>4, OfflineInv
<1>6. CASE OfflineEmbedded(p)
  <2> DEFINE i == config[p].instance
             bytes == Content[i][Wanted(p)][binary[p][i]]
  <2>1. pc[p] = "offline" /\ pc[p] \in Running
    BY <1>6 DEF OfflineEmbedded, Running
  <2>2. Wanted(p) \in Target /\ i \in Instance
    BY <2>1, WantedType DEF IInv
  <2>3. binary[p][i] \in Generation /\ binary[p][i] <= published[i] /\ published[i] \in Generation
    BY <2>2 DEF IInv, BinaryPublished, TypeInv, TypeOK
  <2>4. binary[p][i] \in 1 .. published[i]
    BY <2>3, ClientAssumption DEF Generation
  <2>5. bytes \in Bytes
    BY <2>2, <2>3, ContentType
  <2>6. WasPublished(i, Wanted(p), bytes)
    BY <2>4 DEF WasPublished
  <2>7. Obtain(p, bytes) /\ Proceed(p, "offline") /\ UNCHANGED files
    BY <1>6 DEF OfflineEmbedded
  <2> HIDE DEF bytes
  <2> QED
    BY <2>1, <2>5, <2>6, <2>7, OfflineInv
<1>7. CASE OfflineMissing(p)
  BY <1>7, FailInv DEF OfflineMissing, Running
<1>8. CASE Refreshed(p)
  <2>1. TypeInv'
    BY NextTypeInv DEF IInv
  <2>2. got[p] = <<>> /\ ~config[p].offline
    BY <1>8 DEF Refreshed, IInv, Session, SessionOf
  <2>3. SessionOf(p)'
    BY <1>8, <2>2 DEF Refreshed, Goto, SessionOf, IInv, TypeInv, TypeOK
  <2>4. Session'
    BY <1>8, <2>3, SessionKept DEF Refreshed, Goto, IInv, TypeInv, TypeOK
  <2>5. OneGeneration' /\ ServedWasPublished'
    BY <1>8, <2>2, QuietInv DEF Refreshed, IInv, TypeInv, TypeOK
  <2>6. FilesPublished' /\ BinaryPublished'
    BY <1>8, FilesKept, BinaryKept DEF Refreshed
  <2> QED
    BY <2>1, <2>4, <2>5, <2>6 DEF IInv
<1>9. CASE Answered(p)
  <2>1. pc[p] \in {"find", "download"} /\ pc[p] \in Running
    BY <1>9 DEF Answered, Running
  <2>2. CASE Fail(p)
    BY <2>1, <2>2, FailInv
  <2>3. ASSUME NEW reply \in Bytes, Verified(reply, Pinned(p)), CachePut(p, reply),
               Obtain(p, reply), Proceed(p, "find")
        PROVE  IInv'
    <3>1. reply = Pinned(p)
      BY <2>3 DEF Verified
    <3>2. FilesPublished'
      BY <2>1, <2>3, <3>1, StoredPublished DEF Obtain
    <3> QED
      BY <2>1, <2>3, <3>1, <3>2, OnlineInv
  <2> QED
    BY <1>9, <2>2, <2>3 DEF Answered
<1>10. CASE TimedOut(p)
  BY <1>10, FailInv DEF TimedOut, Running
<1> QED
  BY <1>1, <1>2, <1>3, <1>4, <1>5, <1>6, <1>7, <1>8, <1>9, <1>10 DEF Local, Network

\* The invariant is inductive.
LEMMA NextIInv == IInv /\ [Next]_vars => IInv'
<1> SUFFICES ASSUME IInv, [Next]_vars PROVE IInv'
  OBVIOUS
<1>1. CASE UNCHANGED vars
  <2>1. TypeInv'
    BY NextTypeInv DEF IInv
  <2> QED
    BY <1>1, <2>1 DEF vars, IInv, Session, SessionOf, OneGeneration, FilesPublished,
                      BinaryPublished, ServedWasPublished, WasPublished
<1>2. CASE Next
  BY <1>2, PublishInv, FreshInv, StepInv DEF Next
<1> QED
  BY <1>1, <1>2

\* An online call returns targets of one generation only, whatever other
\* processes do to the cache while it runs (tuf.rs fetch_targets).
THEOREM OneGenerationHolds == Spec => []OneGeneration
<1>1. IInv => OneGeneration
  BY DEF IInv
<1> QED
  BY <1>1, InitIInv, NextIInv, PTL DEF Spec

\* An instance with its own directory serves only what it published, offline
\* and unverified as well (tuf.rs fetch_target_offline, get_cache_dir).
THEOREM ServedWasPublishedHolds == Spec => []ServedWasPublished
<1>1. IInv => ServedWasPublished
  BY DEF IInv
<1> QED
  BY <1>1, InitIInv, NextIInv, PTL DEF Spec

-----------------------------------------------------------------------------
(* What was kept is there.                                                  *)

KeptIsThere == \A k \in kept : files[k[1]][TargetFile(k[2])] # NoFile

KeptInv == TypeInv /\ KeptIsThere

\* Files are only ever replaced.
LEMMA CachePutKeeps ==
  ASSUME KeptInv, NEW p \in Process, pc[p] \in Running, NEW bytes \in Bytes, CachePut(p, bytes)
  PROVE  KeptIsThere'
<1> DEFINE d == CacheDir(config[p])
           f == TargetFile(Wanted(p))
<1>1. d \in Dir /\ f \in TargetFiles /\ bytes # NoFile /\ Wanted(p) \in Target
  BY WantedType, ClientAssumption DEF KeptInv, TargetFiles
<1>2. CASE UNCHANGED <<files, kept>>
  BY <1>2 DEF KeptInv, KeptIsThere
<1>3. CASE files' = [files EXCEPT ![d][f] = bytes] /\ kept' = kept \cup {<<d, Wanted(p)>>}
  <2>1. /\ files \in [Dir -> [TargetFiles -> Bytes \cup {NoFile}]]
        /\ \A k \in kept : k[1] \in Dir /\ TargetFile(k[2]) \in TargetFiles
    BY DEF KeptInv, TypeInv, TypeOK, TargetFiles
  <2> HIDE DEF d, f
  <2>2. files'[d][f] = bytes
    BY <1>1, <1>3, <2>1
  <2>3. \A e \in Dir, g \in TargetFiles : files'[e][g] = files[e][g] \/ files'[e][g] = bytes
    BY <1>1, <1>3, <2>1
  <2>4. \A k \in kept : files'[k[1]][TargetFile(k[2])] # NoFile
    BY <1>1, <2>1, <2>3 DEF KeptInv, KeptIsThere
  <2>5. QED
    BY <1>1, <1>3, <2>2, <2>4 DEF KeptIsThere, d, f
<1> QED
  BY <1>2, <1>3 DEF CachePut

LEMMA NextKept == KeptInv /\ [Next]_vars => KeptInv'
<1> SUFFICES ASSUME KeptInv, [Next]_vars PROVE KeptInv'
  OBVIOUS
<1>1. TypeInv'
  BY NextTypeInv DEF KeptInv
<1>2. CASE UNCHANGED <<files, kept>>
  BY <1>1, <1>2 DEF KeptInv, KeptIsThere
<1>3. ASSUME NEW p \in Process, Answered(p), ~UNCHANGED <<files, kept>>
      PROVE  KeptIsThere'
  <2>1. pc[p] \in Running /\ \E reply \in Bytes : CachePut(p, reply)
    BY <1>3 DEF Answered, Fail, Running
  <2>2. QED
    BY <2>1, CachePutKeeps
<1>4. (\E p \in Process : Answered(p)) \/ UNCHANGED <<files, kept>>
  <2>1. CASE UNCHANGED vars \/ \E i \in Instance : Publish(i)
    BY <2>1 DEF vars, Publish
  <2>2. ASSUME NEW p \in Process, Start(p) \/ Restart(p) \/ TimedOut(p) \/ Refreshed(p)
        PROVE  UNCHANGED <<files, kept>>
    BY <2>2 DEF Start, Restart, TimedOut, Refreshed, Fail
  <2>3. ASSUME NEW p \in Process, Local(p)
        PROVE  UNCHANGED <<files, kept>>
    BY <2>3 DEF Local, Connect, ConnectFails, FoundCached, NotCached, OfflineCached,
                OfflineEmbedded, OfflineMissing, Fail
  <2>4. QED
    BY <2>1, <2>2, <2>3 DEF Next, Network
<1> QED
  BY <1>1, <1>2, <1>3, <1>4 DEF KeptInv

\* "verified metadata and downloaded targets are written through [...] so a later
\* `offline()` run can serve them" (tuf.rs build_updater): an offline call never
\* fails on a target that an online one stored, whoever it was and however many
\* programs crashed or were upgraded in between.
THEOREM OfflineServesKeptHolds == Spec => OfflineServesKept
<1>1. Init => KeptInv
  BY InitTypeInv DEF Init, KeptInv, KeptIsThere
<1>2. ASSUME KeptInv, Next, NEW p \in Process, pc[p] = "offline", pc'[p] = "failed",
             config[p].cache
      PROVE  <<CacheDir(config[p]), Wanted(p)>> \notin kept
  <2>1. OfflineMissing(p)
    <3>1. ASSUME NEW q \in Process, Start(q) \/ Restart(q) \/ Local(q) \/ Network(q) \/ TimedOut(q)
          PROVE  OfflineMissing(p)
      <4>1. pc \in [Process -> Running \cup {"idle", "done", "failed"}]
        BY <1>2 DEF KeptInv, TypeInv, TypeOK
      <4>2. q = p
        BY <1>2, <3>1, <4>1 DEF Start, Restart, Local, Network, TimedOut, Fail, Connect,
           ConnectFails, FoundCached, NotCached, OfflineCached, OfflineEmbedded, OfflineMissing,
           Refreshed, Answered, Proceed, Goto
      <4>3. ~(Start(p) \/ Restart(p) \/ Network(p) \/ TimedOut(p))
        BY <1>2, <4>1 DEF Start, Restart, Network, TimedOut, Refreshed, Answered, Goto
      <4>4. ~(Connect(p) \/ ConnectFails(p) \/ FoundCached(p) \/ NotCached(p))
        BY <1>2 DEF Connect, ConnectFails, FoundCached, NotCached
      <4>5. ~(OfflineCached(p) \/ OfflineEmbedded(p))
        BY <1>2, <4>1 DEF OfflineCached, OfflineEmbedded, Proceed, Goto
      <4>6. QED
        BY <3>1, <4>2, <4>3, <4>4, <4>5 DEF Local
    <3>2. ~\E i \in Instance : Publish(i)
      BY <1>2 DEF Publish
    <3>3. QED
      BY <1>2, <3>1, <3>2 DEF Next
  <2>2. ~HasCopy(p)
    BY <2>1 DEF OfflineMissing
  <2>3. CachedFile(p) = NoFile
    BY <1>2, <2>2 DEF HasCopy
  <2>4. QED
    BY <1>2, <2>3 DEF KeptInv, KeptIsThere, CachedFile
<1>3. KeptInv /\ [Next]_vars =>
        [\A p \in Process :
           pc[p] = "offline" /\ pc'[p] = "failed" /\ config[p].cache =>
             <<CacheDir(config[p]), Wanted(p)>> \notin kept]_vars
  BY <1>2
<1> QED
  BY <1>1, <1>3, NextKept, PTL DEF Spec, OfflineServesKept
==============================================================================
