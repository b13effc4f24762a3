------------------------ MODULE ReadThroughCache_proofs ------------------------
(***************************************************************************)
(* Proofs about ReadThroughCache, for any number of tasks and of values and *)
(* any time to live: the state is well formed, and what a get would return  *)
(* is fresh and whole.                                                      *)
(*                                                                         *)
(* Age and remaining lifetime of what is cached add up to at most TTL.  In  *)
(* memory this holds already of what is about to be inserted, so that a     *)
(* late insert does no harm.  On disk it need only hold when no task is     *)
(* between its two files: the task that writes the data last makes it hold  *)
(* with whatever metadata it meets, and a task that leaves the files        *)
(* otherwise is a set that was cut short.                                   *)
(***************************************************************************)
EXTENDS ReadThroughCache, TLAPS

MemoryAges ==
  /\ entry # Absent /\ entry.left > 0 => age[entry.value] + entry.left <= TTL
  /\ \A t \in Task : pc[t] = "insert" /\ left[t] > 0 => age[value[t]] + left[t] <= TTL

DiskAges ==
  Quiet /\ ~cut =>
    /\ data # Torn
    /\ meta \in Left /\ meta > 0 /\ data # Absent => age[data] + meta <= TTL

IInv == TypeOK /\ MemoryAges /\ DiskAges

\* Where a task neither is between the two files nor has an entry to insert.
Elsewhere == Control \ (Touching \cup {"insert"})

\* What all steps have in common that add nothing to the cache: a task goes
\* elsewhere, and entries and files go or stay.  If it was between the two files
\* then a set was cut short.
Leaves(t) ==
  /\ \A s \in Task \ {t} : pc'[s] = pc[s] /\ value'[s] = value[s] /\ left'[s] = left[s]
  /\ pc'[t] \in Elsewhere
  /\ pc[t] \in Touching \/ cut => cut'
  /\ cut' \in BOOLEAN
  /\ age' = age
  /\ entry' \in {entry, Absent} /\ meta' \in {meta, Absent} /\ data' \in {data, Absent}

-----------------------------------------------------------------------------
\* Where a call starts.
LEMMA Bounds == 1 \in Value /\ 0 \in Left /\ TTL \in Left /\ 0 \in 0 .. MaxCuts /\ "idle" \in Control
BY CacheAssumption DEF Value, Left, Control

LEMMA TypeInit == Init => TypeOK
BY Bounds DEF Init, TypeOK, Resource

\* The locals of a call are reset when it ends.
LEMMA ForgetType ==
  ASSUME TypeOK, NEW t \in Task, Forget(t)
  PROVE  /\ pc' \in [Task -> Control]
         /\ value' \in [Task -> Value] /\ left' \in [Task -> Left]
BY Bounds DEF TypeOK, Forget, Goto

LEMMA ReturnType ==
  ASSUME TypeOK, NEW t \in Task, NEW a \in Value \cup {Torn, Failed, NoAnswer}, Return(t, a)
  PROVE  /\ pc' \in [Task -> Control]
         /\ value' \in [Task -> Value] /\ left' \in [Task -> Left]
         /\ answer' \in [Task -> {NoAnswer, Failed, Torn} \cup Value]
BY ForgetType DEF TypeOK, Return

\* What the cache gave is returned, or fetched instead.
LEMMA ServeType ==
  ASSUME TypeOK, NEW t \in Task, NEW v, Serve(t, v)
  PROVE  /\ pc' \in [Task -> Control]
         /\ value' \in [Task -> Value] /\ left' \in [Task -> Left]
         /\ answer' \in [Task -> {NoAnswer, Failed, Torn} \cup Value]
<1>1. CASE Decodes(v)
  BY <1>1, ReturnType DEF Serve, Decodes
<1>2. CASE ~Decodes(v)
  BY <1>2 DEF Serve, Goto, TypeOK, Control
<1> QED
  BY <1>1, <1>2

LEMMA TypeMove ==
  ASSUME TypeOK, NEW t \in Task, NEW from, NEW to \in Control, Move(t, from, to)
  PROVE  TypeOK'
BY DEF TypeOK, Move, Goto, memory, files, history

LEMMA TypeUnlink ==
  ASSUME TypeOK, NEW t \in Task, NEW from, NEW file, NEW to \in Control,
         Unlink(t, from, file, to)
  PROVE  TypeOK'
BY DEF TypeOK, Unlink, Goto, memory, history

-----------------------------------------------------------------------------
LEMMA LeavesAges ==
  ASSUME IInv, TypeOK', NEW t \in Task, Leaves(t)
  PROVE  IInv'
<1>1. MemoryAges'
  BY DEF IInv, MemoryAges, Leaves, Elsewhere, TypeOK
<1>2. ASSUME Quiet', ~cut'
      PROVE  Quiet /\ ~cut
  BY <1>2 DEF Leaves, Quiet
<1>3. DiskAges'
  <2>1. SUFFICES ASSUME Quiet', ~cut'
                 PROVE  /\ data' # Torn
                        /\ meta' \in Left /\ meta' > 0 /\ data' # Absent =>
                             age'[data'] + meta' <= TTL
    BY DEF DiskAges
  <2>2. DiskAges /\ Quiet /\ ~cut
    BY <1>2, <2>1 DEF IInv
  <2>3. Absent # Torn /\ Absent \notin Left
    BY CacheAssumption DEF Left
  <2>4. QED
    BY <2>2, <2>3 DEF DiskAges, Leaves
<1> QED
  BY <1>1, <1>3 DEF IInv

\* A call that does not set is one that leaves.
LEMMA MoveAges ==
  ASSUME IInv, NEW t \in Task, NEW from \in Elsewhere, NEW to \in Elsewhere, Move(t, from, to)
  PROVE  IInv'
<1>1. TypeOK'
  BY TypeMove DEF IInv, Elsewhere
<1>2. Leaves(t)
  BY DEF IInv, TypeOK, Leaves, Move, Goto, Elsewhere, memory, files, history
<1> QED
  BY <1>1, <1>2, LeavesAges

LEMMA UnlinkAges ==
  ASSUME IInv, NEW t \in Task, NEW from \in Elsewhere, NEW file, NEW to \in Elsewhere,
         Unlink(t, from, file, to)
  PROVE  IInv'
<1>1. TypeOK'
  BY TypeUnlink DEF IInv, Elsewhere
<1>2. Leaves(t)
  BY DEF IInv, TypeOK, Leaves, Unlink, Goto, Elsewhere, memory, history
<1> QED
  BY <1>1, <1>2, LeavesAges

-----------------------------------------------------------------------------
(* The steps that add nothing to the cache.                                 *)

LEMMA PublishAges ==
  ASSUME IInv, Publish
  PROVE  IInv'
<1>1. TypeOK'
  BY CacheAssumption DEF IInv, TypeOK, Publish, Value, memory, files, task, history
<1>2. MemoryAges' /\ DiskAges'
  BY DEF IInv, MemoryAges, DiskAges, Quiet, Publish, memory, files, task, history
<1> QED
  BY <1>1, <1>2 DEF IInv

\* A call that is dropped between the two files is a set that was cut short.
LEMMA CutAges ==
  ASSUME IInv, NEW t \in Task, Cut(t)
  PROVE  IInv'
<1>1. TypeOK'
  BY ForgetType, CacheAssumption DEF IInv, TypeOK, Cut, memory, files
<1>2. Leaves(t)
  BY DEF IInv, TypeOK, Leaves, Cut, Forget, Goto, Elsewhere, Control, Touching, Writing,
         memory, files
<1> QED
  BY <1>1, <1>2, LeavesAges

LEMMA WriteFailsAges ==
  ASSUME IInv, NEW t \in Task, WriteFails(t)
  PROVE  IInv'
<1>1. TypeOK'
  <2>1. value[t] \in Value
    BY DEF IInv, TypeOK
  <2>2. QED
    BY <2>1, ReturnType, CacheAssumption DEF IInv, TypeOK, WriteFails, memory, files
<1>2. Leaves(t)
  BY DEF IInv, TypeOK, Leaves, WriteFails, Return, Forget, Goto, Elsewhere, Control, Touching,
         Writing, memory, files
<1> QED
  BY <1>1, <1>2, LeavesAges

\* A call ends from elsewhere, whatever becomes of the entry.
LEMMA ReturnAges ==
  ASSUME IInv, NEW t \in Task, NEW a \in Value \cup {Torn, Failed, NoAnswer}, Return(t, a),
         pc[t] \in Elsewhere,
         UNCHANGED <<adapter, resource, service, memory, files, history, cuts>>
  PROVE  IInv'
<1>1. TypeOK'
  BY ReturnType DEF IInv, TypeOK, memory, files, history
<1>2. Leaves(t)
  BY DEF IInv, TypeOK, Leaves, Return, Forget, Goto, Elsewhere, Control, Touching, Writing,
         memory, files, history
<1> QED
  BY <1>1, <1>2, LeavesAges

LEMMA ServeAges ==
  ASSUME IInv, NEW t \in Task, NEW v, Serve(t, v), pc[t] \in Elsewhere,
         UNCHANGED <<adapter, resource, service, memory, files, history, cuts>>
  PROVE  IInv'
<1>1. CASE Decodes(v)
  BY <1>1, ReturnAges DEF Serve, Decodes
<1>2. CASE ~Decodes(v)
  <2>1. TypeOK'
    BY <1>2, ServeType DEF IInv, TypeOK, memory, files, history
  <2>2. Leaves(t)
    BY <1>2 DEF IInv, TypeOK, Leaves, Serve, Goto, Elsewhere, Control, Touching, Writing,
                memory, files, history
  <2>3. QED
    BY <2>1, <2>2, LeavesAges
<1> QED
  BY <1>1, <1>2

\* What is fetched is neither in the cache yet nor about to be inserted.
LEMMA FetchAges ==
  ASSUME IInv, NEW t \in Task, Fetch(t) \/ FetchFails(t)
  PROVE  IInv'
<1>1. pc[t] \in Elsewhere /\ "set" \in Elsewhere
  BY DEF Fetch, FetchFails, Elsewhere, Control, Touching, Writing
<1>2. CASE Fetch(t)
  <2>1. TypeOK'
    BY <1>1, <1>2 DEF IInv, TypeOK, Fetch, Goto, Elsewhere, memory, files, history
  <2>2. Leaves(t)
    BY <1>1, <1>2 DEF IInv, TypeOK, Leaves, Fetch, Goto, Elsewhere, memory, files, history
  <2>3. QED
    BY <2>1, <2>2, LeavesAges
<1>3. CASE FetchFails(t)
  BY <1>1, <1>3, ReturnAges DEF FetchFails
<1> QED
  BY <1>2, <1>3

LEMMA ReadingAges ==
  ASSUME IInv, NEW t \in Task,
         \/ Call(t) \/ MemoryHit(t) \/ MemoryMiss(t) \/ MemoryExpired(t) \/ MemoryEvict(t)
         \/ ReadMeta(t) \/ ReadData(t)
  PROVE  IInv'
<1>1. {"idle", "get", "evict", "read data", "expired data", "fetch"} \subseteq Elsewhere
  BY DEF Elsewhere, Control, Touching, Writing
<1>2. CASE Call(t) \/ MemoryMiss(t) \/ MemoryExpired(t)
  BY <1>1, <1>2, MoveAges DEF Call, MemoryMiss, MemoryExpired
<1>3. CASE ReadMeta(t)
  BY <1>1, <1>3, MoveAges DEF ReadMeta
<1>4. CASE MemoryHit(t)
  BY <1>1, <1>4, ServeAges DEF MemoryHit
<1>5. CASE MemoryEvict(t)
  <2>1. TypeOK'
    BY <1>1, <1>5 DEF IInv, TypeOK, MemoryEvict, Goto, Elsewhere, files, history
  <2>2. Leaves(t)
    BY <1>1, <1>5 DEF IInv, TypeOK, Leaves, MemoryEvict, Goto, Elsewhere, files, history
  <2>3. QED
    BY <2>1, <2>2, LeavesAges
<1>6. CASE ReadData(t) /\ data # Absent
  BY <1>1, <1>6, ServeAges DEF ReadData
<1>7. CASE ReadData(t) /\ data = Absent
  <2>1. TypeOK'
    BY <1>1, <1>7 DEF IInv, TypeOK, ReadData, Goto, Elsewhere, memory, files, history
  <2>2. Leaves(t)
    BY <1>1, <1>7 DEF IInv, TypeOK, Leaves, ReadData, Goto, Elsewhere, memory, files, history
  <2>3. QED
    BY <2>1, <2>2, LeavesAges
<1> QED
  BY <1>2, <1>3, <1>4, <1>5, <1>6, <1>7

LEMMA RemovingAges ==
  ASSUME IInv, NEW t \in Task,
         MemoryRemove(t) \/ RemoveExpired(t) \/ Discard(t) \/ Remove(t) \/ Clear(t)
  PROVE  IInv'
<1>1. {"idle", "fetch", "expired data", "expired meta"} \cup Removing \subseteq Elsewhere
  BY DEF Elsewhere, Control, Touching, Writing, Removing
<1>2. CASE MemoryRemove(t)
  <2>1. TypeOK'
    BY <1>2 DEF IInv, TypeOK, MemoryRemove, files, task, history
  <2>2. Leaves(t)
    BY <1>1, <1>2 DEF IInv, TypeOK, Leaves, MemoryRemove, Elsewhere, Touching, Writing, files, task, history
  <2>3. QED
    BY <2>1, <2>2, LeavesAges
<1>3. CASE Discard(t)
  BY <1>1, <1>3, MoveAges DEF Discard, Removing
<1>4. CASE RemoveExpired(t)
  BY <1>1, <1>4, UnlinkAges DEF RemoveExpired
<1>5. CASE Remove(t)
  BY <1>1, <1>5, UnlinkAges DEF Remove, Removing
<1>6. CASE Clear(t)
  BY <1>1, <1>6, UnlinkAges DEF Clear, Removing
<1> QED
  BY <1>2, <1>3, <1>4, <1>5, <1>6

-----------------------------------------------------------------------------
(* Time, and the steps of a set.                                            *)

\* What loses a tick of its lifetime gets a tick older.
LEMMA TickAges ==
  ASSUME IInv, Tick
  PROVE  IInv'
<1>1. \A n \in Left : Older(n) \in Left /\ (Older(n) > 0 => n > 0 /\ Older(n) = n - 1)
  BY CacheAssumption DEF Left, Older
<1>2. \A v \in Value : age'[v] \in Left /\ (age[v] < TTL => age'[v] = age[v] + 1)
  BY CacheAssumption DEF IInv, TypeOK, Tick, Left
<1>3. TypeOK'
  <2>1. entry' \in {Absent} \cup [value : Value, left : Left]
    BY <1>1 DEF IInv, TypeOK, Tick
  <2>2. meta' \in {Absent, Torn} \cup Left /\ left' \in [Task -> Left]
    BY <1>1 DEF IInv, TypeOK, Tick
  <2>3. age' \in [Value -> Left]
    BY <1>2 DEF Tick
  <2>4. QED
    BY <2>1, <2>2, <2>3 DEF IInv, TypeOK, Tick
<1>4. MemoryAges'
  <2>1. entry' # Absent /\ entry'.left > 0 => age'[entry'.value] + entry'.left <= TTL
    <3>1. SUFFICES ASSUME entry' # Absent, entry'.left > 0
                   PROVE  age'[entry'.value] + entry'.left <= TTL
      OBVIOUS
    <3>2. /\ entry # Absent /\ entry \in [value : Value, left : Left]
          /\ entry'.value = entry.value /\ entry'.left = Older(entry.left)
      BY <3>1 DEF IInv, TypeOK, Tick
    <3>3. entry.left > 0 /\ entry'.left = entry.left - 1
      BY <1>1, <3>1, <3>2
    <3>4. age[entry.value] + entry.left <= TTL /\ age[entry.value] \in Left
      BY <3>2, <3>3 DEF IInv, MemoryAges, TypeOK
    <3>5. QED
      BY <1>2, <3>2, <3>3, <3>4, CacheAssumption DEF Left
  <2>2. ASSUME NEW t \in Task, pc'[t] = "insert", left'[t] > 0
        PROVE  age'[value'[t]] + left'[t] <= TTL
    <3>1. pc[t] = "insert" /\ value' = value /\ left'[t] = Older(left[t])
      BY <2>2 DEF Tick
    <3>2. left[t] \in Left /\ left[t] > 0 /\ left'[t] = left[t] - 1
      BY <1>1, <2>2, <3>1 DEF IInv, TypeOK
    <3>3. age[value[t]] + left[t] <= TTL /\ age[value[t]] \in Left /\ value[t] \in Value
      BY <3>1, <3>2 DEF IInv, MemoryAges, TypeOK
    <3>4. QED
      BY <1>2, <3>1, <3>2, <3>3, CacheAssumption DEF Left
  <2>3. QED
    BY <2>1, <2>2 DEF MemoryAges
<1>5. DiskAges'
  <2>1. SUFFICES ASSUME Quiet', ~cut'
                 PROVE  /\ data' # Torn
                        /\ meta' \in Left /\ meta' > 0 /\ data' # Absent =>
                             age'[data'] + meta' <= TTL
    BY DEF DiskAges
  <2>2. /\ data' = data /\ data # Torn
        /\ meta \in Left /\ meta > 0 /\ data # Absent => age[data] + meta <= TTL
    BY <2>1 DEF IInv, DiskAges, Quiet, Tick
  <2>3. SUFFICES ASSUME meta' \in Left, meta' > 0, data # Absent
                 PROVE  age'[data] + meta' <= TTL
    BY <2>2
  <2>4. meta \in Left /\ meta > 0 /\ meta' = meta - 1
    BY <1>1, <2>3 DEF Tick
  <2>5. data \in Value /\ age[data] \in Left
    BY <2>2, <2>3 DEF IInv, TypeOK
  <2>6. QED
    BY <1>2, <2>2, <2>3, <2>4, <2>5, CacheAssumption DEF Left
<1> QED
  BY <1>3, <1>4, <1>5 DEF IInv

\* A value that is given its lifetime is younger than before, and so fits what
\* has been cached of it.
LEMMA YoungerFits ==
  ASSUME TypeOK, NEW v \in Value, age' = age \/ age' = [age EXCEPT ![v] = 0]
  PROVE  /\ \A w \in Value : age'[w] \in Left /\ age[w] \in Left /\ age'[w] <= age[w]
         /\ \A w \in Value, n \in Left : age[w] + n <= TTL => age'[w] + n <= TTL
<1>1. ASSUME NEW w \in Value
      PROVE  age[w] \in Left /\ (age'[w] = age[w] \/ age'[w] = 0)
  BY DEF TypeOK
<1>2. \A w \in Value : age'[w] \in Left /\ age[w] \in Left /\ age'[w] <= age[w]
  BY <1>1, CacheAssumption DEF Left
<1> QED
  BY <1>2, CacheAssumption DEF Left

LEMMA YoungerEntry ==
  ASSUME TypeOK, MemoryAges, entry' = entry, NEW v \in Value,
         age' = age \/ age' = [age EXCEPT ![v] = 0]
  PROVE  entry' # Absent /\ entry'.left > 0 => age'[entry'.value] + entry'.left <= TTL
<1>1. entry # Absent => entry.value \in Value /\ entry.left \in Left
  BY DEF TypeOK
<1> QED
  BY <1>1, YoungerFits DEF MemoryAges

LEMMA YoungerInsert ==
  ASSUME TypeOK, MemoryAges, NEW v \in Value, age' = age \/ age' = [age EXCEPT ![v] = 0],
         NEW s \in Task, pc[s] = "insert", value'[s] = value[s], left'[s] = left[s], left'[s] > 0
  PROVE  age'[value'[s]] + left'[s] <= TTL
<1>1. value[s] \in Value /\ left[s] \in Left
  BY DEF TypeOK
<1> QED
  BY <1>1, YoungerFits DEF MemoryAges

\* The lifetime that is about to be inserted is that of a value just fetched.
LEMMA StartSetAges ==
  ASSUME IInv, NEW t \in Task, StartSet(t)
  PROVE  IInv'
<1>1. {"insert", "truncate meta"} \subseteq Control \ Touching /\ "set" \notin Touching
  BY DEF Control, Touching, Writing
<1>2. value[t] \in Value /\ (age' = age \/ age' = [age EXCEPT ![value[t]] = 0])
  BY DEF IInv, TypeOK, StartSet
<1>3. TypeOK'
  BY <1>1, Bounds DEF IInv, TypeOK, StartSet, Goto, memory, files
<1>4. MemoryAges'
  <2>1. entry' # Absent /\ entry'.left > 0 => age'[entry'.value] + entry'.left <= TTL
    BY <1>2, YoungerEntry DEF IInv, StartSet, memory
  <2>2. ASSUME NEW s \in Task \ {t}, pc'[s] = "insert", left'[s] > 0
        PROVE  age'[value'[s]] + left'[s] <= TTL
    <3>1. pc[s] = "insert" /\ value'[s] = value[s] /\ left'[s] = left[s]
      BY <2>2 DEF IInv, TypeOK, StartSet, Goto
    <3>2. QED
      BY <1>2, <2>2, <3>1, YoungerInsert DEF IInv
  <2>3. pc'[t] = "insert" => age'[value'[t]] + left'[t] <= TTL
    <3>1. pc'[t] = "insert" => age'[value[t]] = 0
      BY DEF IInv, TypeOK, StartSet, Goto
    <3>2. left'[t] = TTL /\ value' = value
      BY DEF IInv, TypeOK, StartSet
    <3>3. QED
      BY <3>1, <3>2, CacheAssumption
  <2>4. QED
    BY <2>1, <2>2, <2>3 DEF MemoryAges
<1>5. DiskAges'
  <2>1. Quiet' => Quiet
    BY <1>1 DEF IInv, TypeOK, Quiet, StartSet, Goto
  <2>2. UNCHANGED <<meta, data, cut>>
    BY DEF StartSet, files
  <2>3. data \in Value => age'[data] \in Left /\ age[data] \in Left /\ age'[data] <= age[data]
    BY <1>2, YoungerFits DEF IInv
  <2>4. QED
    BY <2>1, <2>2, <2>3, CacheAssumption DEF IInv, TypeOK, DiskAges, Left
<1> QED
  BY <1>3, <1>4, <1>5 DEF IInv

LEMMA MemoryInsertAges ==
  ASSUME IInv, NEW t \in Task, MemoryInsert(t)
  PROVE  IInv'
<1>1. value[t] \in Value /\ left[t] \in Left
  BY DEF IInv, TypeOK
<1>2. TypeOK'
  BY <1>1, ReturnType DEF IInv, TypeOK, MemoryInsert, files, history
<1>3. MemoryAges'
  BY <1>1 DEF IInv, TypeOK, MemoryAges, MemoryInsert, Return, Forget, Goto, history
<1>4. DiskAges'
  BY DEF IInv, TypeOK, DiskAges, Quiet, Touching, Writing, MemoryInsert, Return, Forget, Goto,
         files, history
<1> QED
  BY <1>2, <1>3, <1>4 DEF IInv

\* Metadata is written, or data truncated, by a task that is then between the two.
LEMMA WriteMetaAges ==
  ASSUME IInv, NEW t \in Task, WriteMeta(t) \/ TruncateData(t)
  PROVE  IInv'
<1>1. Touching \subseteq Control /\ "insert" \notin Touching
  BY DEF Control, Touching, Writing
<1>2. pc'[t] \in Touching /\ \A s \in Task \ {t} : pc'[s] = pc[s]
  BY DEF IInv, TypeOK, WriteMeta, TruncateData, Goto, Touching, Writing
<1>3. TypeOK'
  <2>1. pc' \in [Task -> Control]
    BY <1>1 DEF IInv, TypeOK, WriteMeta, TruncateData, Goto, Touching, Writing
  <2>2. meta' \in {Absent, Torn} \cup Left /\ data' \in {Absent, Torn} \cup Value
    BY DEF IInv, TypeOK, WriteMeta, TruncateData
  <2>3. UNCHANGED <<adapter, resource, service, memory, value, left, answer, history, cuts>>
    BY DEF WriteMeta, TruncateData
  <2>4. TypeOK
    BY DEF IInv
  <2> QED
    BY ONLY <2>1, <2>2, <2>3, <2>4 DEF TypeOK, memory, history
<1>4. MemoryAges'
  BY <1>1, <1>2 DEF IInv, MemoryAges, WriteMeta, TruncateData, memory, history
<1>5. ~Quiet'
  BY <1>2 DEF Quiet
<1> QED
  BY <1>3, <1>4, <1>5 DEF IInv, DiskAges

\* The last write of a set makes what it finds in the metadata right.
LEMMA WriteDataAges ==
  ASSUME IInv, NEW t \in Task, WriteData(t)
  PROVE  IInv'
<1>1. value[t] \in Value
  BY DEF IInv, TypeOK
<1>2. age' = [age EXCEPT ![value[t]] = 0]
  BY DEF WriteData
<1>3. TypeOK'
  BY <1>1, Bounds, ReturnType DEF IInv, TypeOK, WriteData, memory
<1>4. MemoryAges'
  <2>1. entry' # Absent /\ entry'.left > 0 => age'[entry'.value] + entry'.left <= TTL
    BY <1>1, <1>2, YoungerEntry DEF IInv, WriteData, memory
  <2>2. ASSUME NEW s \in Task, pc'[s] = "insert", left'[s] > 0
        PROVE  age'[value'[s]] + left'[s] <= TTL
    <3>1. s # t /\ pc[s] = "insert" /\ value'[s] = value[s] /\ left'[s] = left[s]
      BY <2>2 DEF IInv, TypeOK, WriteData, Return, Forget, Goto
    <3>2. QED
      BY <1>1, <1>2, <2>2, <3>1, YoungerInsert DEF IInv
  <2>3. QED
    BY <2>1, <2>2 DEF MemoryAges
<1>5. DiskAges'
  <2>1. data' = value[t] /\ age'[value[t]] = 0 /\ meta' = meta
    BY <1>1 DEF IInv, TypeOK, WriteData
  <2>2. meta \in Left => meta <= TTL
    BY CacheAssumption DEF Left
  <2>3. Torn \notin Value
    BY CacheAssumption DEF Value
  <2>4. QED
    BY <1>1, <2>1, <2>2, <2>3, CacheAssumption DEF DiskAges, Left
<1> QED
  BY <1>3, <1>4, <1>5 DEF IInv

-----------------------------------------------------------------------------
LEMMA IInvInit == Init => IInv
<1>1. Init => MemoryAges
  BY DEF Init, MemoryAges
<1>2. Init => DiskAges
  BY CacheAssumption DEF Init, DiskAges
<1> QED
  BY <1>1, <1>2, TypeInit DEF IInv

LEMMA IInvNext == IInv /\ [Next]_vars => IInv'
<1>1. ASSUME IInv, UNCHANGED vars
      PROVE  IInv'
  <2>1. TypeOK'
    BY <1>1 DEF IInv, TypeOK, vars
  <2>2. MemoryAges' /\ DiskAges'
    BY <1>1 DEF IInv, MemoryAges, DiskAges, Quiet, vars
  <2>3. QED
    BY <2>1, <2>2 DEF IInv
<1>2. ASSUME IInv, NEW t \in Task, Client(t)
      PROVE  IInv'
  BY <1>2, FetchAges, StartSetAges, ReadingAges, RemovingAges, MemoryInsertAges,
     WriteMetaAges, WriteDataAges DEF Client, InMemoryCache, FileSystemCache
<1>3. ASSUME IInv, Next
      PROVE  IInv'
  BY <1>2, <1>3, TickAges, PublishAges, CutAges, WriteFailsAges, ReadingAges, RemovingAges
     DEF Next
<1> QED
  BY <1>1, <1>3

\* Every state of the caches and of the calls over them is well formed.
THEOREM TypeCorrect == Spec => []TypeOK
<1>1. IInv => TypeOK
  BY DEF IInv
<1> QED
  BY <1>1, IInvInit, IInvNext, PTL DEF Spec

\* What get would return was set less than TTL ago and is whole, whatever tasks
\* do side by side and wherever they are cut short (memory.rs, filesystem.rs).
THEOREM LiveEntryIsFreshHolds == Spec => []LiveEntryIsFresh
<1>1. IInv => LiveEntryIsFresh
  <2>1. SUFFICES ASSUME IInv
                 PROVE  LiveEntryIsFresh
    OBVIOUS
  <2>2. entry # Absent /\ Valid(entry.left) => age[entry.value] < TTL
    <3>1. entry # Absent => age[entry.value] \in Left
      BY <2>1 DEF IInv, TypeOK
    <3>2. QED
      BY <2>1, <3>1, CacheAssumption DEF IInv, MemoryAges, Valid, Left
  <2>3. Quiet /\ ~cut =>
          /\ data # Torn
          /\ Valid(meta) /\ data # Absent => age[data] < TTL
    <3>1. data \in Value => age[data] \in Left
      BY <2>1 DEF IInv, TypeOK
    <3>2. QED
      BY <2>1, <3>1, CacheAssumption DEF IInv, TypeOK, DiskAges, Valid, Left
  <2>4. QED
    BY <2>2, <2>3 DEF LiveEntryIsFresh
<1> QED
  BY <1>1, IInvInit, IInvNext, PTL DEF Spec
===============================================================================
