---------------------------- MODULE ReadThroughCache ----------------------------
(***************************************************************************)
(* The caches of crates/sigstore-cache and the calls of the Rekor and       *)
(* Fulcio clients that read through them: get_log_info, get_public_key,     *)
(* get_configuration and get_trust_bundle, which differ only in how they    *)
(* decode what the cache holds.  Tasks (of one process, or of several over  *)
(* one cache directory) share one adapter and one key: keys never meet, in  *)
(* memory or on disk, except that clear and cleanup_expired go over all.    *)
(*                                                                         *)
(* One action per critical section of the lock in memory, and per file      *)
(* operation on disk.  Time is relative: an entry carries the ticks it has  *)
(* left to live, so the clock needs no bound.                               *)
(***************************************************************************)
EXTENDS Naturals, FiniteSets

CONSTANTS
  Task,
  Discarding,  \* the tasks that also call remove and clear
  MaxVersion,  \* bound: the service publishes values 1 .. MaxVersion
  TTL,         \* the time to live the clients pass
  MaxCuts,     \* bound: how many tasks are dropped or killed
  Absent,      \* no entry, no file
  Torn,        \* a file that was truncated and not (fully) written again
  NoAnswer,    \* no call has ended yet
  Failed       \* a call that ended in an error

ASSUME CacheAssumption ==
  /\ Discarding \subseteq Task
  /\ MaxVersion \in Nat \ {0} /\ TTL \in Nat \ {0} /\ MaxCuts \in Nat
  /\ Absent # Torn /\ {Absent, Torn, NoAnswer, Failed} \cap Nat = {}

Value == 1 .. MaxVersion
Left == 0 .. TTL

\* get_public_key takes any text; the others parse JSON, which no truncated
\* value is.
Resource == {"text", "json"}

VARIABLES
  adapter,   \* "memory" or "file", for the whole behaviour
  resource,  \* the kind of the key
  service,   \* the value the service publishes now
  entry,     \* InMemoryCache: Absent or [value, left]
  meta,      \* FileSystemCache, the .meta file: Absent, Torn or the ticks left
  data,      \* FileSystemCache, the .cache file: Absent, Torn or a value
  pc,        \* pc[t]: where t is
  value,     \* value[t]: what t has fetched
  left,      \* left[t]: the lifetime t has computed, running down like the rest
  answer,    \* answer[t]: what the last call of t returned
  age,       \* history: ticks since v was last given its lifetime, up to TTL
  cut,       \* history: a set was cut short and no set has completed since
  cuts

files == <<meta, data>>
memory == entry
task == <<pc, value, left, answer>>
history == <<age, cut>>
vars == <<adapter, resource, service, entry, meta, data, pc, value, left, answer,
          age, cut, cuts>>

Writing == {"truncate meta", "write meta", "truncate data", "write data"}
Touching == Writing \ {"truncate meta"}
Removing == {"remove data", "remove meta", "clear", "clear data"}
Control == {"idle", "get", "evict", "read data", "expired data", "expired meta",
            "fetch", "set", "insert"} \cup Writing \cup Removing

Init ==
  /\ adapter \in {"memory", "file"}
  /\ resource \in Resource
  /\ service = 1
  /\ entry = Absent /\ meta = Absent /\ data = Absent
  /\ pc = [t \in Task |-> "idle"]
  /\ value = [t \in Task |-> 1]
  /\ left = [t \in Task |-> 0]
  /\ answer = [t \in Task |-> NoAnswer]
  /\ age = [v \in Value |-> TTL]
  /\ cut = FALSE
  /\ cuts = 0

InMemory == adapter = "memory"
OnDisk == adapter = "file"

Goto(t, l) == pc' = [pc EXCEPT ![t] = l]

\* The steps that only move a task.
Move(t, from, to) ==
  /\ pc[t] = from
  /\ Goto(t, to)
  /\ UNCHANGED <<adapter, resource, service, memory, files, value, left, answer, history, cuts>>

\* A call ends, and its locals with it.
Forget(t) ==
  /\ Goto(t, "idle")
  /\ value' = [value EXCEPT ![t] = 1]
  /\ left' = [left EXCEPT ![t] = 0]

Return(t, a) ==
  /\ Forget(t)
  /\ answer' = [answer EXCEPT ![t] = a]

-----------------------------------------------------------------------------
(* The world.                                                              *)

Older(n) == IF n = 0 THEN 0 ELSE n - 1

Tick ==
  /\ entry' = IF entry = Absent THEN Absent ELSE [entry EXCEPT !.left = Older(@)]
  /\ meta' = IF meta \in Left THEN Older(meta) ELSE meta
  /\ left' = [t \in Task |-> Older(left[t])]
  /\ age' = [v \in Value |-> IF age[v] < TTL THEN age[v] + 1 ELSE TTL]
  /\ UNCHANGED <<adapter, resource, service, data, pc, value, answer, cut, cuts>>

Publish ==
  /\ service < MaxVersion
  /\ service' = service + 1
  /\ UNCHANGED <<adapter, resource, memory, files, task, history, cuts>>

\* The future is dropped or its process dies; files stay as they are.
Cut(t) ==
  /\ cuts < MaxCuts
  /\ pc[t] # "idle"
  /\ Forget(t)
  /\ cut' = (cut \/ pc[t] \in Touching)
  /\ cuts' = cuts + 1
  /\ UNCHANGED <<adapter, resource, service, memory, files, answer, age>>

-----------------------------------------------------------------------------
(* A call, and what it does with what the cache answers.                   *)

Call(t) == Move(t, "idle", "get")

\* Mutant: an entry is still good in the instant it expires.
ValidInclusive(n) == n \in Left

\* now < expires_at
Valid(n) == n \in Left /\ n > 0

Decodes(v) == v \in Value \/ (v = Torn /\ resource = "text")

\* The cache returned v: the call ends, unless v is not what it should be.
Serve(t, v) ==
  IF Decodes(v) THEN Return(t, v)
                ELSE Goto(t, "fetch") /\ UNCHANGED <<value, left, answer>>

Fetch(t) ==
  /\ pc[t] = "fetch"
  /\ value' = [value EXCEPT ![t] = service]
  /\ Goto(t, "set")
  /\ UNCHANGED <<adapter, resource, service, memory, files, left, answer, history, cuts>>

FetchFails(t) ==
  /\ pc[t] = "fetch"
  /\ Return(t, Failed)
  /\ UNCHANGED <<adapter, resource, service, memory, files, history, cuts>>

\* Mutant: the lifetime is one tick more than asked for.
StartSetLonger(t) ==
  /\ pc[t] = "set"
  /\ left' = [left EXCEPT ![t] = TTL + 1]
  /\ Goto(t, IF InMemory THEN "insert" ELSE "truncate meta")
  /\ age' = IF InMemory THEN [age EXCEPT ![value[t]] = 0] ELSE age
  /\ UNCHANGED <<adapter, resource, service, memory, files, value, answer, cut, cuts>>

\* The lifetime is computed before the lock is asked for, and before any file
\* is opened.
StartSet(t) ==
  /\ pc[t] = "set"
  /\ left' = [left EXCEPT ![t] = TTL]
  /\ Goto(t, IF InMemory THEN "insert" ELSE "truncate meta")
  /\ age' = IF InMemory THEN [age EXCEPT ![value[t]] = 0] ELSE age
  /\ UNCHANGED <<adapter, resource, service, memory, files, value, answer, cut, cuts>>

-----------------------------------------------------------------------------
(* InMemoryCache.                                                          *)

MemoryHit(t) ==
  /\ InMemory /\ pc[t] = "get"
  /\ entry # Absent /\ Valid(entry.left)
  /\ Serve(t, entry.value)
  /\ UNCHANGED <<adapter, resource, service, memory, files, history, cuts>>

MemoryMiss(t) ==
  /\ InMemory /\ entry = Absent
  /\ Move(t, "get", "fetch")

\* The read lock is dropped here, and the write lock taken in MemoryEvict.
MemoryExpired(t) ==
  /\ InMemory /\ entry # Absent /\ ~Valid(entry.left)
  /\ Move(t, "get", "evict")

MemoryEvict(t) ==
  /\ pc[t] = "evict"
  /\ entry' = Absent
  /\ Goto(t, "fetch")
  /\ UNCHANGED <<adapter, resource, service, files, value, left, answer, history, cuts>>

MemoryInsert(t) ==
  /\ pc[t] = "insert"
  /\ entry' = [value |-> value[t], left |-> left[t]]
  /\ Return(t, value[t])
  /\ UNCHANGED <<adapter, resource, service, files, history, cuts>>

\* remove, clear; and cleanup_expired when only expired entries go.
MemoryRemove(t) ==
  /\ InMemory /\ t \in Discarding /\ pc[t] = "idle"
  /\ entry # Absent
  /\ entry' = Absent
  /\ UNCHANGED <<adapter, resource, service, files, task, history, cuts>>

-----------------------------------------------------------------------------
(* FileSystemCache.                                                        *)

\* Mutant: data whose metadata cannot be read does not expire.
ReadMetaLeniently(t) ==
  /\ OnDisk
  /\ Move(t, "get", IF meta \in Left /\ ~Valid(meta) THEN "expired data" ELSE "read data")

\* read_valid_metadata: metadata that does not parse is an error of the cache,
\* which the clients take for a miss.
ReadMeta(t) ==
  /\ OnDisk
  /\ Move(t, "get", IF Valid(meta) THEN "read data"
                    ELSE IF meta \in Left THEN "expired data" ELSE "fetch")

ReadData(t) ==
  /\ pc[t] = "read data"
  /\ IF data = Absent THEN Goto(t, "fetch") /\ UNCHANGED <<value, left, answer>>
                      ELSE Serve(t, data)
  /\ UNCHANGED <<adapter, resource, service, memory, files, history, cuts>>

\* Whatever the file held, and whoever wrote it.
Unlink(t, from, file, to) ==
  /\ pc[t] = from
  /\ data' = IF file = "data" THEN Absent ELSE data
  /\ meta' = IF file = "meta" THEN Absent ELSE meta
  /\ Goto(t, to)
  /\ UNCHANGED <<adapter, resource, service, memory, value, left, answer, history, cuts>>

RemoveExpired(t) ==
  \/ Unlink(t, "expired data", "data", "expired meta")
  \/ Unlink(t, "expired meta", "meta", "fetch")

\* remove and clear, called by an application.
Discard(t) ==
  /\ OnDisk /\ t \in Discarding
  /\ Move(t, "idle", "remove data") \/ Move(t, "idle", "clear")

Remove(t) ==
  \/ Unlink(t, "remove data", "data", "remove meta")
  \/ Unlink(t, "remove meta", "meta", "idle")

\* In the order of the directory.
Clear(t) ==
  \/ Unlink(t, "clear", "data", "remove meta")
  \/ Unlink(t, "clear", "meta", "clear data")
  \/ Unlink(t, "clear data", "data", "idle")

\* fs::write opens the file with truncation, then writes.
WriteMeta(t) ==
  /\ \/ /\ pc[t] = "truncate meta"
        /\ meta' = Torn
        /\ Goto(t, "write meta")
     \/ /\ pc[t] = "write meta"
        /\ meta' = left[t]
        /\ Goto(t, "truncate data")
  /\ UNCHANGED <<adapter, resource, service, memory, data, value, left, answer, history, cuts>>

TruncateData(t) ==
  /\ pc[t] = "truncate data"
  /\ data' = Torn
  /\ Goto(t, "write data")
  /\ UNCHANGED <<adapter, resource, service, memory, meta, value, left, answer, history, cuts>>

WriteData(t) ==
  /\ pc[t] = "write data"
  /\ data' = value[t]
  /\ age' = [age EXCEPT ![value[t]] = 0]
  /\ cut' = FALSE
  /\ Return(t, value[t])
  /\ UNCHANGED <<adapter, resource, service, memory, meta, cuts>>

\* The clients ignore a set that fails.
WriteFails(t) ==
  /\ pc[t] \in Writing
  /\ cuts < MaxCuts
  /\ cut' = (cut \/ pc[t] \in Touching)
  /\ cuts' = cuts + 1
  /\ Return(t, value[t])
  /\ UNCHANGED <<adapter, resource, service, memory, files, age>>

-----------------------------------------------------------------------------
InMemoryCache(t) ==
  MemoryHit(t) \/ MemoryMiss(t) \/ MemoryExpired(t) \/ MemoryEvict(t) \/ MemoryInsert(t)

FileSystemCache(t) ==
  ReadMeta(t) \/ ReadData(t) \/ RemoveExpired(t) \/ WriteMeta(t) \/ TruncateData(t) \/ WriteData(t)

Client(t) == Fetch(t) \/ FetchFails(t) \/ StartSet(t) \/ InMemoryCache(t) \/ FileSystemCache(t)

Next ==
  \/ Tick \/ Publish
  \/ \E t \in Task : \/ Call(t) \/ Client(t) \/ WriteFails(t) \/ Cut(t)
                     \/ MemoryRemove(t) \/ Discard(t) \/ Remove(t) \/ Clear(t)

Spec == Init /\ [][Next]_vars

\* Time goes on, and so does a call that was made.
Fairness == WF_vars(Tick) /\ \A t \in Task : WF_vars(Client(t) \/ Remove(t) \/ Clear(t))

\* An application that keeps asking, also when it removes entries in between.
Polling == \A t \in Task : SF_vars(Call(t))

PollingSpec == Spec /\ Fairness /\ Polling

-----------------------------------------------------------------------------
(* Properties.                                                             *)

\* The state is well formed; no lifetime exceeds the one that was asked for.
TypeOK ==
  /\ adapter \in {"memory", "file"} /\ resource \in Resource
  /\ service \in Value
  /\ entry \in {Absent} \cup [value : Value, left : Left]
  /\ meta \in {Absent, Torn} \cup Left
  /\ data \in {Absent, Torn} \cup Value
  /\ pc \in [Task -> Control]
  /\ value \in [Task -> Value] /\ left \in [Task -> Left]
  /\ answer \in [Task -> {NoAnswer, Failed, Torn} \cup Value]
  /\ age \in [Value -> Left] /\ cut \in BOOLEAN /\ cuts \in 0 .. MaxCuts

Quiet == \A t \in Task : pc[t] \notin Touching

\* What a get would return was set less than TTL ago ("the value will be
\* considered expired after ttl has elapsed", lib.rs, set) and is whole: at any
\* moment in memory, where a lifetime computed early may be inserted late; on
\* disk, whose two files are written one after the other by tasks that overlap
\* with each other and with removals, when no writer is between them and the
\* last one that began finished.
LiveEntryIsFresh ==
  /\ entry # Absent /\ Valid(entry.left) => age[entry.value] < TTL
  /\ Quiet /\ ~cut =>
       /\ data # Torn
       /\ Valid(meta) /\ data # Absent => age[data] < TTL

\* Once the service no longer changes what it publishes, the clients that keep
\* calling end up with it, whatever was cached, truncated, half written or put
\* back by a slow writer on the way (the clients' get_ methods).  Text is not
\* parsed: a client may read it in the moment another truncates it, every time.
Converges ==
  <>[](\A t \in Task : \/ answer[t] \in {service, Failed, NoAnswer}
                      \/ (resource = "text" /\ answer[t] = Torn))
===============================================================================
