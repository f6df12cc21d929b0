---------------------------- MODULE CachePatterns ----------------------------
(***************************************************************************)
(* The patterns of caching/cache_patterns.py for one key, over one cache    *)
(* and one database that several client threads use: cache-aside (whose     *)
(* read is also ReadThroughPattern.get), write-through, and write-behind    *)
(* with its write queue, its flusher thread and stop().                     *)
(*                                                                          *)
(* Neither the cache nor the database is locked: each get, set, delete,     *)
(* find and save is one step, and so are Queue.empty, get and put. Values   *)
(* are versions, numbered in the order in which the writes began. Keys      *)
(* share nothing but the room in a batch. A cache hit changes nothing and   *)
(* is a stuttering step; SimpleCache ignores the ttl it is given.           *)
(***************************************************************************)
EXTENDS Naturals, SequencesExt

CONSTANTS
  Clients,
  batch_size,
  MaxWrites     \* bound: how many writes are begun

ASSUME CacheAssumption ==
  /\ batch_size \in Nat \ {0}
  /\ MaxWrites \in Nat

VARIABLES
  pattern,      \* which of the classes is used
  solo,         \* clients write one at a time, and the cache began filled
  version,      \* the last version a client began to write
  db,           \* SimulatedDatabase._data of the key; 0 for no row
  cache,        \* SimpleCache._store of the key; 0 for no entry
  saved,        \* the versions the database has held
  client,       \* where each client stands in read or write
  value,        \* the local variable `value` of read or write
  write_queue,  \* WriteBehindPattern.write_queue
  flusher,      \* where the thread stands in _flush_worker
  batch,        \* the local variable `batch` of _flush_worker
  stopper,      \* where the caller of stop stands
  flushing      \* the value flush_now has taken from the queue

clientVars == <<version, client, value>>
behindVars == <<write_queue, flusher, batch, stopper, flushing>>
cacheVars  == <<pattern, solo, version, db, cache, saved, client, value,
                write_queue, flusher, batch, stopper, flushing>>

Patterns  == {"cache-aside", "write-through", "write-behind"}
Versions  == 0..MaxWrites + 1
Writing   == {"saving", "invalidating", "enqueuing"}

CacheInit ==
  /\ pattern \in Patterns
  /\ solo \in BOOLEAN
  /\ version = 1
  /\ db \in {0, 1}
  /\ cache = IF solo THEN db ELSE 0
  /\ solo => db = 1
  /\ saved = {db}
  /\ client = [c \in Clients |-> "idle"]
  /\ value = [c \in Clients |-> 0]
  /\ write_queue = <<>>
  /\ flusher = "asleep"
  /\ batch = <<>>
  /\ stopper = "none"
  /\ flushing = 0

Goto(c, label) == client' = [client EXCEPT ![c] = label]

Save(v) == db' = v /\ saved' = saved \cup {v}

Finish(c) == Goto(c, "idle") /\ value' = [value EXCEPT ![c] = 0]

-----------------------------------------------------------------------------
(* read *)

ReadMiss(c) ==
  /\ client[c] = "idle"
  /\ cache = 0
  /\ Goto(c, "loading")
  /\ UNCHANGED <<pattern, solo, version, db, cache, saved, value, behindVars>>

Load(c) ==
  /\ client[c] = "loading"
  /\ IF db = 0
     THEN Goto(c, "idle") /\ UNCHANGED value
     ELSE Goto(c, "filling") /\ value' = [value EXCEPT ![c] = db]
  /\ UNCHANGED <<pattern, solo, version, db, cache, saved, behindVars>>

Fill(c) ==
  /\ client[c] = "filling"
  /\ cache' = value[c]
  /\ Finish(c)
  /\ UNCHANGED <<pattern, solo, version, db, saved, behindVars>>

-----------------------------------------------------------------------------
(* write *)

MayWrite(c) ==
  /\ client[c] = "idle"
  /\ version <= MaxWrites
  /\ solo => \A d \in Clients : client[d] \notin Writing

\* Mutant: write-through leaves the cache to the next read.
BeginWriteAround(c) ==
  /\ MayWrite(c)
  /\ version' = version + 1
  /\ value' = [value EXCEPT ![c] = version']
  /\ \/ pattern # "write-behind" /\ Goto(c, "saving") /\ UNCHANGED cache
     \/ pattern = "write-behind" /\ Goto(c, "enqueuing") /\ cache' = version'
  /\ UNCHANGED <<pattern, solo, db, saved, behindVars>>

\* The patterns that write to the cache do so first.
BeginWrite(c) ==
  /\ MayWrite(c)
  /\ version' = version + 1
  /\ value' = [value EXCEPT ![c] = version']
  /\ \/ pattern = "cache-aside" /\ Goto(c, "saving") /\ UNCHANGED cache
     \/ pattern = "write-through" /\ Goto(c, "saving") /\ cache' = version'
     \/ pattern = "write-behind" /\ Goto(c, "enqueuing") /\ cache' = version'
  /\ UNCHANGED <<pattern, solo, db, saved, behindVars>>

SaveWrite(c) ==
  /\ client[c] = "saving"
  /\ Save(value[c])
  /\ IF pattern = "cache-aside"
     THEN Goto(c, "invalidating") /\ UNCHANGED value
     ELSE Finish(c)
  /\ UNCHANGED <<pattern, solo, version, cache, behindVars>>

Invalidate(c) ==
  /\ client[c] = "invalidating"
  /\ cache' = 0
  /\ Finish(c)
  /\ UNCHANGED <<pattern, solo, version, db, saved, behindVars>>

Enqueue(c) ==
  /\ client[c] = "enqueuing"
  /\ write_queue' = Append(write_queue, value[c])
  /\ Finish(c)
  /\ UNCHANGED <<pattern, solo, version, db, cache, saved, flusher, batch,
                 stopper, flushing>>

-----------------------------------------------------------------------------
(* _flush_worker *)

\* The loop condition, tested before every sleep.
NextRound == flusher' = IF stopper = "none" THEN "asleep" ELSE "ended"

WakeUp ==
  /\ pattern = "write-behind"
  /\ flusher = "asleep"
  /\ flusher' = "testing"
  /\ UNCHANGED <<pattern, solo, clientVars, db, cache, saved, write_queue,
                 batch, stopper, flushing>>

\* Queue.empty and the room in the batch.
FlusherTests ==
  /\ flusher = "testing"
  /\ \/ /\ write_queue # <<>> /\ Len(batch) < batch_size
        /\ flusher' = "getting"
     \/ /\ write_queue = <<>> \/ Len(batch) >= batch_size
        /\ IF batch = <<>> THEN NextRound ELSE flusher' = "saving"
  /\ UNCHANGED <<pattern, solo, clientVars, db, cache, saved, write_queue,
                 batch, stopper, flushing>>

\* Mutant: the flusher puts the newest write of the batch first.
FlusherGetsInFront ==
  /\ flusher = "getting"
  /\ write_queue # <<>>
  /\ batch' = <<Head(write_queue)>> \o batch
  /\ write_queue' = Tail(write_queue)
  /\ flusher' = "testing"
  /\ UNCHANGED <<pattern, solo, clientVars, db, cache, saved, stopper, flushing>>

\* Queue.get blocks while there is nothing to get.
FlusherGets ==
  /\ flusher = "getting"
  /\ write_queue # <<>>
  /\ batch' = Append(batch, Head(write_queue))
  /\ write_queue' = Tail(write_queue)
  /\ flusher' = "testing"
  /\ UNCHANGED <<pattern, solo, clientVars, db, cache, saved, stopper, flushing>>

\* Mutant: what is left of a batch after one save is thrown away.
FlusherSavesOne ==
  /\ flusher = "saving"
  /\ Save(Head(batch))
  /\ batch' = <<>>
  /\ NextRound
  /\ UNCHANGED <<pattern, solo, clientVars, cache, write_queue, stopper,
                 flushing>>

FlusherSaves ==
  /\ flusher = "saving"
  /\ Save(Head(batch))
  /\ batch' = Tail(batch)
  /\ IF Len(batch) > 1 THEN UNCHANGED flusher ELSE NextRound
  /\ UNCHANGED <<pattern, solo, clientVars, cache, write_queue, stopper,
                 flushing>>

-----------------------------------------------------------------------------
(* stop and flush_now *)

Stop ==
  /\ pattern = "write-behind"
  /\ stopper = "none"
  /\ stopper' = "testing"
  /\ UNCHANGED <<pattern, solo, clientVars, db, cache, saved, write_queue,
                 flusher, batch, flushing>>

StopperTests ==
  /\ stopper = "testing"
  /\ stopper' = IF write_queue = <<>> THEN "done" ELSE "getting"
  /\ UNCHANGED <<pattern, solo, clientVars, db, cache, saved, write_queue,
                 flusher, batch, flushing>>

StopperGets ==
  /\ stopper = "getting"
  /\ write_queue # <<>>
  /\ flushing' = Head(write_queue)
  /\ write_queue' = Tail(write_queue)
  /\ stopper' = "saving"
  /\ UNCHANGED <<pattern, solo, clientVars, db, cache, saved, flusher, batch>>

StopperSaves ==
  /\ stopper = "saving"
  /\ Save(flushing)
  /\ flushing' = 0
  /\ stopper' = "testing"
  /\ UNCHANGED <<pattern, solo, clientVars, cache, write_queue, flusher, batch>>

-----------------------------------------------------------------------------
Continue(c) ==
  Load(c) \/ Fill(c) \/ SaveWrite(c) \/ Invalidate(c) \/ Enqueue(c)
FlushWorker == WakeUp \/ FlusherTests \/ FlusherGets \/ FlusherSaves
FlushNow    == StopperTests \/ StopperGets \/ StopperSaves

CacheNext ==
  \/ \E c \in Clients : ReadMiss(c) \/ BeginWrite(c) \/ Continue(c)
  \/ FlushWorker \/ Stop \/ FlushNow

CacheSpec == CacheInit /\ [][CacheNext]_cacheVars
-----------------------------------------------------------------------------
(* Properties *)

\* Type invariant: of the locals of read, write, _flush_worker and flush_now
\* and of the queue, and no batch is larger than batch_size.
CacheTypeOK ==
  /\ pattern \in Patterns /\ solo \in BOOLEAN
  /\ {version, db, cache, flushing} \subseteq Versions
  /\ saved \subseteq Versions
  /\ client \in [Clients -> {"idle", "loading", "filling"} \cup Writing]
  /\ value \in [Clients -> Versions]
  /\ \A s \in {write_queue, batch} : s \in Seq(Versions \ {0})
  /\ Len(batch) <= batch_size
  /\ flusher \in {"asleep", "testing", "getting", "saving", "ended"}
  /\ stopper \in {"none", "testing", "getting", "saving", "done"}

InFlight == \E c \in Clients : client[c] \in Writing
Stopped  == stopper # "none"

\* Readers only ever see what was written: a cache-aside cache holds a version
\* the database has held, whoever fills and invalidates it in whatever order,
\* and it is never ahead of the database as long as writes do not overlap.
AsideCachesSaved ==
  pattern = "cache-aside" =>
    /\ cache \in saved \cup {0}
    /\ solo => cache <= db

\* "Cache is ALWAYS consistent with DB", for clients that write one at a time:
\* a cache that is written first is never behind the database, and level with
\* it once the write, and behind a queue the flush, is complete.
SoloWritesConsistent ==
  solo /\ ~Stopped =>
    /\ pattern # "cache-aside" => cache >= db
    /\ pattern = "write-through" /\ ~InFlight => cache = db
    /\ pattern = "write-behind" /\ ~InFlight /\ write_queue = <<>> /\ batch = <<>>
         => cache = db

\* The flusher keeps the order of the writes: until stop is called, the
\* database never goes back to an older version.
FlushKeepsOrder ==
  [][solo /\ ~Stopped => db' >= db]_cacheVars

\* What cache and database hold, and when they agree.
PatternsConsistent == CacheTypeOK /\ AsideCachesSaved /\ SoloWritesConsistent

\* Every queued write gets to the database, however the batches are cut, unless
\* stop is called in the meantime.
WritesReachDb ==
  \A v \in 1..MaxWrites + 1 :
    v \in Range(write_queue) ~> v \in saved \/ Stopped
=============================================================================
