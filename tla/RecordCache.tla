---------------------------- MODULE RecordCache ----------------------------
(***************************************************************************)
(* storage/storage_cache.go: the cache that every replica puts in front of *)
(* the storage, for one subscription record.  It has two levels, the local *)
(* cache of the replica and the Redis that the replicas share; both belong *)
(* to the external library go-redis/cache, whose calls are modelled the    *)
(* way storageCache uses them.  Once joins the concurrent reads of a       *)
(* replica in one flight.  A write changes the storage first, then the     *)
(* local cache of its own replica, then Redis.                             *)
(*                                                                         *)
(* The contents of a record are abstracted to the number of the write that *)
(* made them.                                                              *)
(***************************************************************************)
EXTENDS Naturals

CONSTANTS
    Replicas,   \* the processes, each with a local cache
    Writers,    \* concurrent calls of Create, Update and Delete
    MaxWrites,  \* bound on the writes that take effect, one before the start included
    CanFail,    \* whether Redis and replies fail, processes die, owners change
    Redis,      \* the cache that the replicas share
    Miss,       \* no entry
    Empty       \* an entry without bytes: what the failure of a load leaves

ASSUME CacheAssumption ==
    /\ MaxWrites \in Nat \ {0}
    /\ CanFail \in BOOLEAN
    /\ Replicas # {} /\ Redis \notin Replicas
    /\ Miss \notin Nat /\ Empty \notin Nat /\ Miss # Empty

VARIABLES
    stored,     \* the live record in the storage
    ver,        \* the number of the last write
    entry,      \* per cache, its entry for the record
    flight,     \* per replica, the read that goes beyond the local cache
    write,      \* the write calls
    why         \* history, per cache: what made its entry stale

vars == <<stored, ver, entry, flight, write, why>>

(* No live record. *)
Absent == 0

Records == 1 .. MaxWrites
Entries == Records \cup {Miss, Empty}

(* The shared cache and those of the replicas. *)
Caches == Replicas \cup {Redis}

Landed == [at |-> "idle", val |-> Empty]
NoWrite == [at |-> "idle", home |-> CHOOSE r \in Replicas : TRUE, put |-> Miss]

Stale(e, s) == e \in Records /\ e # s

(* A write that is going to replace or delete the entry of cache x. *)
Pending(x) ==
    \E w \in Writers :
        /\ write[w].at # "idle"
        /\ IF x = Redis THEN TRUE ELSE write[w].home = x /\ write[w].at = "local"

(* The reasons for which entries are stale: an entry that is put while the storage has *)
(* something else was raced by another write, "late"; those in the set x are stale for *)
(* the reason n from now on.  The first reason is kept until the entry is not stale.   *)
Explain(x, n) ==
    why' = [c \in Caches |->
        IF ~Stale(entry'[c], stored') THEN {}
        ELSE IF why[c] # {} THEN why[c]
        ELSE (IF c \in x THEN {n} ELSE {})
             \cup (IF entry'[c] # entry[c] THEN {"late"} ELSE {})]

-----------------------------------------------------------------------------
(* Reads.  A read that finds an entry with bytes in the local cache answers it, one *)
(* that finds an empty entry falls back on the storage: neither changes anything.   *)

(* Once: no entry in the local cache, and no flight that the read could join. *)
TakeOff(r) ==
    /\ entry[r] = Miss
    /\ flight[r].at = "idle"
    /\ flight' = [flight EXCEPT ![r] = [at |-> "redis", val |-> Empty]]
    /\ UNCHANGED <<stored, ver, entry, write, why>>

(* Redis has the entry: it is copied to the local cache as well. *)
GetRedis(r) ==
    /\ flight[r].at = "redis"
    /\ \/ /\ entry[Redis] # Miss
          /\ flight' = [flight EXCEPT ![r] = [at |-> "copy", val |-> entry[Redis]]]
       \/ /\ entry[Redis] = Miss \/ CanFail
          /\ flight' = [flight EXCEPT ![r] = [at |-> "load", val |-> Empty]]
    /\ UNCHANGED <<stored, ver, entry, write, why>>

Copy(r) ==
    /\ flight[r].at = "copy"
    /\ entry' = [entry EXCEPT ![r] = flight[r].val]
    /\ flight' = [flight EXCEPT ![r] = Landed]
    /\ UNCHANGED <<stored, ver, write>>
    /\ Explain({}, "late")

(* Mutant of Load: a record that is not there is cached like one that is. *)
LoadNotFound(r) ==
    /\ flight[r].at = "load"
    /\ \E v \in {stored} \cup (IF CanFail THEN {Empty} ELSE {}) :
          flight' = [flight EXCEPT ![r] = [at |-> "fill", val |-> v]]
    /\ UNCHANGED <<stored, ver, entry, write, why>>

(* The function load: an error, not found or other, is swallowed and leaves no bytes. *)
Load(r) ==
    /\ flight[r].at = "load"
    /\ \E v \in {IF stored = Absent THEN Empty ELSE stored} \cup (IF CanFail THEN {Empty} ELSE {}) :
          flight' = [flight EXCEPT ![r] = [at |-> "fill", val |-> v]]
    /\ UNCHANGED <<stored, ver, entry, write, why>>

(* What was loaded goes to the local cache, *)
Fill(r) ==
    /\ flight[r].at = "fill"
    /\ entry' = [entry EXCEPT ![r] = flight[r].val]
    /\ flight' = [flight EXCEPT ![r].at = "setnx"]
    /\ UNCHANGED <<stored, ver, write>>
    /\ Explain({}, "late")

(* then to Redis, unless there is an entry (SetNX: true). *)
SetNX(r) ==
    /\ flight[r].at = "setnx"
    /\ \/ entry' = [entry EXCEPT ![Redis] = IF @ = Miss THEN flight[r].val ELSE @]
       \/ CanFail /\ UNCHANGED entry
    /\ flight' = [flight EXCEPT ![r] = Landed]
    /\ UNCHANGED <<stored, ver, write>>
    /\ Explain({}, "late")

-----------------------------------------------------------------------------
(* Writes.  One that the storage refuses leaves the caches alone. *)

(* The storage takes the write; replica r has the reply, or never gets it.  Create is *)
(* going to put its record into the caches, Update and Delete to drop the entries.    *)
Apply(w, r) ==
    /\ write[w].at = "idle"
    /\ ver < MaxWrites
    /\ UNCHANGED <<entry, flight>>
    /\ \E op \in {"create", "update", "delete"} :
          /\ (op = "create") <=> (stored = Absent)
          /\ ver' = ver + 1
          /\ stored' = IF op = "delete" THEN Absent ELSE ver + 1
          /\ \/ /\ write' = [write EXCEPT ![w] =
                        [at |-> "local", home |-> r,
                         put |-> IF op = "create" THEN stored' ELSE Miss]]
                /\ Explain(Replicas \ {r}, "elsewhere")
             \/ /\ CanFail
                /\ UNCHANGED write
                /\ Explain(Caches, "failed")

(* Mutant of PutLocal: a deletion leaves the local cache alone. *)
PutLocalOnCreate(w) ==
    /\ write[w].at = "local"
    /\ entry' = IF write[w].put # Miss
                THEN [entry EXCEPT ![write[w].home] = write[w].put] ELSE entry
    /\ write' = [write EXCEPT ![w].at = "redis"]
    /\ UNCHANGED <<stored, ver, flight>>
    /\ Explain({}, "late")

(* cache.Set or cache.Delete, the local cache of the replica first, *)
PutLocal(w) ==
    /\ write[w].at = "local"
    /\ entry' = [entry EXCEPT ![write[w].home] = write[w].put]
    /\ write' = [write EXCEPT ![w].at = "redis"]
    /\ UNCHANGED <<stored, ver, flight>>
    /\ Explain({}, "late")

(* then Redis; a failure is logged and ignored. *)
PutRedis(w) ==
    /\ write[w].at = "redis"
    /\ write' = [write EXCEPT ![w] = NoWrite]
    /\ UNCHANGED <<stored, ver, flight>>
    /\ \/ entry' = [entry EXCEPT ![Redis] = write[w].put] /\ Explain({}, "late")
       \/ CanFail /\ UNCHANGED entry /\ Explain({Redis}, "failed")

(* ChangeOwner changes the record and no cache. *)
ChangeOwner ==
    /\ CanFail
    /\ stored # Absent
    /\ ver < MaxWrites
    /\ ver' = ver + 1
    /\ stored' = ver + 1
    /\ UNCHANGED <<entry, flight, write>>
    /\ Explain(Caches, "owner")

-----------------------------------------------------------------------------

(* The local entry expires or is evicted. *)
DropLocal(r) ==
    /\ entry[r] # Miss
    /\ entry' = [entry EXCEPT ![r] = Miss]
    /\ UNCHANGED <<stored, ver, flight, write>>
    /\ Explain({}, "late")

(* Mutant of DropRedis: the items of records have no time to live. *)
DropRedisEmpty ==
    /\ entry[Redis] = Empty
    /\ entry' = [entry EXCEPT ![Redis] = Miss]
    /\ UNCHANGED <<stored, ver, flight, write>>
    /\ Explain({}, "late")

(* The entry in Redis expires. *)
DropRedis ==
    /\ entry[Redis] # Miss
    /\ entry' = [entry EXCEPT ![Redis] = Miss]
    /\ UNCHANGED <<stored, ver, flight, write>>
    /\ Explain({}, "late")

(* The process dies with its local cache, its flight and its writes. *)
Crash(r) ==
    /\ CanFail
    /\ entry' = [entry EXCEPT ![r] = Miss]
    /\ flight' = [flight EXCEPT ![r] = Landed]
    /\ write' = [w \in Writers |-> IF write[w].home = r THEN NoWrite ELSE write[w]]
    /\ UNCHANGED <<stored, ver>>
    /\ Explain(IF write' = write THEN {} ELSE {Redis}, "failed")

-----------------------------------------------------------------------------

(* The replicas start on a storage that has the record from before, or not. *)
Init ==
    /\ stored \in {Absent, 1}
    /\ ver = 1
    /\ entry = [x \in Caches |-> Miss]
    /\ flight = [r \in Replicas |-> Landed]
    /\ write = [w \in Writers |-> NoWrite]
    /\ why = [x \in Caches |-> {}]

Fly(r) == GetRedis(r) \/ Copy(r) \/ Load(r) \/ Fill(r) \/ SetNX(r)
Finish(w) == PutLocal(w) \/ PutRedis(w)

Next ==
    \/ \E r \in Replicas : TakeOff(r) \/ Fly(r) \/ DropLocal(r) \/ Crash(r)
    \/ \E w \in Writers : Finish(w) \/ \E r \in Replicas : Apply(w, r)
    \/ ChangeOwner
    \/ DropRedis

Spec == Init /\ [][Next]_vars

(* Calls end, and entries expire. *)
FairSpec ==
    /\ Spec
    /\ \A r \in Replicas : WF_vars(Fly(r)) /\ WF_vars(DropLocal(r))
    /\ \A w \in Writers : WF_vars(Finish(w))
    /\ WF_vars(DropRedis)

-----------------------------------------------------------------------------

(* Every variable stays in its set. *)
TypeOK ==
    /\ stored \in {Absent} \cup Records
    /\ ver \in Records
    /\ entry \in [Caches -> Entries]
    /\ flight \in [Replicas -> [at : {"idle", "redis", "copy", "load", "fill", "setnx"},
                                val : Records \cup {Empty}]]
    /\ write \in [Writers -> [at : {"idle", "local", "redis"}, home : Replicas,
                              put : Records \cup {Miss}]]
    /\ why \in [Caches -> SUBSET {"late", "elsewhere", "failed", "owner"}]

(* A cached record that the storage does not have any more has a reason: a write that *)
(* is about to replace or delete it, a write of another replica (whose local caches   *)
(* nobody tells), an entry put late, a failure, or a change of owner.                 *)
StaleRecordExplained ==
    \A x \in Caches : Stale(entry[x], stored) => Pending(x) \/ why[x] # {}

(* Once the writes are over, every stale entry goes and none comes back: no replica *)
(* gets its local entry renewed from Redis, and Redis from a replica, for ever.     *)
EventuallyFresh ==
    <>[](\A x \in Caches : ~Stale(entry[x], stored))
=============================================================================
