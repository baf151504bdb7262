-------------------------- MODULE RecordCacheProofs --------------------------
(***************************************************************************)
(* Theorems of RecordCache for any number of replicas, writers and writes, *)
(* with every failure the model has.                                       *)
(*                                                                         *)
(* A write that is about to replace an entry explains it only if it puts   *)
(* something else: otherwise the entry is as stale afterwards, and nobody  *)
(* is left to replace it.  That no write puts what is there already takes  *)
(* the order of the writes: no entry, flight or call is ahead of the       *)
(* storage.                                                                *)
(***************************************************************************)
EXTENDS RecordCache, TLAPS

Reasons == {"late", "elsewhere", "failed", "owner"}

Flights == [at : {"idle", "redis", "copy", "load", "fill", "setnx"}, val : Records \cup {Empty}]

Writes == [at : {"idle", "local", "redis"}, home : Replicas, put : Records \cup {Miss}]

(* Nobody knows a write that the storage has not taken. *)
Past(v) == {n \in Records : n <= v} \cup {Miss, Empty, Absent}

PastOnly ==
    /\ stored \in Past(ver)
    /\ \A x \in Caches : entry[x] \in Past(ver)
    /\ \A r \in Replicas : flight[r].val \in Past(ver)
    /\ \A w \in Writers : write[w].put \in Past(ver)

(* The write w of the calls ws is going to put something else for the entry e of cache x. *)
Replaces(ws, w, x, e) ==
    /\ ws[w].at # "idle"
    /\ x = Redis \/ (ws[w].home = x /\ ws[w].at = "local")
    /\ ws[w].put # e

Accounted(x) ==
    Stale(entry[x], stored) /\ why[x] = {} => \E w \in Writers : Replaces(write, w, x, entry[x])

IInv == TypeOK /\ PastOnly /\ \A x \in Caches : Accounted(x)

-----------------------------------------------------------------------------
(* Types *)

LEMMA LandedFits == Landed \in Flights /\ NoWrite \in Writes
<1>1. (CHOOSE r \in Replicas : TRUE) \in Replicas
  BY CacheAssumption
<1>. QED
  BY <1>1 DEF Landed, NoWrite, Flights, Writes

LEMMA ExplainFits ==
    ASSUME TypeOK, NEW x, NEW n \in Reasons, Explain(x, n)
    PROVE  why' \in [Caches -> SUBSET Reasons]
BY DEF Explain, TypeOK, Reasons

(* A step that gives every variable a value of its set, taken from the past. *)
LEMMA FlightFits ==
    ASSUME TypeOK, PastOnly, NEW r \in Replicas, NEW f \in Flights, f.val \in Past(ver),
           flight' = [flight EXCEPT ![r] = f]
    PROVE  flight' \in [Replicas -> Flights] /\ \A q \in Replicas : flight'[q].val \in Past(ver)
BY DEF TypeOK, PastOnly, Flights

LEMMA EntryFits ==
    ASSUME TypeOK, PastOnly, NEW x \in Caches, NEW e \in Entries, e \in Past(ver),
           entry' = [entry EXCEPT ![x] = e]
    PROVE  entry' \in [Caches -> Entries] /\ \A y \in Caches : entry'[y] \in Past(ver)
BY DEF TypeOK, PastOnly

LEMMA WriteFits ==
    ASSUME TypeOK, PastOnly, NEW w \in Writers, NEW s \in Writes, s.put \in Past(ver),
           write' = [write EXCEPT ![w] = s]
    PROVE  write' \in [Writers -> Writes] /\ \A v \in Writers : write'[v].put \in Past(ver)
BY DEF TypeOK, PastOnly, Writes

(* What a step of one cache, one flight or one call has at hand. *)
LEMMA Known ==
    ASSUME TypeOK, PastOnly
    PROVE  /\ entry \in [Caches -> Entries] /\ \A x \in Caches : entry[x] \in Past(ver)
           /\ flight \in [Replicas -> Flights] /\ \A r \in Replicas : flight[r].val \in Past(ver)
           /\ write \in [Writers -> Writes] /\ \A w \in Writers : write[w].put \in Past(ver)
           /\ why \in [Caches -> SUBSET Reasons]
           /\ stored \in {Absent} \cup Records /\ stored \in Past(ver) /\ ver \in Records
           /\ Miss \in Entries /\ Miss \in Past(ver) /\ Empty \in Entries /\ Empty \in Past(ver)
           /\ Redis \in Caches /\ Replicas \subseteq Caches
BY DEF TypeOK, PastOnly, Flights, Writes, Reasons, Entries, Past, Caches

(* Putting the parts together again. *)
LEMMA Typed ==
    ASSUME entry' \in [Caches -> Entries], \A x \in Caches : entry'[x] \in Past(ver'),
           flight' \in [Replicas -> Flights], \A r \in Replicas : flight'[r].val \in Past(ver'),
           write' \in [Writers -> Writes], \A w \in Writers : write'[w].put \in Past(ver'),
           why' \in [Caches -> SUBSET Reasons],
           stored' \in {Absent} \cup Records, stored' \in Past(ver'), ver' \in Records
    PROVE  TypeOK' /\ PastOnly'
BY DEF TypeOK, PastOnly, Flights, Writes, Reasons, Past

-----------------------------------------------------------------------------
(* Reasons *)

(* After Explain, an entry without a reason was stale without one before, is the same, *)
(* and is not among those that got one.                                                *)
LEMMA ExplainLeaves ==
    ASSUME NEW x, NEW n, Explain(x, n), NEW c \in Caches,
           Stale(entry'[c], stored'), why'[c] = {}
    PROVE  why[c] = {} /\ entry'[c] = entry[c] /\ c \notin x
BY DEF Explain

(* A step of the caches alone, *)
LEMMA CacheStep ==
    ASSUME IInv, UNCHANGED <<stored, write>>, NEW x, NEW n, Explain(x, n),
           NEW c \in Caches, Stale(entry'[c], stored'), why'[c] = {}
    PROVE  \E w \in Writers : Replaces(write', w, c, entry'[c])
BY ExplainLeaves DEF IInv, Accounted

(* and one of a call, after which the other ones replace what they would have replaced: *)
(* the call itself has put its entry, or has given the reason.                          *)
LEMMA PutStep ==
    ASSUME IInv, UNCHANGED stored, NEW w \in Writers, NEW x, NEW n, Explain(x, n),
           NEW c \in Caches, Stale(entry'[c], stored'), why'[c] = {},
           \A v \in Writers \ {w} : write'[v] = write[v],
           \/ entry'[c] = write[w].put
           \/ Replaces(write, w, c, entry[c]) => Replaces(write', w, c, entry[c])
    PROVE  \E v \in Writers : Replaces(write', v, c, entry'[c])
<1>1. entry'[c] = entry[c] /\ why[c] = {}
  BY ExplainLeaves
<1>2. PICK v \in Writers : Replaces(write, v, c, entry[c])
  BY <1>1 DEF IInv, Accounted
<1>3. CASE v # w
  BY <1>1, <1>2, <1>3 DEF Replaces
<1>4. CASE v = w
  BY <1>1, <1>2, <1>4 DEF Replaces
<1>. QED
  BY <1>3, <1>4

(* From the entries one by one to the invariant. *)
LEMMA AllAccounted ==
    ASSUME TypeOK', PastOnly',
           \A c \in Caches : Stale(entry'[c], stored') /\ why'[c] = {} =>
               \E w \in Writers : Replaces(write', w, c, entry'[c])
    PROVE  IInv'
<1>1. (\A c \in Caches : Accounted(c))'
  BY DEF Accounted
<1>. QED
  BY <1>1 DEF IInv

-----------------------------------------------------------------------------
(* Reads *)

(* A flight that moves on and leaves the caches alone, *)
LEMMA FlightMoves ==
    ASSUME IInv, NEW r \in Replicas, NEW f \in Flights, f.val \in Past(ver),
           flight' = [flight EXCEPT ![r] = f], UNCHANGED <<stored, ver, entry, write, why>>
    PROVE  IInv'
<1>1. TypeOK' /\ PastOnly'
  BY FlightFits, Known, Typed DEF IInv
<1>. QED
  BY <1>1, AllAccounted DEF IInv, Accounted

(* and one that puts an entry into a cache, or leaves it. *)
LEMMA FlightPuts ==
    ASSUME IInv, NEW r \in Replicas, NEW f \in Flights, f.val \in Past(ver),
           NEW x \in Caches, NEW e \in Entries, e \in Past(ver),
           flight' = [flight EXCEPT ![r] = f], entry' = [entry EXCEPT ![x] = e],
           UNCHANGED <<stored, ver, write>>, Explain({}, "late")
    PROVE  IInv'
<1>1. why' \in [Caches -> SUBSET Reasons]
  BY ExplainFits DEF IInv, Reasons
<1>2. TypeOK' /\ PastOnly'
  BY <1>1, FlightFits, EntryFits, Known, Typed DEF IInv
<1>. QED
  BY <1>2, CacheStep, AllAccounted

LEMMA TakeOffKeeps == ASSUME IInv, NEW r \in Replicas, TakeOff(r) PROVE IInv'
<1> DEFINE f == [at |-> "redis", val |-> Empty]
<1>1. f \in Flights /\ f.val \in Past(ver)
  BY Known DEF IInv, Flights, Past
<1>2. flight' = [flight EXCEPT ![r] = f] /\ UNCHANGED <<stored, ver, entry, write, why>>
  BY DEF TakeOff
<1>. HIDE DEF f
<1>. QED
  BY <1>1, <1>2, FlightMoves

LEMMA GetRedisKeeps == ASSUME IInv, NEW r \in Replicas, GetRedis(r) PROVE IInv'
<1>1. PICK f \in {[at |-> "copy", val |-> entry[Redis]], [at |-> "load", val |-> Empty]} :
         /\ flight' = [flight EXCEPT ![r] = f]
         /\ f.at = "copy" => entry[Redis] # Miss
         /\ UNCHANGED <<stored, ver, entry, write, why>>
  BY DEF GetRedis
<1>2. f \in Flights /\ f.val \in Past(ver)
  BY <1>1, Known DEF IInv, Flights, Entries, Past
<1>. QED
  BY <1>1, <1>2, FlightMoves

LEMMA LoadKeeps == ASSUME IInv, NEW r \in Replicas, Load(r) PROVE IInv'
<1>1. PICK v \in {IF stored = Absent THEN Empty ELSE stored} \cup {Empty} :
         /\ flight' = [flight EXCEPT ![r] = [at |-> "fill", val |-> v]]
         /\ UNCHANGED <<stored, ver, entry, write, why>>
  BY DEF Load
<1> DEFINE f == [at |-> "fill", val |-> v]
<1>2. v \in Records \cup {Empty} /\ v \in Past(ver)
  BY Known DEF IInv, Past
<1>3. f \in Flights /\ f.val \in Past(ver)
  BY <1>2 DEF Flights
<1>. HIDE DEF f
<1>. QED
  BY <1>1, <1>3, FlightMoves DEF f

(* What is in flight may be put into a cache. *)
LEMMA FlightVal ==
    ASSUME IInv, NEW r \in Replicas
    PROVE  flight[r] \in Flights /\ flight[r].val \in Entries /\ flight[r].val \in Past(ver)
BY Known DEF IInv, Flights, Entries

LEMMA CopyKeeps == ASSUME IInv, NEW r \in Replicas, Copy(r) PROVE IInv'
<1>1. Landed \in Flights /\ Landed.val \in Past(ver) /\ r \in Caches
  BY LandedFits, Known DEF IInv, Landed
<1>. QED
  BY <1>1, FlightVal, FlightPuts DEF Copy

LEMMA FillKeeps == ASSUME IInv, NEW r \in Replicas, Fill(r) PROVE IInv'
<1> DEFINE f == [flight[r] EXCEPT !.at = "setnx"]
<1>1. f \in Flights /\ f.val = flight[r].val /\ r \in Caches
  BY FlightVal DEF Flights, Caches
<1>2. flight' = [flight EXCEPT ![r] = f]
  BY DEF Fill
<1>. HIDE DEF f
<1>. QED
  BY <1>1, <1>2, FlightVal, FlightPuts DEF Fill

LEMMA SetNXKeeps == ASSUME IInv, NEW r \in Replicas, SetNX(r) PROVE IInv'
<1>1. Landed \in Flights /\ Landed.val \in Past(ver) /\ Redis \in Caches
  BY LandedFits, Known DEF IInv, Landed
<1>2. PICK e \in {entry[Redis], flight[r].val} : entry' = [entry EXCEPT ![Redis] = e]
  <2>1. entry = [entry EXCEPT ![Redis] = entry[Redis]]
    BY Known DEF IInv
  <2>. QED
    BY <2>1 DEF SetNX
<1>3. e \in Entries /\ e \in Past(ver)
  BY <1>1, Known, FlightVal DEF IInv
<1>. QED
  BY <1>1, <1>2, <1>3, FlightPuts DEF SetNX

-----------------------------------------------------------------------------
(* Writes *)

LEMMA PastGrows == ASSUME ver \in Records, ver' = ver + 1 PROVE Past(ver) \subseteq Past(ver')
BY CacheAssumption DEF Past, Records

LEMMA ApplyKeeps == ASSUME IInv, NEW w \in Writers, NEW r \in Replicas, Apply(w, r) PROVE IInv'
<1>1. PICK op \in {"create", "update", "delete"} :
        /\ ver' = ver + 1
        /\ stored' = IF op = "delete" THEN Absent ELSE ver + 1
        /\ \/ /\ write' = [write EXCEPT ![w] =
                     [at |-> "local", home |-> r, put |-> IF op = "create" THEN stored' ELSE Miss]]
              /\ Explain(Replicas \ {r}, "elsewhere")
           \/ /\ UNCHANGED write
              /\ Explain(Caches, "failed")
  BY DEF Apply
<1>2. ver < MaxWrites /\ write[w].at = "idle" /\ UNCHANGED <<entry, flight>>
  BY DEF Apply
<1>3. ver' \in Records /\ ver' \notin Past(ver) /\ Past(ver) \subseteq Past(ver')
  BY <1>1, <1>2, Known, PastGrows, CacheAssumption DEF IInv, Records, Past, Absent
<1>4. stored' \in {Absent, ver'} /\ ver' \in Past(ver') /\ Absent \in Past(ver')
  BY <1>1, <1>3 DEF Past, Records
<1> DEFINE s == [at |-> "local", home |-> r, put |-> IF op = "create" THEN stored' ELSE Miss]
<1>5. s \in Writes /\ s.put \in Past(ver') /\ s.put \in {ver', Miss} /\ s.home = r /\ s.at = "local"
  BY <1>1, <1>3, <1>4, Known DEF IInv, Writes
<1>. HIDE DEF s
<1>6. why' \in [Caches -> SUBSET Reasons]
  BY <1>1, ExplainFits DEF IInv, Reasons
<1>7. write' \in [Writers -> Writes] /\ \A v \in Writers : write'[v].put \in Past(ver')
  BY <1>1, <1>3, <1>5, Known DEF IInv, s
<1>8. TypeOK' /\ PastOnly'
  BY <1>2, <1>3, <1>4, <1>6, <1>7, Known, Typed DEF IInv
<1>9. ASSUME NEW c \in Caches, Stale(entry'[c], stored'), why'[c] = {}
      PROVE  \E v \in Writers : Replaces(write', v, c, entry'[c])
  <2>1. /\ write' = [write EXCEPT ![w] = s] /\ c \notin Replicas \ {r}
        /\ why[c] = {} /\ entry'[c] = entry[c]
    BY <1>1, <1>9, ExplainLeaves DEF s
  <2>2. c \in {r, Redis}
    BY <2>1 DEF Caches
  <2>3. entry[c] \in Records /\ entry[c] \in Past(ver)
    BY <1>9, <2>1, Known DEF IInv, Stale
  <2>4. s.put # entry[c]
    BY <1>3, <1>5, <2>3, CacheAssumption DEF Records
  <2>5. write'[w] = s
    BY <2>1, Known DEF IInv
  <2>. QED
    BY <1>5, <2>1, <2>2, <2>4, <2>5 DEF Replaces
<1>. QED
  BY <1>8, <1>9, AllAccounted

LEMMA PutLocalKeeps == ASSUME IInv, NEW w \in Writers, PutLocal(w) PROVE IInv'
<1> DEFINE s == [write[w] EXCEPT !.at = "redis"]
           x == write[w].home
<1>1. write[w] \in Writes /\ write[w].put \in Past(ver) /\ write[w].at = "local"
  BY Known DEF IInv, PutLocal
<1>2. /\ s \in Writes /\ s.put = write[w].put /\ s.at = "redis"
      /\ x \in Caches /\ write[w].put \in Entries /\ x # Redis
  BY <1>1, CacheAssumption DEF Writes, Caches, Entries
<1>3. /\ write' = [write EXCEPT ![w] = s] /\ entry' = [entry EXCEPT ![x] = write[w].put]
      /\ UNCHANGED <<stored, ver, flight>> /\ Explain({}, "late")
  BY DEF PutLocal
<1>. HIDE DEF s, x
<1>4. why' \in [Caches -> SUBSET Reasons]
  BY <1>3, ExplainFits DEF IInv, Reasons
<1>5. TypeOK' /\ PastOnly'
  BY <1>1, <1>2, <1>3, <1>4, WriteFits, EntryFits, Known, Typed DEF IInv
<1>6. ASSUME NEW c \in Caches, Stale(entry'[c], stored'), why'[c] = {}
      PROVE  \E v \in Writers : Replaces(write', v, c, entry'[c])
  <2>1. \A v \in Writers \ {w} : write'[v] = write[v]
    BY <1>3, Known DEF IInv
  <2>2. write'[w] = s /\ entry'[x] = write[w].put
    BY <1>2, <1>3, Known DEF IInv
  <2>3. CASE c = x
    BY <1>3, <1>6, <2>1, <2>2, <2>3, PutStep
  <2>4. CASE c # x
    <3>1. Replaces(write, w, c, entry[c]) => Replaces(write', w, c, entry[c])
      BY <1>2, <2>2, <2>4 DEF Replaces, x
    <3>. QED
      BY <1>3, <1>6, <2>1, <3>1, PutStep
  <2>. QED
    BY <2>3, <2>4
<1>. QED
  BY <1>5, <1>6, AllAccounted

LEMMA PutRedisKeeps == ASSUME IInv, NEW w \in Writers, PutRedis(w) PROVE IInv'
<1>1. write[w] \in Writes /\ write[w].put \in Past(ver) /\ write[w].at = "redis" /\ Redis \in Caches
  BY Known DEF IInv, PutRedis
<1>2. NoWrite \in Writes /\ NoWrite.put \in Past(ver) /\ write[w].put \in Entries
  BY <1>1, LandedFits, Known DEF IInv, NoWrite, Writes, Entries
<1>3. write' = [write EXCEPT ![w] = NoWrite] /\ UNCHANGED <<stored, ver, flight>>
  BY DEF PutRedis
<1>4. \/ entry' = [entry EXCEPT ![Redis] = write[w].put] /\ Explain({}, "late")
      \/ UNCHANGED entry /\ Explain({Redis}, "failed")
  BY DEF PutRedis
<1>5. why' \in [Caches -> SUBSET Reasons]
  BY <1>4, ExplainFits DEF IInv, Reasons
<1>6. TypeOK' /\ PastOnly'
  BY <1>1, <1>2, <1>3, <1>4, <1>5, WriteFits, EntryFits, Known, Typed DEF IInv
<1>7. ASSUME NEW c \in Caches, Stale(entry'[c], stored'), why'[c] = {}
      PROVE  \E v \in Writers : Replaces(write', v, c, entry'[c])
  <2>1. \A v \in Writers \ {w} : write'[v] = write[v]
    BY <1>3, Known DEF IInv
  <2>2. CASE c = Redis
    <3>1. entry'[c] = write[w].put /\ Explain({}, "late")
      BY <1>1, <1>4, <1>7, <2>2, ExplainLeaves, Known DEF IInv
    <3>. QED
      BY <1>3, <1>7, <2>1, <3>1, PutStep
  <2>3. CASE c # Redis
    <3>1. ~Replaces(write, w, c, entry[c])
      BY <1>1, <2>3 DEF Replaces
    <3>. QED
      BY <1>3, <1>4, <1>7, <2>1, <3>1, PutStep
  <2>. QED
    BY <2>2, <2>3
<1>. QED
  BY <1>6, <1>7, AllAccounted

LEMMA ChangeOwnerKeeps == ASSUME IInv, ChangeOwner PROVE IInv'
<1>1. /\ ver < MaxWrites /\ ver' = ver + 1 /\ stored' = ver' /\ UNCHANGED <<entry, flight, write>>
      /\ Explain(Caches, "owner")
  BY DEF ChangeOwner
<1>2. ver' \in Records /\ Past(ver) \subseteq Past(ver') /\ stored' \in Past(ver')
  BY <1>1, Known, PastGrows, CacheAssumption DEF IInv, Records, Past
<1>3. why' \in [Caches -> SUBSET Reasons]
  BY <1>1, ExplainFits DEF IInv, Reasons
<1>4. TypeOK' /\ PastOnly'
  BY <1>1, <1>2, <1>3, Known, Typed DEF IInv
<1>. QED
  BY <1>1, <1>4, ExplainLeaves, AllAccounted

-----------------------------------------------------------------------------
(* Expiry and crashes *)

LEMMA DropKeeps == ASSUME IInv, DropRedis \/ \E r \in Replicas : DropLocal(r) PROVE IInv'
<1>1. PICK x \in Caches : /\ entry' = [entry EXCEPT ![x] = Miss] /\ Explain({}, "late")
                          /\ UNCHANGED <<stored, ver, flight, write>>
  BY DEF DropRedis, DropLocal, Caches
<1>2. why' \in [Caches -> SUBSET Reasons]
  BY <1>1, ExplainFits DEF IInv, Reasons
<1>3. TypeOK' /\ PastOnly'
  BY <1>1, <1>2, EntryFits, Known, Typed DEF IInv
<1>. QED
  BY <1>1, <1>3, CacheStep, AllAccounted

LEMMA CrashKeeps == ASSUME IInv, NEW r \in Replicas, Crash(r) PROVE IInv'
<1> DEFINE x == IF write' = write THEN {} ELSE {Redis}
<1>1. /\ entry' = [entry EXCEPT ![r] = Miss] /\ flight' = [flight EXCEPT ![r] = Landed]
      /\ write' = [w \in Writers |-> IF write[w].home = r THEN NoWrite ELSE write[w]]
      /\ UNCHANGED <<stored, ver>> /\ Explain(x, "failed")
  BY DEF Crash
<1>2. r \in Caches /\ r # Redis
  BY CacheAssumption DEF Caches
<1>3. Landed \in Flights /\ Landed.val \in Past(ver) /\ NoWrite \in Writes /\ NoWrite.put \in Past(ver)
  BY LandedFits, Known DEF IInv, Landed, NoWrite
<1>4. write' \in [Writers -> Writes] /\ \A w \in Writers : write'[w].put \in Past(ver)
  BY <1>1, <1>3, Known DEF IInv
<1>5. why' \in [Caches -> SUBSET Reasons]
  BY <1>1, ExplainFits DEF IInv, Reasons
<1>6. TypeOK' /\ PastOnly'
  BY <1>1, <1>2, <1>3, <1>4, <1>5, FlightFits, EntryFits, Known, Typed DEF IInv
<1>7. ASSUME NEW c \in Caches, Stale(entry'[c], stored'), why'[c] = {}
      PROVE  \E w \in Writers : Replaces(write', w, c, entry'[c])
  <2>1. why[c] = {} /\ entry'[c] = entry[c] /\ c \notin x
    BY <1>1, <1>7, ExplainLeaves
  <2>2. c # r
    <3>1. entry'[r] = Miss
      BY <1>1, <1>2, Known DEF IInv
    <3>. QED
      BY <1>7, <3>1, CacheAssumption DEF Stale, Records
  <2>3. PICK w \in Writers : Replaces(write, w, c, entry[c])
    BY <1>1, <1>7, <2>1 DEF IInv, Accounted
  <2>4. write'[w] = write[w]
    BY <1>1, <2>1, <2>2, <2>3 DEF Replaces
  <2>. QED
    BY <2>1, <2>3, <2>4 DEF Replaces
<1>. QED
  BY <1>6, <1>7, AllAccounted

-----------------------------------------------------------------------------
(* Theorems *)

LEMMA InitHolds == Init => IInv
<1>. SUFFICES ASSUME Init PROVE IInv
  OBVIOUS
<1>1. TypeOK
  BY LandedFits, CacheAssumption DEF Init, TypeOK, Records, Entries, Flights, Writes
<1>2. PastOnly
  <2>1. {Absent, 1, Miss, Empty} \subseteq Past(ver)
    BY CacheAssumption DEF Init, Past, Records
  <2>2. Landed.val = Empty /\ NoWrite.put = Miss
    BY DEF Landed, NoWrite
  <2>. QED
    BY <2>1, <2>2 DEF Init, PastOnly
<1>3. \A x \in Caches : Accounted(x)
  BY CacheAssumption DEF Init, Accounted, Stale, Records
<1>. QED
  BY <1>1, <1>2, <1>3 DEF IInv

LEMMA NextKeeps == ASSUME IInv, [Next]_vars PROVE IInv'
<1>1. ASSUME NEW r \in Replicas, TakeOff(r) \/ Fly(r) \/ DropLocal(r) \/ Crash(r) PROVE IInv'
  BY <1>1, TakeOffKeeps, GetRedisKeeps, CopyKeeps, LoadKeeps, FillKeeps, SetNXKeeps, DropKeeps,
     CrashKeeps DEF Fly
<1>2. ASSUME NEW w \in Writers, Finish(w) \/ \E r \in Replicas : Apply(w, r) PROVE IInv'
  BY <1>2, ApplyKeeps, PutLocalKeeps, PutRedisKeeps DEF Finish
<1>3. CASE ChangeOwner \/ DropRedis
  BY <1>3, ChangeOwnerKeeps, DropKeeps
<1>4. CASE UNCHANGED vars
  <2>1. TypeOK' /\ PastOnly'
    BY <1>4 DEF vars, IInv, TypeOK, PastOnly
  <2>. QED
    BY <1>4, <2>1, AllAccounted DEF vars, IInv, Accounted
<1>. QED
  BY <1>1, <1>2, <1>3, <1>4 DEF Next

(* What every reachable state of the caches satisfies. *)
THEOREM Invariance == Spec => []IInv
BY InitHolds, NextKeeps, PTL DEF Spec

(* Every variable stays in its set (storage_cache.go, records). *)
THEOREM TypeCorrect == Spec => []TypeOK
<1>1. IInv => TypeOK
  BY DEF IInv
<1>. QED
  BY <1>1, Invariance, PTL

(* A cached record that the storage does not have any more has a reason, whichever *)
(* reads, writes, expirations and deaths come between (storage_cache.go).          *)
THEOREM StaleHasReason == Spec => []StaleRecordExplained
<1>1. IInv => StaleRecordExplained
  BY DEF IInv, Accounted, Replaces, StaleRecordExplained, Pending
<1>. QED
  BY <1>1, Invariance, PTL
=============================================================================
