----------------------------- MODULE PageCache -----------------------------
(***************************************************************************)
(* storage/storage_cache.go: the cached pages of the subscriptions of one  *)
(* interest, and the sweep of UnsubscribeByInterest that goes through      *)
(* them.  As for records (module RecordCache) every replica has a local    *)
(* cache before the Redis that all share, and the cache itself is the      *)
(* external library go-redis/cache.  The key of a page is the cursor that  *)
(* it follows: its limit is not part of the key.                           *)
(*                                                                         *)
(* A write drops the pages that it reaches from the first one, in the      *)
(* sight of its replica, up to a page that is missing or empty.            *)
(*                                                                         *)
(* The contents of a subscription are abstracted to the number of the      *)
(* write that made them, and a page to a function from urls to contents.   *)
(***************************************************************************)
EXTENDS Naturals, FiniteSetsExt

CONSTANTS
    Replicas,   \* the processes, each with a local cache
    Urls,       \* the subscription keys of the interest, in their order
    Limits,     \* the page limits that callers ask for, that of the sweep included
    SweepLimit, \* the page limit of UnsubscribeByInterest
    Calls,      \* concurrent calls
    MaxWrites,  \* bound on the writes that take effect, those before the start included
    MaxCalls,   \* bound on the calls, those under way together included
    MaxEvents,  \* bound on expirations, failures, deaths and changes of owner together
    Redis,      \* the cache that the replicas share
    Miss,       \* no entry
    Empty       \* an entry without bytes: what the failure of a load leaves

ASSUME PageAssumption ==
    /\ Urls \subseteq Nat \ {0} /\ IsFiniteSet(Urls) /\ MaxWrites \in Nat \ {0}
    /\ Limits \subseteq Nat \ {0} /\ SweepLimit \in Limits
    /\ MaxCalls \in Nat /\ MaxEvents \in Nat
    /\ Redis \notin Replicas

VARIABLES
    stored,     \* per url, the live subscription in the storage
    since,      \* per url, the oldest contents that name its present owner
    ver,        \* the number of the last write
    entry,      \* per cache and cursor, the page
    call,       \* the calls
    begun,      \* the number of calls begun
    events,     \* the number of expirations, failures, deaths and changes of owner
    excused     \* history: the stale pages, by cache and cursor, that no walk has to drop

vars == <<stored, since, ver, entry, call, begun, events, excused>>

(* No live subscription, and the cursor of the first page. *)
Absent == 0
First == 0

Contents == 1 .. MaxWrites
Cursors == {First} \cup Urls
Caches == Replicas \cup {Redis}

NoPage == [u \in {} |-> Absent]
PagesOfUrls == UNION {[s -> Contents] : s \in SUBSET Urls}
IsPage(e) == e \notin {Miss, Empty}
LastUrl(page) == Max(DOMAIN page)

ASSUME EntryAssumption == Miss # Empty /\ Miss \notin PagesOfUrls /\ Empty \notin PagesOfUrls

Live == {u \in Urls : stored[u] # Absent}

(* Mutant of PageAfter: $gte for $gt. *)
PageFrom(c, limit) ==
    LET after == {u \in Live : u \geq c}
    IN [u \in {v \in after : Cardinality({w \in after : w \leq v}) \leq limit} |-> stored[u]]

(* The page that the storage has after cursor c. *)
PageAfter(c, limit) ==
    LET after == {u \in Live : u > c}
    IN [u \in {v \in after : Cardinality({w \in after : w \leq v}) \leq limit} |-> stored[u]]

Stale(e, c) == IsPage(e) /\ \A limit \in Limits : e # PageAfter(c, limit)

Returned == [op |-> "none", at |-> "idle", home |-> Redis,
             cursor |-> First, limit |-> SweepLimit, page |-> Miss,
             from |-> First, todo |-> NoPage, kept |-> {}, misled |-> FALSE]

At(p, place) == call[p].at = place
Idle(p) == At(p, "idle")

(* What the environment may do, or fail to do. *)
Event == events < MaxEvents /\ events' = events + 1

(* The call p may begin. *)
Begins(p) == Idle(p) /\ begun < MaxCalls /\ begun' = begun + 1

(* The call p goes on at the given place. *)
Goto(p, place) == call' = [call EXCEPT ![p].at = place]

(* The walk of p is over, with an error or not: a sweep has more to delete. *)
Walked(p) ==
    call' = IF call[p].op = "sweep"
            THEN [call EXCEPT ![p].at = "delete", ![p].page = Miss, ![p].cursor = First]
            ELSE [call EXCEPT ![p] = Returned]

(* The urls that no sweep counts on any more. *)
Forget(cls, urls) == [p \in Calls |-> [cls[p] EXCEPT !.kept = @ \ urls]]

-----------------------------------------------------------------------------
(* Why entries are stale. *)

(* The cursors of the pages that a walk drops from cursor c on, in the caches e. *)
Chain(e, r, c) ==
    LET seen(d) == IF e[r][d] # Miss THEN e[r][d] ELSE e[Redis][d]
        chain[d \in Cursors] ==
            IF IsPage(seen(d)) /\ seen(d) # NoPage THEN {d} \cup chain[LastUrl(seen(d))] ELSE {}
    IN chain[c]

(* What the walk of a call is still going to drop: pairs of a cache and a cursor. *)
Doomed(e, cl) ==
    LET both == {cl.home, Redis}
        rest == Chain(e, cl.home, LastUrl(cl.page))
    IN IF cl.at = "walk" THEN both \X Chain(e, cl.home, cl.cursor)
       ELSE IF cl.at \in {"keep", "drop"} /\ cl.page \notin {Empty, NoPage}
            THEN both \X ({cl.cursor} \cup rest)
       ELSE IF cl.at = "dropRedis" THEN (both \X rest) \cup {<<Redis, cl.cursor>>}
       ELSE {}

DoomedBy(e, cls, ps) == UNION {Doomed(e, cls[p]) : p \in ps}

Places == Caches \X Cursors

(* The new value of excused, after a step of the calls ps.  A page that is put while  *)
(* the storage has something else was raced by a write.  The walk of a call that is   *)
(* not in ps may lose the way to a page that it would have dropped.  For the places   *)
(* in reasons there is another reason.                                                *)
Explain(ps, reasons) ==
    LET cut == DoomedBy(entry, call, Calls \ ps) \ DoomedBy(entry', call', Calls)
    IN excused' = {e \in Places :
           /\ Stale(entry[e[1]][e[2]], e[2])'
           /\ \/ entry'[e[1]][e[2]] # entry[e[1]][e[2]]
              \/ e \in excused \cup cut \cup reasons}

-----------------------------------------------------------------------------
(* ListByInterest.  A read that finds an entry in the local cache changes nothing: it *)
(* answers the page, or falls back on the storage when the entry has no bytes.        *)

(* Once: no entry in the local cache, and no flight for the key that it could join. *)
MayTakeOff(r, c) ==
    /\ entry[r][c] = Miss
    /\ \A p \in Calls : call[p].home = r /\ call[p].cursor = c =>
           call[p].at \notin {"redis", "copy", "load", "fill", "setnx"}

List(p, r, c, limit) ==
    /\ Begins(p)
    /\ MayTakeOff(r, c)
    /\ call' = [call EXCEPT ![p] = [Returned EXCEPT
           !.op = "list", !.at = "redis", !.home = r, !.cursor = c, !.limit = limit]]
    /\ UNCHANGED <<stored, since, ver, entry, events, excused>>

(* The entry e is answered.  A sweep is misled by a page that the storage would not *)
(* give; its last page is empty, and an entry without bytes makes it read again.    *)
Answer(p, e) ==
    LET reads == [call[p] EXCEPT !.page = Miss, !.cursor = First]
        taken == [reads EXCEPT !.todo = e, !.misled = call[p].misled \/ Stale(e, call[p].from)]
    IN \/ /\ call[p].op = "list"
          /\ call' = [call EXCEPT ![p] = Returned]
       \/ /\ call[p].op = "sweep" /\ e = Empty
          /\ call' = [call EXCEPT ![p] = [reads EXCEPT !.at = "fallback"]]
       \/ /\ call[p].op = "sweep" /\ e = NoPage
          /\ call' = [call EXCEPT ![p] = [taken EXCEPT !.at = "swept"]]
       \/ /\ call[p].op = "sweep" /\ e \notin {Empty, NoPage}
          /\ call' = [call EXCEPT ![p] = [taken EXCEPT !.at = "delete", !.from = LastUrl(e)]]

(* Redis has the entry: it is copied to the local cache as well. *)
GetRedis(p) ==
    /\ At(p, "redis")
    /\ LET e == entry[Redis][call[p].cursor]
       IN \/ e # Miss /\ call' = [call EXCEPT ![p].at = "copy", ![p].page = e] /\ UNCHANGED events
          \/ e = Miss /\ Goto(p, "load") /\ UNCHANGED events
          \/ e # Miss /\ Goto(p, "load") /\ Event
    /\ UNCHANGED <<stored, since, ver, entry, begun, excused>>

(* The function load: an error of the storage is swallowed and leaves no bytes. *)
Load(p) ==
    /\ At(p, "load")
    /\ \E v \in {PageAfter(call[p].cursor, call[p].limit), Empty} :
          /\ call' = [call EXCEPT ![p].at = "fill", ![p].page = v]
          /\ IF v = Empty THEN Event ELSE UNCHANGED events
    /\ UNCHANGED <<stored, since, ver, entry, begun, excused>>

(* What was found or loaded goes to the local cache, *)
Fill(p) ==
    /\ call[p].at \in {"copy", "fill"}
    /\ entry' = [entry EXCEPT ![call[p].home][call[p].cursor] = call[p].page]
    /\ IF At(p, "fill") THEN Goto(p, "setnx") ELSE Answer(p, call[p].page)
    /\ UNCHANGED <<stored, since, ver, begun, events>>
    /\ Explain({p}, {})

(* and what was loaded then to Redis, unless there is an entry (SetNX: true). *)
SetNX(p) ==
    /\ At(p, "setnx")
    /\ \/ /\ entry' = [entry EXCEPT ![Redis][call[p].cursor] = IF @ = Miss THEN call[p].page ELSE @]
          /\ UNCHANGED events
       \/ Event /\ UNCHANGED entry
    /\ Answer(p, call[p].page)
    /\ UNCHANGED <<stored, since, ver, begun>>
    /\ Explain({p}, {})

-----------------------------------------------------------------------------
(* Create, Update and Delete.  A call that the storage refuses leaves the caches alone. *)

(* After the storage took the write of p, the walk of invalidatePages begins on its *)
(* replica r.  It will not see the local caches of other replicas, an empty page,   *)
(* nor a page beyond one that is missing or empty.                                  *)
Unreached(r) ==
    {e \in Places : \/ e[1] \notin {r, Redis}
                    \/ entry[e[1]][e[2]] = NoPage
                    \/ e[2] \notin Chain(entry, r, First)}

(* The write of contents v on u by call p, whose replica r has the reply or, its *)
(* process being about to stop, never gets it.                                   *)
Store(p, r, u, v, started) ==
    /\ stored' = [stored EXCEPT ![u] = v]
    /\ ver' = IF v = Absent THEN ver ELSE v
    /\ UNCHANGED entry
    /\ \/ /\ UNCHANGED events
          /\ call' = Forget([call EXCEPT ![p] = started], IF v = Absent THEN {u} ELSE {})
          /\ Explain({p}, Unreached(r))
       \/ /\ Event
          /\ call' = Forget([call EXCEPT ![p] = Returned], IF v = Absent THEN {u} ELSE {})
          /\ Explain({p}, Places)

Walking(cl) == [cl EXCEPT !.at = "walk", !.cursor = First, !.page = Miss]

Write(p, r, u) ==
    /\ Begins(p)
    /\ LET started == Walking([Returned EXCEPT !.op = "write", !.home = r])
       IN \/ /\ stored[u] = Absent                              \* Create, by the last owner or not
             /\ ver < MaxWrites
             /\ \E s \in {since[u], ver + 1} : since' = [since EXCEPT ![u] = s]
             /\ Store(p, r, u, ver + 1, started)
          \/ /\ stored[u] # Absent                              \* Update
             /\ ver < MaxWrites
             /\ UNCHANGED since
             /\ Store(p, r, u, ver + 1, started)
          \/ /\ stored[u] # Absent                              \* Delete
             /\ UNCHANGED since
             /\ Store(p, r, u, Absent, started)

(* invalidatePages: the entry of the cursor, in the local cache or else in Redis.  *)
(* A missing entry, one without bytes, an empty page and an error end the walk.    *)
Walk(p) ==
    /\ At(p, "walk")
    /\ UNCHANGED <<stored, since, ver, entry, begun>>
    /\ LET local == entry[call[p].home][call[p].cursor]
           redis == entry[Redis][call[p].cursor]
       IN \/ /\ local \notin {Miss, Empty, NoPage}
             /\ call' = [call EXCEPT ![p].at = "drop", ![p].page = local]
             /\ UNCHANGED <<events, excused>>
          \/ /\ local = Miss /\ redis # Miss
             /\ call' = [call EXCEPT ![p].at = "keep", ![p].page = redis]
             /\ UNCHANGED <<events, excused>>
          \/ /\ local \in {Empty, NoPage} \/ (local = Miss /\ redis = Miss)
             /\ Walked(p)
             /\ UNCHANGED <<events, excused>>
          \/ /\ local = Miss /\ redis # Miss
             /\ Event
             /\ Walked(p)
             /\ Explain({p}, Doomed(entry, call[p]))

(* An entry that the walk got from Redis is copied to the local cache. *)
Keep(p) ==
    /\ At(p, "keep")
    /\ entry' = [entry EXCEPT ![call[p].home][call[p].cursor] = call[p].page]
    /\ IF call[p].page \in {Empty, NoPage} THEN Walked(p) ELSE Goto(p, "drop")
    /\ UNCHANGED <<stored, since, ver, begun, events>>
    /\ Explain({p}, {})

(* cache.Delete: the local cache first, *)
Drop(p) ==
    /\ At(p, "drop")
    /\ entry' = [entry EXCEPT ![call[p].home][call[p].cursor] = Miss]
    /\ Goto(p, "dropRedis")
    /\ UNCHANGED <<stored, since, ver, begun, events>>
    /\ Explain({p}, {})

(* Mutant of DropRedis: only the first page is dropped. *)
DropRedisFirst(p) ==
    /\ At(p, "dropRedis")
    /\ UNCHANGED <<stored, since, ver, begun, events>>
    /\ entry' = [entry EXCEPT ![Redis][call[p].cursor] = Miss]
    /\ Walked(p)
    /\ Explain({p}, {})

(* then Redis.  The walk goes on after the last url of the page; an error ends it. *)
DropRedis(p) ==
    /\ At(p, "dropRedis")
    /\ UNCHANGED <<stored, since, ver, begun>>
    /\ \/ /\ entry' = [entry EXCEPT ![Redis][call[p].cursor] = Miss]
          /\ call' = [call EXCEPT ![p].at = "walk", ![p].cursor = LastUrl(call[p].page), ![p].page = Miss]
          /\ UNCHANGED events
          /\ Explain({p}, {})
       \/ /\ Event
          /\ UNCHANGED entry
          /\ Walked(p)
          /\ Explain({p}, Doomed(entry, call[p]))

(* ChangeOwner changes subscriptions and no cache. *)
ChangeOwner ==
    /\ Event
    /\ ver < MaxWrites
    /\ ver' = ver + 1
    /\ \E s \in (SUBSET Live) \ {{}} :
          /\ stored' = [u \in Urls |-> IF u \in s THEN ver + 1 ELSE stored[u]]
          /\ since' = [u \in Urls |-> IF u \in s THEN ver + 1 ELSE since[u]]
    /\ UNCHANGED <<entry, call, begun>>
    /\ Explain({}, Places)

-----------------------------------------------------------------------------
(* UnsubscribeByInterest: page after page, every subscription is deleted. *)

Sweep(p, r) ==
    /\ Begins(p)
    /\ call' = [call EXCEPT ![p] = [Returned EXCEPT
           !.op = "sweep", !.at = "delete", !.home = r, !.kept = Live]]
    /\ UNCHANGED <<stored, since, ver, entry, events, excused>>

(* The page is done, the next one follows its last url: ListByInterest answers what *)
(* it finds in the local cache, or takes off.                                       *)
SweepList(p) ==
    /\ At(p, "delete")
    /\ call[p].todo = NoPage
    /\ LET r == call[p].home  c == call[p].from
       IN \/ entry[r][c] # Miss /\ Answer(p, entry[r][c])
          \/ MayTakeOff(r, c) /\ call' = [call EXCEPT ![p].at = "redis", ![p].cursor = c]
    /\ UNCHANGED <<stored, since, ver, entry, begun, events, excused>>

(* The cached entry has no bytes: the storage is asked, whose error ends the sweep. *)
SweepFallback(p) ==
    /\ At(p, "fallback")
    /\ \/ Answer(p, PageAfter(call[p].from, SweepLimit)) /\ UNCHANGED events
       \/ Event /\ call' = [call EXCEPT ![p] = Returned]
    /\ UNCHANGED <<stored, since, ver, entry, begun, excused>>

(* Mutant of SweepDelete: a subscription that is not found ends the page. *)
SweepDeleteBreak(p) ==
    /\ At(p, "delete")
    /\ call[p].todo # NoPage
    /\ UNCHANGED <<since, begun>>
    /\ LET u == Min(DOMAIN call[p].todo)
           rest == [v \in (DOMAIN call[p].todo) \ {u} |-> call[p].todo[v]]
           found == u \in Live /\ call[p].todo[u] \geq since[u]
       IN \/ /\ found
             /\ Store(p, call[p].home, u, Absent, Walking([call[p] EXCEPT !.todo = rest]))
          \/ /\ ~found
             /\ call' = [call EXCEPT ![p].todo = NoPage, ![p].misled = call[p].misled \/ u \in Live]
             /\ UNCHANGED <<stored, ver, entry, events, excused>>

(* Delete, in the name of the owner that the page has: a subscription that is not *)
(* found under that owner is passed over, an error ends the sweep.                *)
SweepDelete(p) ==
    /\ At(p, "delete")
    /\ call[p].todo # NoPage
    /\ UNCHANGED <<since, begun>>
    /\ LET u == Min(DOMAIN call[p].todo)
           rest == [v \in (DOMAIN call[p].todo) \ {u} |-> call[p].todo[v]]
           found == u \in Live /\ call[p].todo[u] \geq since[u]
       IN \/ /\ found
             /\ Store(p, call[p].home, u, Absent, Walking([call[p] EXCEPT !.todo = rest]))
          \/ /\ ~found
             /\ call' = [call EXCEPT ![p].todo = rest, ![p].misled = call[p].misled \/ u \in Live]
             /\ UNCHANGED <<stored, ver, entry, events, excused>>
          \/ /\ Event
             /\ call' = [call EXCEPT ![p] = Returned]
             /\ UNCHANGED <<stored, ver, entry, excused>>

(* The sweep succeeded. *)
SweepEnds(p) ==
    /\ At(p, "swept")
    /\ call' = [call EXCEPT ![p] = Returned]
    /\ UNCHANGED <<stored, since, ver, entry, begun, events, excused>>

-----------------------------------------------------------------------------

(* The entry expires, or is evicted from a local cache. *)
Expire(x, c) ==
    /\ entry[x][c] # Miss
    /\ Event
    /\ entry' = [entry EXCEPT ![x][c] = Miss]
    /\ UNCHANGED <<stored, since, ver, call, begun>>
    /\ Explain({}, {})

(* The process dies with its local cache and its calls. *)
Crash(r) ==
    /\ Event
    /\ entry' = [entry EXCEPT ![r] = [c \in Cursors |-> Miss]]
    /\ call' = [p \in Calls |-> IF call[p].home = r THEN Returned ELSE call[p]]
    /\ UNCHANGED <<stored, since, ver, begun>>
    /\ Explain({}, DoomedBy(entry, call, Calls))

(* The replicas start on a storage that has some subscriptions from before, and a Redis *)
(* that has pages of them.                                                              *)
Init ==
    /\ stored \in [Urls -> {Absent, 1}]
    /\ since = [u \in Urls |-> 1]
    /\ ver = 1
    /\ \E limit \in Limits, cached \in SUBSET Cursors :
          entry = [x \in Caches |-> [c \in Cursors |->
              IF x = Redis /\ c \in cached THEN PageAfter(c, limit) ELSE Miss]]
    /\ call = [p \in Calls |-> Returned]
    /\ begun = 0
    /\ events = 0
    /\ excused = {}

GoOn(p) ==
    \/ GetRedis(p) \/ Load(p) \/ Fill(p) \/ SetNX(p)
    \/ Walk(p) \/ Keep(p) \/ Drop(p) \/ DropRedis(p)
    \/ SweepList(p) \/ SweepFallback(p) \/ SweepDelete(p) \/ SweepEnds(p)

Next ==
    \/ \E p \in Calls :
        \/ GoOn(p)
        \/ \E r \in Replicas :
            \/ Sweep(p, r)
            \/ \E u \in Urls : Write(p, r, u)
            \/ \E c \in Cursors, limit \in Limits : List(p, r, c, limit)
    \/ \E x \in Caches, c \in Cursors : Expire(x, c)
    \/ \E r \in Replicas : Crash(r)
    \/ ChangeOwner

Spec == Init /\ [][Next]_vars

-----------------------------------------------------------------------------

(* Every variable stays in its set, and a page has what follows its cursor. *)
TypeOK ==
    /\ stored \in [Urls -> {Absent} \cup Contents]
    /\ since \in [Urls -> Contents]
    /\ ver \in Contents /\ begun \in 0 .. MaxCalls /\ events \in 0 .. MaxEvents
    /\ \A x \in Caches, c \in Cursors :
        /\ entry[x][c] \in PagesOfUrls \cup {Miss, Empty}
        /\ IsPage(entry[x][c]) => \A u \in DOMAIN entry[x][c] : u > c
    /\ \A p \in Calls :
        /\ call[p].home \in Caches /\ call[p].cursor \in Cursors /\ call[p].from \in Cursors
        /\ call[p].page \in PagesOfUrls \cup {Miss, Empty} /\ call[p].todo \in PagesOfUrls
        /\ call[p].kept \subseteq Live
    /\ excused \subseteq Places

(* A cached page that differs from what the storage has is going to be dropped by a   *)
(* walk on its way, or there is a reason that invalidatePages does not reach it: it   *)
(* was put late, it is in the local cache of another replica, it is empty, or it is   *)
(* not on the chain of pages from the first one, that chain was cut in front of the   *)
(* walk, something failed, or the owner changed.                                      *)
StalePageExplained ==
    \A x \in Caches, c \in Cursors :
        Stale(entry[x][c], c) => <<x, c>> \in excused \cup DoomedBy(entry, call, Calls)

(* A sweep leaves a subscription behind that was live all the time since it began only *)
(* if it was answered a page that the storage would not have given, or the owner       *)
(* changed after the page was read: what a page leaves out is on a later one, whatever *)
(* the limits of the pages that others put into the cache.                             *)
CachedSweepComplete ==
    \A p \in Calls :
        call[p].op = "sweep" /\ ~call[p].misled =>
            \A u \in call[p].kept :
                \/ u > call[p].from /\ ~At(p, "swept")
                \/ u \in DOMAIN call[p].todo

(* ListByInterest answers an empty first page to a sweep only if nothing is left that *)
(* was live all the time since the sweep began: what TestStorageMongo_ListByInterest  *)
(* asks of a Storage, and what the end of UnsubscribeByInterest relies on.            *)
CreatedIsListed ==
    \A p \in Calls : At(p, "swept") /\ call[p].from = First => call[p].kept = {}
=============================================================================
