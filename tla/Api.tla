--------------------------------- MODULE Api ---------------------------------
(***************************************************************************)
(* One process as its callers see it: the HTTP handlers (api/http) with    *)
(* the authorization and the challenge of the receiver before them, the    *)
(* gRPC controller (api/grpc/controller.go), the service's calls, the pool *)
(* of connections to the usage service (usage/permits/client_pool.go), and *)
(* the status that every error ends up as.  An error is the set of the     *)
(* sentinel errors that errors.Is finds in it; {} is nil.                  *)
(*                                                                         *)
(* DeleteExtra is modelled with the loop that doubles its list limit, and  *)
(* the lists with the limit in options that all queries share              *)
(* (optsReadPage).  The subscriptions are those of one interest; the       *)
(* storage is used through its contract (module SubRegistry).              *)
(***************************************************************************)
EXTENDS Naturals, FiniteSetsExt

CONSTANTS
    Clients,    \* concurrent calls
    Followed,   \* the one of them that AnswersCome follows: they are interchangeable
    Users,      \* the owners of subscriptions
    Callers,    \* the users that make requests
    Keys,       \* the subscription urls, in their order
    None,       \* no user: nobody is subscribed
    Limits,     \* the limits that callers give
    Width,      \* the limits are numbers modulo Width (2^32 in the code)
    MaxConns,   \* size of the connection pool
    HttpOps,    \* the HTTP requests that are made
    GrpcOps     \* the gRPC calls that are made

ASSUME ApiAssumption ==
    /\ Keys \subseteq Nat /\ IsFiniteSet(Keys) /\ Callers \subseteq Users /\ None \notin Users
    /\ Width \in Nat \ {0} /\ Limits \subseteq 0 .. Width - 1
    /\ MaxConns \in Nat \ {0} /\ Followed \in Clients /\ IsFiniteSet(Clients)
    /\ HttpOps \subseteq {"subscribe", "unsubscribe", "read", "count", "listByUser", "listByUrl"}
    /\ GrpcOps \subseteq {"Update", "Delete", "ListByInterest", "Count", "CountUser",
                          "DeleteExtra", "ChangeOwner"}

VARIABLES
    live,       \* the user that owns the live subscription of a key
    opts,       \* the limit in optsReadPage
    free,       \* connections in the pool
    call        \* the calls

vars == <<live, opts, free, call>>

Owned(u) == {k \in Keys : live[k] = u}

(* The first n of the keys ks; a limit 0 is none. *)
Limited(ks, n) ==
    IF n = 0 THEN ks ELSE {k \in ks : Cardinality({j \in ks : j < k}) < n}

(* did: the storage took a write; permit: a permit is to be given back;          *)
(* excused: a reply was lost or a release failed.  For DeleteExtra, kept is what *)
(* the user has had all along, and misled that its list ran with another limit.  *)
Idle == [at |-> "idle", op |-> "none", user |-> None, key |-> 0, errs |-> {},
         limit |-> 0, list |-> 0, todo |-> {}, did |-> FALSE, permit |-> FALSE, excused |-> FALSE,
         kept |-> {}, misled |-> FALSE]

At(c, place) == call[c].at = place

Step(c, changed) == call' = [call EXCEPT ![c] = changed]

Goto(c, place) == call' = [call EXCEPT ![c].at = place]

(* The handler gets the error errs of its call and is about to answer. *)
Done(cl, errs) ==
    [cl EXCEPT !.at = "answer", !.errs = errs, !.user = None, !.key = 0, !.list = 0, !.todo = {},
               !.kept = IF errs = {} THEN @ ELSE {}, !.misled = errs = {} /\ @]

Ends(c, errs) == Step(c, Done(call[c], errs))

(* The keys ks are no longer what their users had all along. *)
Lost(calls, ks) == [c \in Clients |-> [calls[c] EXCEPT !.kept = @ \ ks]]

-----------------------------------------------------------------------------
(* Requests *)

(* What a request names: a user, a key, a limit.  HTTP limits are made positive. *)
UsersOf(op) == IF op \in {"count", "listByUrl", "Count", "ListByInterest"} THEN {None} ELSE Callers
KeysOf(op) == IF op \in {"subscribe", "unsubscribe", "read", "Update", "Delete"} THEN Keys ELSE {0}
LimitsOf(op) ==
    CASE op \in {"ListByInterest", "CountUser", "DeleteExtra"} -> Limits
      [] op = "listByUser" -> Limits \ {0}
      [] OTHER -> {0}

(* The call c begins: op, with its first step at the given place. *)
Begin(c, op, place) ==
    /\ At(c, "idle")
    /\ \E u \in UsersOf(op), k \in KeysOf(op), n \in LimitsOf(op) :
          Step(c, [Idle EXCEPT !.at = place, !.op = op, !.user = u, !.key = k,
                               !.limit = IF op = "DeleteExtra" THEN n ELSE 0, !.list = n,
                               !.todo = IF op = "Delete" THEN {k} ELSE {},
                               !.kept = IF op = "DeleteExtra" THEN Owned(u) ELSE {}])
    /\ UNCHANGED <<live, opts, free>>

(* What Authenticate makes of the status of the auth service, *)
AuthErrors == {"auth.ErrInvalidToken", "auth.ErrInvalidUserId", "auth.ErrInternal"}

(* and what parseRequest finds wrong: the secret, the callback, the mode, the topic or *)
(* the interval.                                                                       *)
RequestErrors == {"invalid request"}

(* An HTTP request that Authorize does not send on, or that is not valid. *)
Refuse(c) ==
    /\ HttpOps # {}
    /\ At(c, "idle")
    /\ \E e \in AuthErrors \cup RequestErrors : Ends(c, {e})
    /\ UNCHANGED <<live, opts, free>>

(* An HTTP request that Authorize sends on and that is valid. *)
Authorize(c) ==
    \E op \in HttpOps :
        Begin(c, op, CASE op \in {"subscribe", "unsubscribe"} -> "challenge"
                       [] op = "listByUser" -> "setLimit"
                       [] OTHER -> "query")

(* A call of the gRPC controller, whose callers are not authorized here. *)
Arrive(c) ==
    \E op \in GrpcOps :
        Begin(c, op, CASE op \in {"ListByInterest", "CountUser", "DeleteExtra"} -> "setLimit"
                       [] op = "Delete" -> "delete"
                       [] OTHER -> "query")

(* The receiver is asked for the challenge: it repeats it, answers something else, or *)
(* fails on the way.                                                                   *)
Challenge(c) ==
    /\ At(c, "challenge")
    /\ \/ /\ call[c].op = "subscribe"
          /\ Goto(c, "allocate?")
       \/ /\ call[c].op = "unsubscribe"
          /\ Step(c, [call[c] EXCEPT !.at = "delete", !.todo = {call[c].key}])
       \/ \E e \in {"errCallback", "network"} : Ends(c, {e})
    /\ UNCHANGED <<live, opts, free>>

-----------------------------------------------------------------------------
(* The usage service, through the pool of connections *)

(* connPool.Get waits for a connection. *)
Acquire(c) ==
    /\ free > 0
    /\ free' = free - 1
    /\ \/ At(c, "allocate?") /\ Goto(c, "allocate")
       \/ At(c, "release?") /\ Goto(c, "release")
    /\ UNCHANGED <<live, opts>>

(* The context of a gRPC call ends while it waits: that of an HTTP request never does. *)
GiveUp(c) ==
    /\ At(c, "release?")
    /\ call[c].op \in GrpcOps
    /\ Step(c, [Done(call[c], {"permits.ErrInternal"}) EXCEPT !.excused = TRUE])
    /\ UNCHANGED <<live, opts, free>>

(* Mutant of Allocate: a failed call gives its connection back, and again when it returns. *)
AllocatePutsTwice(c) ==
    /\ At(c, "allocate")
    /\ \/ /\ Step(c, [call[c] EXCEPT !.at = "create", !.permit = TRUE])
          /\ free' = free + 1
       \/ /\ Ends(c, {"permits.ErrInternal"})
          /\ free' = free + 2
    /\ UNCHANGED <<live, opts>>

(* Mutant of Allocate: a failed call keeps its connection. *)
AllocateKeepsConn(c) ==
    /\ At(c, "allocate")
    /\ \/ /\ Step(c, [call[c] EXCEPT !.at = "create", !.permit = TRUE])
          /\ free' = free + 1
       \/ /\ Ends(c, {"permits.ErrInternal"})
          /\ UNCHANGED free
    /\ UNCHANGED <<live, opts>>

(* Subscribe: a permit is granted, or not, or the call fails; its reply may be lost. *)
Allocate(c) ==
    /\ At(c, "allocate")
    /\ free' = free + 1
    /\ \/ Step(c, [call[c] EXCEPT !.at = "create", !.permit = TRUE])
       \/ Ends(c, {"service.ErrPermitExhausted"})
       \/ Ends(c, {"permits.ErrInternal"})
       \/ Step(c, [Done(call[c], {"permits.ErrInternal"}) EXCEPT !.permit = TRUE, !.excused = TRUE])
    /\ UNCHANGED <<live, opts>>

(* Mutant of Released: the error of the release replaces the other one. *)
ReleasedAlone(c, errs) ==
    LET left == call[c].todo \ {call[c].key}
    IN IF errs = {} /\ left # {}
       THEN [call[c] EXCEPT !.at = "delete", !.todo = left]
       ELSE Done(call[c], errs)

(* What follows the release of c: Subscribe answers, its error joined with that of   *)
(* the release; Unsubscribe answers that of the release, and DeleteExtra goes on     *)
(* with what is left unless there is one.                                            *)
Released(c, errs) ==
    LET left == call[c].todo \ {call[c].key}
        all == call[c].errs \cup errs
    IN IF all = {} /\ left # {}
       THEN [call[c] EXCEPT !.at = "delete", !.todo = left]
       ELSE Done(call[c], all)

Release(c) ==
    /\ At(c, "release")
    /\ free' = free + 1
    /\ \/ Step(c, [Released(c, {}) EXCEPT !.permit = FALSE])
       \/ \E kept \in BOOLEAN :
              Step(c, [Released(c, {"permits.ErrInternal"}) EXCEPT !.permit = kept, !.excused = TRUE])
    /\ UNCHANGED <<live, opts>>

-----------------------------------------------------------------------------
(* The storage *)

(* Subscribe: the creation takes effect, with or without a reply, *)
Created(c) ==
    /\ At(c, "create")
    /\ live[call[c].key] = None
    /\ live' = [live EXCEPT ![call[c].key] = call[c].user]
    /\ \/ Step(c, [Done(call[c], {}) EXCEPT !.did = TRUE, !.permit = FALSE])
       \/ Step(c, [call[c] EXCEPT !.at = "release?", !.did = TRUE, !.excused = TRUE,
                                  !.errs = {"service.ErrInternal"}, !.key = 0])
    /\ UNCHANGED <<opts, free>>

(* or is refused: the errors of the storage become those of the service. *)
NotCreated(c) ==
    /\ At(c, "create")
    /\ \E e \in {"service.ErrConflict", "service.ErrInternal"} :
          Step(c, [call[c] EXCEPT !.at = "release?", !.errs = {e}, !.key = 0])
    /\ UNCHANGED <<live, opts, free>>

(* Unsubscribe of the key whose turn it is. *)
Deleted(c) ==
    /\ At(c, "delete")
    /\ LET k == Min(call[c].todo)
           deletes == [call[c] EXCEPT !.key = k, !.did = TRUE, !.permit = TRUE]
       IN /\ live[k] = call[c].user
          /\ live' = [live EXCEPT ![k] = None]
          /\ \E next \in {[deletes EXCEPT !.at = "release?"],
                          [Done(deletes, {"service.ErrInternal"}) EXCEPT !.excused = TRUE]} :
                call' = Lost([call EXCEPT ![c] = next], {k})
    /\ UNCHANGED <<opts, free>>

NotDeleted(c) ==
    /\ At(c, "delete")
    /\ \/ live[Min(call[c].todo)] # call[c].user /\ Ends(c, {"service.ErrNotFound"})
       \/ Ends(c, {"service.ErrInternal"})
    /\ UNCHANGED <<live, opts, free>>

(* Read and Update match the live subscription of a key and a user. *)
Matched(cl) == live[cl.key] = cl.user

(* But a read asks the cache of records first, whose key leaves the user out and whose   *)
(* entries may be stale (module RecordCache): it may be answered what another user has,  *)
(* or no user any longer.                                                                *)
Found(cl) == {Matched(cl)} \cup (IF cl.op = "read" THEN {TRUE} ELSE {})

(* The calls that are one query: Update and Subscription, *)
Query(c) ==
    LET cl == call[c]
        writes == cl.op = "Update"
    IN /\ At(c, "query")
       /\ cl.op \in {"read", "Update"}
       /\ \/ TRUE \in Found(cl) /\ Step(c, [Done(cl, {}) EXCEPT !.did = writes])
          \/ FALSE \in Found(cl) /\ Ends(c, {"service.ErrNotFound"})
          \/ Ends(c, {"service.ErrInternal"})
          \/ /\ writes /\ TRUE \in Found(cl)
             /\ Step(c, [Done(cl, {"service.ErrInternal"}) EXCEPT !.did = TRUE, !.excused = TRUE])
       /\ UNCHANGED <<live, opts, free>>

(* and the counts and ListByUrl, which have an answer even if it is empty. *)
Total(c) ==
    /\ At(c, "query")
    /\ call[c].op \in {"count", "listByUrl", "Count"}
    /\ Ends(c, {}) \/ Ends(c, {"service.ErrInternal"})
    /\ UNCHANGED <<live, opts, free>>

(* ChangeOwner: all subscriptions of the user become another user's.  The errors of *)
(* the storage are passed on as they are.                                           *)
ChangeOwner(c) ==
    /\ At(c, "query")
    /\ call[c].op = "ChangeOwner"
    /\ \/ /\ \E u \in Users \ {call[c].user}, told \in BOOLEAN :
                /\ live' = [k \in Keys |-> IF live[k] = call[c].user THEN u ELSE live[k]]
                /\ call' = Lost([call EXCEPT ![c] =
                      [Done(@, IF told THEN {} ELSE {"storage.ErrInternal"}) EXCEPT
                          !.did = TRUE, !.excused = ~told]],
                      Owned(call[c].user))
       \/ Ends(c, {"storage.ErrInternal"}) /\ UNCHANGED live
    /\ UNCHANGED <<opts, free>>

(* ListByInterest and ListByUser write their limit into options that all calls share *)
SetLimit(c) ==
    /\ At(c, "setLimit")
    /\ opts' = call[c].list
    /\ Goto(c, "find")
    /\ UNCHANGED <<live, free>>

(* Mutant of LoopEnds: a full page is the last one. *)
LoopEndsFull(cl, page) == Cardinality(page) \leq cl.list

(* DeleteExtra: the page was not filled. *)
LoopEnds(cl, page) == Cardinality(page) < cl.list

(* Mutant of Doubled: the next list has the same limit. *)
NotDoubled(n) == n

(* DeleteExtra: the limit of the next list, which may overflow. *)
Doubled(n) == (2 * n) % Width

(* and read the limit from there for their query.  DeleteExtra doubles its limit until *)
(* the page is shorter, and deletes what the page has beyond the limit it was given.   *)
Find(c) ==
    LET cl == call[c]
        page == Limited(Owned(cl.user), opts)
        extra == page \ Limited(page, cl.limit)
        listed == [cl EXCEPT !.misled = opts # cl.list]
    IN /\ At(c, "find")
       /\ IF cl.op # "DeleteExtra"
          THEN Ends(c, {})
          ELSE IF ~LoopEnds(cl, page)
          THEN Step(c, [cl EXCEPT !.at = "setLimit", !.list = Doubled(@)])
          ELSE IF extra # {}
          THEN Step(c, [listed EXCEPT !.at = "delete", !.todo = extra])
          ELSE Step(c, Done(listed, {}))
       /\ UNCHANGED <<live, opts, free>>

(* The query fails: the service wraps the error for ListByInterest only.  A page with *)
(* a subscription of unknown format is an error as well.                              *)
FindFails(c) ==
    /\ At(c, "find")
    /\ \/ Ends(c, {IF call[c].op = "ListByInterest" THEN "service.ErrInternal" ELSE "storage.ErrInternal"})
       \/ call[c].op = "ListByInterest" /\ Ends(c, {"unknown format"})
    /\ UNCHANGED <<live, opts, free>>
-----------------------------------------------------------------------------
(* Answers *)

(* The switch statements, case by case: an error and its status. *)
AuthCases == <<<<"auth.ErrInvalidToken", "Unauthorized">>,
               <<"auth.ErrInvalidUserId", "BadRequest">>,
               <<"invalid request", "BadRequest">>>>
UpdateCases == <<<<"errCallback", "BadRequest">>,
                 <<"service.ErrNotFound", "NotFound">>,
                 <<"service.ErrConflict", "Conflict">>,
                 <<"service.ErrPermitExhausted", "TooManyRequests">>>>
ReadCases == <<<<"storage.ErrNotFound", "NotFound">>>>

(* The cases of io.EOF and of a deadline are never taken and are left out: the storage    *)
(* and the permits format the errors below them without wrapping, and the calls of the    *)
(* usage service, which are not streams, do not end with io.EOF.                          *)
GrpcCases == <<<<"service.ErrNotFound", "NotFound">>, <<"service.ErrInternal", "Internal">>>>

(* The first case that errors.Is takes, or the default. *)
Decide(cases, default, errs) ==
    LET hits == {i \in DOMAIN cases : cases[i][1] \in errs}
    IN IF hits = {} THEN default ELSE cases[Min(hits)][2]

Success(op) ==
    CASE op = "subscribe" -> "Accepted" [] op = "unsubscribe" -> "NoContent" [] OTHER -> "OK"

Status(op, errs) ==
    IF errs = {} THEN Success(op)
    ELSE CASE op \in GrpcOps -> Decide(GrpcCases, "Unknown", errs)
           [] op = "none" -> Decide(AuthCases, "InternalServerError", errs)
           [] op \in {"subscribe", "unsubscribe"} -> Decide(UpdateCases, "InternalServerError", errs)
           [] OTHER -> Decide(ReadCases, "InternalServerError", errs)

Answer(c) ==
    /\ At(c, "answer")
    /\ Step(c, Idle)
    /\ UNCHANGED <<live, opts, free>>

(* Count and DeleteExtra dereference the filter of the request, and no handler of the *)
(* gRPC server recovers: a call without a filter, like any other end of the process,  *)
(* takes all calls with it.                                                           *)
Die ==
    /\ call' = [c \in Clients |-> Idle]
    /\ opts' = 0
    /\ free' = MaxConns
    /\ UNCHANGED live

Init ==
    /\ live \in [Keys -> Users \cup {None}]
    /\ opts = 0
    /\ free = MaxConns
    /\ call = [c \in Clients |-> Idle]

Proceed(c) ==
    \/ Allocate(c) \/ Release(c)
    \/ Created(c) \/ NotCreated(c) \/ Deleted(c) \/ NotDeleted(c)
    \/ Query(c) \/ Total(c) \/ ChangeOwner(c) \/ SetLimit(c) \/ Find(c) \/ FindFails(c) \/ Answer(c)

Next ==
    \/ \E c \in Clients : Refuse(c) \/ Authorize(c) \/ Arrive(c) \/ Challenge(c) \/ Acquire(c) \/ GiveUp(c) \/ Proceed(c)
    \/ Die

Spec == Init /\ [][Next]_vars

(* Handlers are scheduled, the calls of the storage, the auth and the usage service end, *)
(* and the pool hands its connections out in turn.  Nothing is assumed of the receivers, *)
(* which are asked without a timeout.                                                    *)
FairSpec ==
    /\ Spec
    /\ \A c \in Clients : WF_vars(Proceed(c)) /\ SF_vars(Acquire(c))

-----------------------------------------------------------------------------

Errors == AuthErrors \cup RequestErrors \cup
    {"errCallback", "network", "unknown format", "service.ErrNotFound", "service.ErrConflict",
     "service.ErrInternal", "service.ErrPermitExhausted", "permits.ErrInternal",
     "storage.ErrInternal"}

Places == {"idle", "challenge", "allocate?", "allocate", "create",
           "release?", "release", "delete", "query", "setLimit", "find", "answer"}

Numbers == 0 .. Width - 1

CallRecords ==
    [at : Places, op : HttpOps \cup GrpcOps \cup {"none"}, user : Users \cup {None},
     key : Keys \cup {0}, errs : SUBSET Errors, limit : Numbers, list : Numbers,
     todo : SUBSET Keys, did : BOOLEAN, permit : BOOLEAN, excused : BOOLEAN,
     kept : SUBSET Keys, misled : BOOLEAN]

(* The calls that have a connection. *)
Holders == {c \in Clients : call[c].at \in {"allocate", "release"}}

(* Every variable stays in its set. *)
TypeOK ==
    /\ live \in [Keys -> Users \cup {None}]
    /\ opts \in Numbers
    /\ free \in 0 .. MaxConns
    /\ call \in [Clients -> CallRecords]

(* No connection is lost or doubled: each is in the pool or in the hands of the one call  *)
(* that made its request on it, whatever became of the request, of the call that waits    *)
(* for one with a context that ends, and of the answer (permits/service.go gives the      *)
(* connection back on every path, client_pool.go holds no more than it was given).        *)
ConnsConserved == free + Cardinality(Holders) = MaxConns

(* The call c answers, and was one of ops. *)
Answers(c, ops) == At(c, "answer") /\ call[c].op \in ops

(* The answer tells what became of a write.  After a success the storage took it and no  *)
(* permit is left over; a refusal of any kind (4xx, NotFound) leaves the storage alone;  *)
(* and if the storage took a write that is answered as a failure, or a permit is left    *)
(* over, then a reply was lost or a release failed (handler.update, encodeError,         *)
(* service.Subscribe and Unsubscribe with their joined errors).                          *)
AnswersTell ==
    \A c \in Clients :
        Answers(c, {"none", "subscribe", "unsubscribe", "Update", "Delete", "ChangeOwner"}) =>
            LET cl == call[c]
                status == Status(cl.op, cl.errs)
                ok == status = Success(cl.op)
            IN /\ ok => cl.did /\ ~cl.permit
               /\ status \notin {"InternalServerError", "Internal", "Unknown"} => (cl.did <=> ok)
               /\ cl.did /\ ~ok => cl.excused
               /\ cl.permit => cl.excused

(* A trim answered with success leaves the user no more than the limit of what he had    *)
(* all along, unless its last list ran with the limit of another call (DeleteExtra).     *)
TrimLeavesLimit ==
    \A c \in Clients :
        Answers(c, {"DeleteExtra"}) /\ call[c].errs = {} /\ ~call[c].misled =>
            Cardinality(call[c].kept) \leq call[c].limit

(* A call is answered, whoever holds the connections, unless it waits for its receiver to *)
(* repeat the challenge, or is a trim with limit 0, which lists for ever.                 *)
AnswersCome ==
    ~At(Followed, "idle") ~>
        \/ call[Followed].at \in {"idle", "challenge"}
        \/ call[Followed].op = "DeleteExtra" /\ call[Followed].limit = 0

(* What DeleteExtra says of its loop, "list until it gets all results in one page": a    *)
(* trim that is done with its page has all in it that the user had all along, so that    *)
(* no more than the limit is left when nothing fails.                                    *)
AllInOnePage ==
    \A c \in Clients :
        Answers(c, {"DeleteExtra"}) /\ call[c].errs = {} =>
            Cardinality(call[c].kept) \leq call[c].limit
=============================================================================
