-------------------------- MODULE FollowersNotify --------------------------
(***************************************************************************)
(* service/service.go notifyFollowersCount: what the events topic is told  *)
(* of the number of followers of one interest.  A call that changed the    *)
(* subscriptions starts a goroutine that counts them, publishes the count  *)
(* and retries a failed publication with the same count.  Goroutines of    *)
(* different interests share nothing; those of one interest are not        *)
(* ordered, on one replica or on several.                                  *)
(***************************************************************************)
EXTENDS Naturals

CONSTANTS
    Runs,       \* the calls, each with the goroutine it starts
    MaxLive,    \* bound on the live subscriptions of the interest
    MaxChanges, \* bound on the changes of the subscriptions
    CanFail     \* whether remote calls fail and processes die

ASSUME BoundsAssumption ==
    MaxLive \in Nat /\ MaxChanges \in Nat /\ CanFail \in BOOLEAN

VARIABLES
    live,       \* the number of live subscriptions
    told,       \* the count last published on the topic
    run,        \* how far every call and its goroutine are
    ver,        \* history: the number of changes so far
    toldVer,    \* history: the change at which the count last published was taken
    excuse      \* history: why the topic may be behind

vars == <<live, told, run, ver, toldVer, excuse>>

Idle == [at |-> "idle", ended |-> FALSE, count |-> 0, since |-> 0, ver |-> 0]

Steps == {"idle", "changed", "count", "publish", "retry"}

Busy(g) == run[g].at # "idle"

End(g) == run' = [run EXCEPT ![g] = Idle]

-----------------------------------------------------------------------------

(* Mutant of Change: a deletion that matched nothing is counted, too. *)
ChangeUnmatched(g) ==
    /\ ~Busy(g)
    /\ ver < MaxChanges
    /\ live' \in {n \in {live + 1, live - 1} : n <= MaxLive}
    /\ ver' = ver + 1
    /\ run' = [run EXCEPT ![g] = [Idle EXCEPT !.at = "changed", !.since = ver + 1]]
    /\ UNCHANGED <<told, toldVer, excuse>>

(* A creation or a deletion took effect; the goroutine is not started yet. *)
Change(g) ==
    /\ ~Busy(g)
    /\ ver < MaxChanges
    /\ live' \in {live + 1, live - 1} \cap 0 .. MaxLive
    /\ ver' = ver + 1
    /\ run' = [run EXCEPT ![g] = [Idle EXCEPT !.at = "changed", !.since = ver + 1]]
    /\ UNCHANGED <<told, toldVer, excuse>>

(* go svc.notifyFollowersCount *)
Launch(g) ==
    /\ run[g].at = "changed"
    /\ run' = [run EXCEPT ![g].at = "count"]
    /\ UNCHANGED <<live, told, ver, toldVer, excuse>>

(* The handler of a gRPC call returned: the context its goroutine uses is done. *)
ContextEnds(g) ==
    /\ run[g].at \in {"count", "publish", "retry"}
    /\ ~run[g].ended
    /\ run' = [run EXCEPT ![g].ended = TRUE]
    /\ UNCHANGED <<live, told, ver, toldVer, excuse>>

Drop(g) ==
    /\ End(g)
    /\ excuse' = excuse \cup {"dropped"}
    /\ UNCHANGED <<live, told, ver, toldVer>>

(* Mutant of CountByInterest: the first count of the process is kept for good. *)
CountByInterestCached(g) ==
    /\ run[g].at = "count"
    /\ run' = [run EXCEPT ![g] = [@ EXCEPT !.at = "publish", !.count = told, !.ver = toldVer]]
    /\ UNCHANGED <<live, told, ver, toldVer, excuse>>

(* svc.CountByInterest; a failure ends the goroutine. *)
CountByInterest(g) ==
    /\ run[g].at = "count"
    /\ \/ /\ ~run[g].ended
          /\ run' = [run EXCEPT ![g] = [@ EXCEPT !.at = "publish", !.count = live, !.ver = ver]]
          /\ UNCHANGED <<live, told, ver, toldVer, excuse>>
       \/ /\ run[g].ended \/ CanFail
          /\ Drop(g)

(* The topic gets the event.  If it is told of an older state than before, the *)
(* newer count was overtaken.                                                  *)
Publish(g) ==
    /\ told' = run[g].count
    /\ toldVer' = run[g].ver
    /\ excuse' = IF run[g].ver = ver THEN {}
                 ELSE IF run[g].ver < toldVer THEN excuse \cup {"overtaken"} ELSE excuse
    /\ UNCHANGED <<live, ver>>

(* Mutant of NotifyOnce: a publication that is not acknowledged is not retried. *)
NotifyOnceOnly(g) ==
    /\ run[g].at \in {"publish", "retry"}
    /\ End(g)
    /\ \/ Publish(g)
       \/ CanFail /\ UNCHANGED <<live, told, ver, toldVer, excuse>>

(* NewPublisher has no connection or no stream.  Its error is ignored, so that the *)
(* attempt counts as a success.                                                     *)
NoPublisher(g) ==
    /\ run[g].at \in {"publish", "retry"}
    /\ run[g].ended \/ CanFail
    /\ Drop(g)

(* notifyFollowersCountOnce with a publisher, the first attempt or one of backoff.Retry. *)
NotifyOnce(g) ==
    /\ run[g].at \in {"publish", "retry"}
    /\ \/ ~run[g].ended /\ Publish(g) /\ End(g)
       \/ /\ CanFail /\ ~run[g].ended          \* no acknowledgement
          /\ run' = [run EXCEPT ![g].at = "retry"]
          /\ Publish(g) \/ UNCHANGED <<live, told, ver, toldVer, excuse>>

(* Mutant of GiveUp: the backoff has no limit. *)
GiveUpNever(g) ==
    /\ run[g].at = "retry"
    /\ run[g].ended
    /\ Drop(g)

(* backoff.Retry gives up after the longest time it is meant to take. *)
GiveUp(g) ==
    /\ run[g].at = "retry"
    /\ Drop(g)

(* The process dies, and what it was about to tell with it. *)
Crash(g) ==
    /\ CanFail
    /\ Busy(g)
    /\ Drop(g)

-----------------------------------------------------------------------------

Init ==
    /\ live = 0
    /\ told = 0
    /\ run = [g \in Runs |-> Idle]
    /\ ver = 0
    /\ toldVer = 0
    /\ excuse = {}

Advance(g) == Launch(g) \/ CountByInterest(g) \/ NoPublisher(g) \/ NotifyOnce(g) \/ GiveUp(g)

Next ==
    \E g \in Runs : Change(g) \/ Advance(g) \/ ContextEnds(g) \/ Crash(g)

Spec == Init /\ [][Next]_vars

(* Goroutines are scheduled, remote calls end, and the retries end after a while. *)
FairSpec == Spec /\ \A g \in Runs : WF_vars(Advance(g)) /\ WF_vars(GiveUp(g))

-----------------------------------------------------------------------------

(* Every variable stays in its set. *)
TypeOK ==
    /\ live \in 0 .. MaxLive
    /\ told \in 0 .. MaxLive
    /\ run \in [Runs -> [at : Steps, ended : BOOLEAN, count : 0 .. MaxLive,
                         since : 0 .. MaxChanges, ver : 0 .. MaxChanges]]
    /\ ver \in 0 .. MaxChanges
    /\ toldVer \in 0 .. MaxChanges
    /\ excuse \subseteq {"dropped", "overtaken"}

(* If the topic is behind, then a call or its goroutine is still under way, or one *)
(* was dropped (no publisher, context done, crash, retries given up), or a count   *)
(* was published after a newer one (service.go notifyFollowersCount).              *)
BehindExplained ==
    \/ told = live
    \/ \E g \in Runs : Busy(g)
    \/ excuse # {}

(* A count that is published takes in the change that its call made. *)
CountsOwnChange ==
    \A g \in Runs : run[g].at \in {"publish", "retry"} => run[g].since <= run[g].ver

(* Every call and the goroutine it started end (backoff.Retry is bounded). *)
RunsEnd == \A g \in Runs : Busy(g) ~> ~Busy(g)
=============================================================================
