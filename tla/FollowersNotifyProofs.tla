------------------------ MODULE FollowersNotifyProofs ------------------------
(***************************************************************************)
(* Theorems of FollowersNotify for any number of calls and any bounds,     *)
(* with every failure the model has.                                       *)
(*                                                                         *)
(* That the topic is behind only for a reason rests on versions: what      *)
(* stands for version v is the count of exactly that version, and while    *)
(* the topic was not told of the last one, a goroutine that is going to    *)
(* tell it is under way, unless there is an excuse.                        *)
(***************************************************************************)
EXTENDS FollowersNotify, TLAPS

RunRecords == [at : Steps, ended : BOOLEAN, count : 0 .. MaxLive,
               since : 0 .. MaxChanges, ver : 0 .. MaxChanges]

Publishing(r) == r.at \in {"publish", "retry"}

(* The goroutine r has not counted yet, or has the last count. *)
Current(r, v) == r.at \in {"changed", "count"} \/ (Publishing(r) /\ r.ver = v)

(* What a goroutine holds: no version from the future, its own change included, *)
(* and for the last version the number of live subscriptions.                   *)
Holds(r, v, n) ==
    /\ r.since <= v /\ r.ver <= v
    /\ Publishing(r) => r.since <= r.ver /\ (r.ver = v => r.count = n)

(* The same of the topic, and who is going to tell it of the last change. *)
TopicOK ==
    /\ toldVer <= ver
    /\ toldVer = ver => told = live
    /\ excuse = {} => toldVer = ver \/ \E g \in Runs : Current(run[g], ver)

IInv == TypeOK /\ TopicOK /\ \A g \in Runs : Holds(run[g], ver, live)

-----------------------------------------------------------------------------

LEMMA IdleFits == Idle \in RunRecords /\ Idle.at = "idle" /\ Idle.since = 0 /\ Idle.ver = 0
BY BoundsAssumption DEF Idle, RunRecords, Steps

LEMMA RunKnown ==
    ASSUME IInv, NEW g \in Runs
    PROVE  run[g] \in RunRecords /\ Holds(run[g], ver, live)
BY DEF IInv, TypeOK, RunRecords

(* A goroutine that moves on without a publication. *)
LEMMA MovesOn ==
    ASSUME IInv, NEW g \in Runs, NEW r \in RunRecords, Holds(r, ver, live),
           Current(run[g], ver) => Current(r, ver),
           run' = [run EXCEPT ![g] = r], UNCHANGED <<live, told, ver, toldVer, excuse>>
    PROVE  IInv'
<1>1. TypeOK'
  BY DEF IInv, TypeOK, RunRecords
<1>2. \A h \in Runs : Holds(run'[h], ver', live')
  BY DEF IInv, TypeOK
<1>3. TopicOK'
  BY DEF IInv, TypeOK, TopicOK
<1>4. (\A h \in Runs : Holds(run[h], ver, live))'
  BY <1>2
<1>. QED
  BY <1>1, <1>3, <1>4 DEF IInv

(* A goroutine that is dropped is an excuse from then on. *)
LEMMA DropKeeps == ASSUME IInv, NEW g \in Runs, Drop(g) PROVE IInv'
<1>1. run' = [run EXCEPT ![g] = Idle]
  BY DEF Drop, End
<1>2. TypeOK'
  BY <1>1, IdleFits DEF IInv, TypeOK, RunRecords, Drop
<1>3. TopicOK'
  BY DEF IInv, TopicOK, Drop
<1>4. \A h \in Runs : Holds(run'[h], ver', live')
  BY <1>1, IdleFits, BoundsAssumption DEF IInv, TypeOK, Drop, Holds, Publishing
<1>5. (\A h \in Runs : Holds(run[h], ver, live))'
  BY <1>4
<1>. QED
  BY <1>2, <1>3, <1>5 DEF IInv

(* A publication, whether the goroutine ends or is going to publish once more. *)
LEMMA PublishKeeps ==
    ASSUME IInv, NEW g \in Runs, Publishing(run[g]), Publish(g),
           NEW r \in {Idle, [run[g] EXCEPT !.at = "retry"]}, run' = [run EXCEPT ![g] = r]
    PROVE  IInv'
<1> DEFINE old == run[g]
<1>1. old \in RunRecords /\ Holds(old, ver, live)
  BY RunKnown
<1>2. ver \in Nat /\ toldVer \in Nat /\ old.ver \in Nat
  BY <1>1, BoundsAssumption DEF IInv, TypeOK, RunRecords
<1>3. r \in RunRecords /\ Holds(r, ver, live)
  BY <1>1, <1>2, IdleFits DEF Holds, Publishing, RunRecords, Steps
<1>4. TypeOK'
  BY <1>1, <1>3 DEF IInv, TypeOK, RunRecords, Publish
<1>5. \A h \in Runs : Holds(run'[h], ver', live')
  BY <1>3 DEF IInv, TypeOK, Publish
<1>6. toldVer' <= ver' /\ (toldVer' = ver' => told' = live')
  BY <1>1 DEF Publish, Holds
<1>7. excuse' = {} => toldVer' = ver' \/ \E h \in Runs : Current(run'[h], ver')
  <2>. SUFFICES ASSUME excuse' = {}, old.ver # ver
                PROVE  \E h \in Runs : Current(run'[h], ver')
    BY DEF Publish
  <2>1. excuse = {} /\ ~(old.ver < toldVer)
    BY DEF Publish
  <2>2. toldVer # ver
    BY <1>1, <1>2, <2>1 DEF Holds
  <2>3. PICK h \in Runs : Current(run[h], ver)
    BY <2>1, <2>2 DEF IInv, TopicOK
  <2>4. h # g
    BY <2>3 DEF Current, Publishing
  <2>. QED
    BY <2>3, <2>4 DEF IInv, TypeOK, Publish
<1>8. TopicOK'
  BY <1>6, <1>7 DEF TopicOK
<1>9. (\A h \in Runs : Holds(run[h], ver, live))'
  BY <1>5
<1>. QED
  BY <1>4, <1>8, <1>9 DEF IInv

LEMMA ChangeKeeps == ASSUME IInv, NEW g \in Runs, Change(g) PROVE IInv'
<1> DEFINE r == [Idle EXCEPT !.at = "changed", !.since = ver + 1]
<1>1. /\ ver \in Nat /\ ver' = ver + 1 /\ ver' \in 0 .. MaxChanges /\ run' = [run EXCEPT ![g] = r]
      /\ live' \in 0 .. MaxLive /\ UNCHANGED <<told, toldVer, excuse>>
  BY BoundsAssumption DEF Change, IInv, TypeOK
<1>2. r \in RunRecords /\ r.at = "changed" /\ r.since = ver + 1 /\ r.ver = 0
  BY <1>1, IdleFits DEF RunRecords, Steps, Idle
<1>. HIDE DEF r
<1>3. TypeOK'
  BY <1>1, <1>2 DEF IInv, TypeOK, RunRecords
<1>4. \A h \in Runs : Holds(run'[h], ver', live')
  <2>1. Holds(r, ver', live')
    BY <1>1, <1>2 DEF Holds, Publishing
  <2>2. ASSUME NEW h \in Runs PROVE Holds(run[h], ver', live')
    <3>1. run[h] \in RunRecords /\ Holds(run[h], ver, live)
      BY RunKnown
    <3>. QED
      BY <1>1, <3>1, BoundsAssumption DEF Holds, RunRecords
  <2>. QED
    BY <1>1, <2>1, <2>2 DEF IInv, TypeOK
<1>5. Current(run'[g], ver')
  BY <1>1, <1>2 DEF IInv, TypeOK, Current
<1>6. TopicOK'
  BY <1>1, <1>5, BoundsAssumption DEF IInv, TypeOK, TopicOK
<1>7. (\A h \in Runs : Holds(run[h], ver, live))'
  BY <1>4
<1>. QED
  BY <1>3, <1>6, <1>7 DEF IInv

LEMMA LaunchKeeps == ASSUME IInv, NEW g \in Runs, Launch(g) PROVE IInv'
<1> DEFINE r == [run[g] EXCEPT !.at = "count"]
<1>1. run[g] \in RunRecords /\ Holds(run[g], ver, live)
  BY RunKnown
<1>2. r \in RunRecords /\ r.at = "count" /\ r.since = run[g].since /\ r.ver = run[g].ver
  BY <1>1 DEF RunRecords, Steps
<1>3. run' = [run EXCEPT ![g] = r] /\ UNCHANGED <<live, told, ver, toldVer, excuse>>
  BY DEF Launch
<1>. HIDE DEF r
<1>4. Holds(r, ver, live) /\ Current(r, ver)
  BY <1>1, <1>2 DEF Holds, Publishing, Current
<1>. QED
  BY <1>2, <1>3, <1>4, MovesOn

LEMMA ContextEndsKeeps == ASSUME IInv, NEW g \in Runs, ContextEnds(g) PROVE IInv'
<1> DEFINE r == [run[g] EXCEPT !.ended = TRUE]
<1>1. run[g] \in RunRecords /\ Holds(run[g], ver, live)
  BY RunKnown
<1>2. /\ r \in RunRecords /\ r.at = run[g].at /\ r.since = run[g].since
      /\ r.ver = run[g].ver /\ r.count = run[g].count
  BY <1>1 DEF RunRecords
<1>3. run' = [run EXCEPT ![g] = r] /\ UNCHANGED <<live, told, ver, toldVer, excuse>>
  BY DEF ContextEnds
<1>. HIDE DEF r
<1>4. Holds(r, ver, live) /\ (Current(run[g], ver) => Current(r, ver))
  BY <1>1, <1>2 DEF Holds, Publishing, Current
<1>. QED
  BY <1>2, <1>3, <1>4, MovesOn

LEMMA CountKeeps == ASSUME IInv, NEW g \in Runs, CountByInterest(g) PROVE IInv'
<1> DEFINE r == [run[g] EXCEPT !.at = "publish", !.count = live, !.ver = ver]
<1>1. run[g] \in RunRecords /\ Holds(run[g], ver, live)
  BY RunKnown
<1>2. CASE run' = [run EXCEPT ![g] = r] /\ UNCHANGED <<live, told, ver, toldVer, excuse>>
  <2>1. r \in RunRecords /\ r.at = "publish" /\ r.since = run[g].since /\ r.ver = ver /\ r.count = live
    BY <1>1 DEF IInv, TypeOK, RunRecords, Steps
  <2>. HIDE DEF r
  <2>2. Holds(r, ver, live) /\ Current(r, ver)
    BY <1>1, <2>1, BoundsAssumption DEF Holds, Publishing, Current, IInv, TypeOK
  <2>. QED
    BY <1>2, <2>1, <2>2, MovesOn
<1>3. CASE Drop(g)
  BY <1>3, DropKeeps
<1>. QED
  BY <1>2, <1>3 DEF CountByInterest

LEMMA NotifyOnceKeeps == ASSUME IInv, NEW g \in Runs, NotifyOnce(g) PROVE IInv'
<1> DEFINE r == [run[g] EXCEPT !.at = "retry"]
<1>1. run[g] \in RunRecords /\ Holds(run[g], ver, live) /\ Publishing(run[g])
  BY RunKnown DEF NotifyOnce, Publishing
<1>2. CASE Publish(g) /\ End(g)
  BY <1>1, <1>2, PublishKeeps DEF End
<1>3. CASE Publish(g) /\ run' = [run EXCEPT ![g].at = "retry"]
  BY <1>1, <1>3, PublishKeeps
<1>4. CASE run' = [run EXCEPT ![g].at = "retry"] /\ UNCHANGED <<live, told, ver, toldVer, excuse>>
  <2>1. /\ r \in RunRecords /\ r.at = "retry" /\ r.since = run[g].since
        /\ r.ver = run[g].ver /\ r.count = run[g].count
    BY <1>1 DEF RunRecords, Steps
  <2>2. run' = [run EXCEPT ![g] = r]
    BY <1>4
  <2>. HIDE DEF r
  <2>3. Holds(r, ver, live) /\ (Current(run[g], ver) => Current(r, ver))
    BY <1>1, <2>1 DEF Holds, Publishing, Current
  <2>. QED
    BY <1>4, <2>1, <2>2, <2>3, MovesOn
<1>. QED
  BY <1>2, <1>3, <1>4 DEF NotifyOnce

(* What every reachable state satisfies. *)
THEOREM Invariance == Spec => []IInv
<1>1. Init => IInv
  BY BoundsAssumption, IdleFits DEF Init, IInv, TypeOK, TopicOK, RunRecords, Holds, Publishing
<1>2. IInv /\ [Next]_vars => IInv'
  <2>. SUFFICES ASSUME IInv, [Next]_vars PROVE IInv'
    OBVIOUS
  <2>1. ASSUME NEW g \in Runs, NoPublisher(g) \/ GiveUp(g) \/ Crash(g) PROVE IInv'
    BY <2>1, DropKeeps DEF NoPublisher, GiveUp, Crash
  <2>2. ASSUME NEW g \in Runs, Change(g) \/ Advance(g) \/ ContextEnds(g) PROVE IInv'
    BY <2>1, <2>2, ChangeKeeps, LaunchKeeps, CountKeeps, NotifyOnceKeeps, ContextEndsKeeps DEF Advance
  <2>3. CASE UNCHANGED vars
    BY <2>3 DEF vars, IInv, TypeOK, TopicOK
  <2>. QED
    BY <2>1, <2>2, <2>3 DEF Next
<1>. QED
  BY <1>1, <1>2, PTL DEF Spec

(* Every variable stays in its set, whatever calls, failures and deaths there are *)
(* (service.go notifyFollowersCount).                                             *)
THEOREM TypeCorrect == Spec => []TypeOK
<1>1. IInv => TypeOK
  BY DEF IInv
<1>. QED
  BY <1>1, Invariance, PTL

(* A topic that is behind has a call or goroutine that is still under way, or one that *)
(* was dropped or overtaken: notifications in any order lose nothing else.             *)
THEOREM BehindHasReason == Spec => []BehindExplained
<1>1. IInv => BehindExplained
  BY DEF IInv, TopicOK, BehindExplained, Busy, Current, Publishing
<1>. QED
  BY <1>1, Invariance, PTL

(* A count that is published takes in the change that its call made, since the *)
(* goroutine starts after the change (service.go Subscribe and Unsubscribe).   *)
THEOREM OwnChangeCounted == Spec => []CountsOwnChange
<1>1. IInv => CountsOwnChange
  BY DEF IInv, Holds, Publishing, CountsOwnChange
<1>. QED
  BY <1>1, Invariance, PTL
=============================================================================
