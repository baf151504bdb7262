---------------------------- MODULE SubSweepProofs ----------------------------
(***************************************************************************)
(* More theorems of SubService, over its type: what a sweep leaves behind  *)
(* its cursor, what bounds its loop, and that whatever changes is told.    *)
(***************************************************************************)
EXTENDS SubServiceProofs

(* The item w of the work is its first. *)
First(work, w) == w \in work /\ \A v \in work : ~Before(v.key, w.key)

(* Behind the cursor of the sweep cl nothing is left of its interest but what was   *)
(* renewed or is on its page, for the store st and the keys re renewed while it ran. *)
Behind(cl, st, re) ==
    \A k \in Keys :
        st[k] # None /\ k[1] = cl.arg /\ k[2] <= cl.cursor =>
            k \in re \/ \E w \in cl.work : w.key = k

(* A sweep knows the owners of the items of its page, all behind its cursor, unless *)
(* they were renewed, and while it releases the permit of one, that one is gone or  *)
(* was renewed.                                                                     *)
SweepFits(cl, st, re) ==
    IsSweep(cl) =>
        /\ cl.at \in {"List", "Delete", "Release"}
        /\ cl.at = "List" => cl.work = {}
        /\ \A v, w \in cl.work : v.key = w.key => v = w
        /\ \A w \in cl.work : w.key[1] = cl.arg /\ (st[w.key] \in {w.owner, None} \/ w.key \in re)
        /\ \A w \in cl.work : w.key[2] <= cl.cursor
        /\ cl.at = "Release" => \A w \in cl.work : First(cl.work, w) => st[w.key] = None \/ w.key \in re
        /\ Behind(cl, st, re)

SweepInv == \A c \in Clients : SweepFits(call[c], store, resub[c])

-----------------------------------------------------------------------------
(* The order of keys *)

(* Before is a total order: two first items have the same key. *)
LEMMA FirstUnique ==
    ASSUME NEW work \in SUBSET Items, NEW v, NEW w, First(work, v), First(work, w)
    PROVE  v.key = w.key
<1> DEFINE j == v.key
           k == w.key
<1>1. j \in Interests \X Urls /\ k \in Interests \X Urls
  BY DEF First, Items, Keys
<1>2. ~Before(j, k) /\ ~Before(k, j)
  BY DEF First
<1>. HIDE DEF j, k
<1>3. j[1] \in Nat /\ j[2] \in Nat /\ k[1] \in Nat /\ k[2] \in Nat
  BY <1>1, OrderAssumption
<1>4. j[1] = k[1] /\ j[2] = k[2]
  BY <1>2, <1>3 DEF Before
<1>5. j = k
  BY <1>1, <1>4
<1>. QED
  BY <1>5 DEF j, k

LEMMA KeyType == ASSUME NEW k \in Keys PROVE k[1] \in Nat /\ k[2] \in Nat \ {0}
BY OrderAssumption DEF Keys

LEMMA CursorType == ASSUME NEW cl \in Calls PROVE cl.cursor \in Nat
<1>1. cl.cursor \in Urls \/ cl.cursor = 0
  BY DEF Calls
<1>2. \A u \in Urls : u \in Nat
  BY OrderAssumption
<1>. QED
  BY <1>1, <1>2

(* A page of a set has all keys of the set up to any of its own. *)
LEMMA PageClosed ==
    ASSUME NEW S \in SUBSET Keys, NEW page \in Pages(S), NEW last \in page, NEW k \in S,
           k[1] = last[1], k[2] <= last[2]
    PROVE  page \subseteq S /\ k \in page
<1>1. PICK n \in PageSizes : page = FirstOf(S, n)
  BY DEF Pages
<1>2. last \in S /\ Cardinality({j \in S : Before(j, last)}) < n
  BY <1>1 DEF FirstOf
<1> DEFINE ahead == {j \in S : Before(j, k)}
           upto == {j \in S : Before(j, last)}
<1>3. ahead \subseteq upto
  <2>. SUFFICES ASSUME NEW j \in S, Before(j, k) PROVE Before(j, last)
    OBVIOUS
  <2>1. /\ j[1] \in Nat /\ j[2] \in Nat /\ k[1] \in Nat /\ k[2] \in Nat
        /\ last[1] \in Nat /\ last[2] \in Nat
    BY <1>2, OrderAssumption DEF Keys
  <2>. QED
    BY <2>1 DEF Before
<1>4. IsFiniteSet(upto)
  <2>1. upto \in SUBSET Keys
    OBVIOUS
  <2>. QED
    BY <2>1, FS_Subset, FiniteAssumption
<1>5. Cardinality(ahead) <= Cardinality(upto) /\ IsFiniteSet(ahead)
  BY <1>3, <1>4, FS_Subset
<1>6. Cardinality(ahead) \in Nat /\ Cardinality(upto) \in Nat /\ n \in Nat
  BY <1>4, <1>5, FS_CardinalityType, BoundsAssumption
<1>. HIDE DEF ahead, upto
<1>7. Cardinality(ahead) < n
  BY <1>2, <1>5, <1>6 DEF upto
<1>. QED
  BY <1>1, <1>7 DEF FirstOf, ahead

-----------------------------------------------------------------------------
(* What a step of one call does to the sweeps of the others: it removes records, *)
(* or renews them.                                                               *)

Renewed(st, re) == \A k \in Keys : st[k] = store[k] \/ st[k] = None \/ k \in re

Evolves ==
    \A d \in Clients :
        IsSweep(call[d]) => resub[d] \subseteq resub'[d] /\ Renewed(store', resub'[d])

LEMMA SweepStays ==
    ASSUME NEW cl \in Calls, NEW re, NEW re2, NEW st, SweepFits(cl, store, re),
           IsSweep(cl) => re \subseteq re2 /\ Renewed(st, re2)
    PROVE  SweepFits(cl, st, re2)
<1>. SUFFICES ASSUME IsSweep(cl)
              PROVE  SweepFits(cl, st, re2)
  BY DEF SweepFits
<1>0. re \subseteq re2 /\ Renewed(st, re2)
  OBVIOUS
<1>1. \A w \in cl.work : w.key \in Keys
  BY DEF Calls, Items
<1>2. \A k \in Keys : st[k] = store[k] \/ st[k] = None \/ k \in re2
  BY <1>0 DEF Renewed
<1>3. Behind(cl, st, re2)
  BY <1>0, <1>2 DEF SweepFits, Behind
<1>4. \A w \in cl.work : w.key[1] = cl.arg /\ (st[w.key] \in {w.owner, None} \/ w.key \in re2)
  BY <1>0, <1>1, <1>2 DEF SweepFits
<1>5. cl.at = "Release" => \A w \in cl.work : First(cl.work, w) => st[w.key] = None \/ w.key \in re2
  BY <1>0, <1>1, <1>2 DEF SweepFits
<1>. QED
  BY <1>3, <1>4, <1>5 DEF SweepFits

(* So the invariant is kept if the call that made the step fits, too. *)
LEMMA SweepStep ==
    ASSUME TypeOK, SweepInv, Evolves, NEW c \in Clients,
           \A d \in Clients \ {c} : call'[d] = call[d],
           SweepFits(call'[c], store', resub'[c])
    PROVE  SweepInv'
<1>1. ASSUME NEW d \in Clients \ {c} PROVE SweepFits(call'[d], store', resub'[d])
  BY SweepStays DEF SweepInv, Evolves, TypeOK, CallsOK
<1>2. \A d \in Clients : SweepFits(call'[d], store', resub'[d])
  BY <1>1
<1>3. (\A d \in Clients : SweepFits(call[d], store, resub[d]))'
  BY <1>2
<1>. QED
  BY <1>3 DEF SweepInv

LEMMA IdleSweep == ASSUME NEW st, NEW re PROVE SweepFits(Idle, st, re)
BY DEF SweepFits, IsSweep, Idle

(* A call that ends takes nothing with it. *)
LEMMA EndsSweep ==
    ASSUME TypeOK, SweepInv, Evolves, NEW c \in Clients, Idles(c)
    PROVE  SweepInv'
<1>1. call'[c] = Idle /\ \A d \in Clients \ {c} : call'[d] = call[d]
  BY DEF Idles, TypeOK, CallsOK
<1>. QED
  BY <1>1, IdleSweep, SweepStep

(* An item of a page is done when it is gone or was renewed. *)
LEMMA AdvanceSweep ==
    ASSUME TypeOK, SweepInv, Evolves, NEW c \in Clients, NEW w, IsTurn(c, w), Advance(c, w),
           IsSweep(call[c]) => store'[w.key] = None \/ w.key \in resub'[c]
    PROVE  SweepInv'
<1> DEFINE cl == call[c]
           rest == cl.work \ {w}
           next == [cl EXCEPT !.at = "Delete", !.work = rest, !.acct = NoAccount]
           list == [cl EXCEPT !.at = "List", !.work = {}, !.acct = NoAccount]
<1>1. cl \in Calls /\ SweepFits(cl, store', resub'[c])
  BY SweepStays DEF SweepInv, Evolves, TypeOK, CallsOK
<1>2. \A d \in Clients \ {c} : call'[d] = call[d]
  BY DEF Advance, TypeOK, CallsOK
<1>3. \/ call'[c] = next
      \/ call'[c] = list /\ rest = {}
      \/ call'[c] = Idle
  BY DEF Advance, TypeOK, CallsOK
<1>4. IsSweep(cl) => Behind([cl EXCEPT !.work = rest], store', resub'[c])
  BY <1>1 DEF SweepFits, Behind, Calls
<1>5. CASE call'[c] = next
  <2>1. next.op = cl.op /\ next.at = "Delete" /\ next.work = rest /\ next.arg = cl.arg /\ next.cursor = cl.cursor
    BY <1>1 DEF Calls
  <2>2. SweepFits(next, store', resub'[c])
    BY <1>1, <1>4, <2>1 DEF SweepFits, IsSweep, Behind, Calls
  <2>. QED
    BY <1>2, <1>5, <2>2, SweepStep
<1>6. CASE call'[c] = list /\ rest = {}
  <2>1. list.op = cl.op /\ list.at = "List" /\ list.work = {} /\ list.arg = cl.arg /\ list.cursor = cl.cursor
    BY <1>1 DEF Calls
  <2>2. SweepFits(list, store', resub'[c])
    BY <1>1, <1>4, <1>6, <2>1 DEF SweepFits, IsSweep, Behind, Calls
  <2>. QED
    BY <1>2, <1>6, <2>2, SweepStep
<1>7. CASE call'[c] = Idle
  BY <1>2, <1>7, IdleSweep, SweepStep
<1>. QED
  BY <1>3, <1>5, <1>6, <1>7

(* A call on its way to another step, with the same work. *)
LEMMA GotoSweep ==
    ASSUME TypeOK, SweepInv, Evolves, NEW c \in Clients, NEW at, NEW acct, Goto(c, at, acct),
           IsSweep(call[c]) =>
               /\ at = "Release"
               /\ \A w \in call[c].work :
                      First(call[c].work, w) => store'[w.key] = None \/ w.key \in resub'[c]
    PROVE  SweepInv'
<1> DEFINE cl == call[c]
           r == [cl EXCEPT !.at = at, !.acct = acct]
<1>1. cl \in Calls /\ SweepFits(cl, store', resub'[c])
  BY SweepStays DEF SweepInv, Evolves, TypeOK, CallsOK
<1>2. call'[c] = r /\ \A d \in Clients \ {c} : call'[d] = call[d]
  BY DEF Goto, TypeOK, CallsOK
<1>3. r.op = cl.op /\ r.at = at /\ r.work = cl.work /\ r.arg = cl.arg /\ r.cursor = cl.cursor
  BY <1>1 DEF Calls
<1>. HIDE DEF r
<1>4. SweepFits(r, store', resub'[c])
  BY <1>1, <1>3 DEF SweepFits, IsSweep, Behind
<1>. QED
  BY <1>2, <1>4, SweepStep

-----------------------------------------------------------------------------
(* Every step keeps what a sweep knows. *)

(* A step that leaves the store and the renewals alone. *)
LEMMA SameStoreEvolves ==
    ASSUME TypeOK, UNCHANGED <<store, resub>>
    PROVE  Evolves
BY DEF Evolves, Renewed

(* A step that removes the record of one key. *)
LEMMA RemovalEvolves ==
    ASSUME TypeOK, NEW k, store' = [store EXCEPT ![k] = None], UNCHANGED resub
    PROVE  Evolves
BY DEF Evolves, Renewed, TypeOK, StoreOK

(* A step that writes records of the keys ks and nothing else. *)
LEMMA RenewalEvolves ==
    ASSUME TypeOK, NEW ks, Renew(ks), \A k \in Keys : k \in ks \/ store'[k] = store[k]
    PROVE  Evolves
BY DEF Evolves, Renewed, Renew, IsSweep, TypeOK, HistoryOK

(* A call that starts, a sweep at the listing of its first page. *)
LEMMA StartSweep ==
    ASSUME TypeOK, SweepInv, NEW c \in Clients, NEW op, NEW at, NEW work, NEW arg,
           Start(c, op, at, work, arg),
           op = "UnsubscribeByInterest" => at = "List" /\ work = {}
    PROVE  SweepInv'
<1> DEFINE r == [Idle EXCEPT !.op = op, !.at = at, !.work = work, !.arg = arg]
<1>1. r.op = op /\ r.at = at /\ r.work = work /\ r.cursor = 0
  BY DEF Idle
<1>2. call'[c] = r /\ \A d \in Clients \ {c} : call'[d] = call[d] /\ resub'[d] = resub[d]
  BY DEF Start, TypeOK, CallsOK, HistoryOK
<1>3. store' = store
  BY DEF Start
<1>. HIDE DEF r
<1>4. ASSUME NEW k \in Keys PROVE ~(k[2] <= 0)
  BY KeyType
<1>5. SweepFits(r, store', resub'[c])
  BY <1>1, <1>4 DEF SweepFits, IsSweep, Behind
<1>6. \A d \in Clients : SweepFits(call'[d], store', resub'[d])
  BY <1>2, <1>3, <1>5 DEF SweepInv
<1>7. (\A d \in Clients : SweepFits(call[d], store, resub[d]))'
  BY <1>6
<1>. QED
  BY <1>7 DEF SweepInv

LEMMA BeginSweep ==
    ASSUME TypeOK, SweepInv, NEW c \in Clients,
           Subscribe(c) \/ Unsubscribe(c) \/ UnsubscribeByInterest(c) \/ DeleteExtra(c)
    PROVE  SweepInv'
<1>1. CASE Subscribe(c) \/ Unsubscribe(c)
  BY <1>1, StartSweep DEF Subscribe, Unsubscribe
<1>2. CASE UnsubscribeByInterest(c)
  BY <1>2, StartSweep DEF UnsubscribeByInterest
<1>3. CASE DeleteExtra(c)
  <2>1. PICK work : Start(c, "DeleteExtra", "Delete", work, 0)
    BY <1>3 DEF DeleteExtra
  <2>. QED
    BY <2>1, StartSweep
<1>. QED
  BY <1>1, <1>2, <1>3

(* No sweep is at Request or Create: those are the steps of Subscribe. *)
LEMMA RequestSweep ==
    ASSUME TypeOK, SweepInv, NEW c \in Clients, Request(c)
    PROVE  SweepInv'
<1>1. Evolves
  BY SameStoreEvolves DEF Request
<1>2. ~IsSweep(call[c])
  BY DEF Request, SweepInv, SweepFits
<1>3. Idles(c) \/ \E a : Goto(c, "Create", a)
  BY DEF Request
<1>. QED
  BY <1>1, <1>2, <1>3, EndsSweep, GotoSweep

LEMMA CreateSweep ==
    ASSUME TypeOK, SweepInv, NEW c \in Clients,
           Created(c) \/ CreatedUnseen(c) \/ NotCreated(c)
    PROVE  SweepInv'
<1>1. ~IsSweep(call[c])
  BY DEF Created, CreatedUnseen, NotCreated, SweepInv, SweepFits
<1>2. Evolves
  <2>1. CASE Created(c) \/ CreatedUnseen(c)
    <3>1. PICK w \in call[c].work : store' = [store EXCEPT ![w.key] = w.owner] /\ Renew({w.key})
      BY <2>1 DEF Created, CreatedUnseen
    <3>2. \A k \in Keys : k \in {w.key} \/ store'[k] = store[k]
      BY <3>1 DEF TypeOK, StoreOK
    <3>. QED
      BY <3>1, <3>2, RenewalEvolves
  <2>2. CASE NotCreated(c)
    BY <2>2, SameStoreEvolves DEF NotCreated
  <2>. QED
    BY <2>1, <2>2
<1>3. Idles(c) \/ Goto(c, "Release", call[c].acct)
  BY DEF Created, CreatedUnseen, NotCreated
<1>. QED
  BY <1>1, <1>2, <1>3, EndsSweep, GotoSweep

LEMMA ReleaseSweep ==
    ASSUME TypeOK, SweepInv, NEW c \in Clients, Release(c)
    PROVE  SweepInv'
<1>1. Evolves /\ store' = store /\ resub' = resub
  BY SameStoreEvolves DEF Release
<1>2. PICK w \in call[c].work : IsTurn(c, w) /\ (Idles(c) \/ Advance(c, w))
  BY DEF Release, AfterRelease
<1>3. IsSweep(call[c]) => store'[w.key] = None \/ w.key \in resub'[c]
  BY <1>1, <1>2 DEF SweepInv, SweepFits, IsTurn, First, Release
<1>. QED
  BY <1>1, <1>2, <1>3, EndsSweep, AdvanceSweep

LEMMA DeletedSweep ==
    ASSUME TypeOK, SweepInv, NEW c \in Clients, Deleted(c)
    PROVE  SweepInv'
<1>1. PICK w \in call[c].work :
         /\ IsTurn(c, w)
         /\ store' = [store EXCEPT ![w.key] = None]
         /\ Idles(c) \/ Goto(c, "Release", w.owner)
  BY DEF Deleted, Abort
<1>2. Evolves
  BY <1>1, RemovalEvolves DEF Deleted
<1>3. call[c].work \in SUBSET Items /\ w.key \in Keys
  BY ItemType DEF TypeOK, CallsOK, Calls
<1>4. \A v \in call[c].work : First(call[c].work, v) => v.key = w.key
  BY <1>1, <1>3, FirstUnique DEF IsTurn, First
<1>5. \A v \in call[c].work : First(call[c].work, v) => store'[v.key] = None
  BY <1>1, <1>3, <1>4 DEF TypeOK, StoreOK
<1>. QED
  BY <1>1, <1>2, <1>5, EndsSweep, GotoSweep

LEMMA NotDeletedSweep ==
    ASSUME TypeOK, SweepInv, NEW c \in Clients, NotDeleted(c)
    PROVE  SweepInv'
<1>1. PICK w \in call[c].work :
         /\ IsTurn(c, w)
         /\ Idles(c) \/ (Advance(c, w) /\ store[w.key] \notin {w.owner, Legacy})
  BY DEF NotDeleted, Abort
<1>2. Evolves /\ store' = store /\ resub' = resub
  BY SameStoreEvolves DEF NotDeleted
<1>3. CASE Idles(c)
  BY <1>2, <1>3, EndsSweep
<1>4. CASE Advance(c, w) /\ store[w.key] \notin {w.owner, Legacy}
  <2>1. IsSweep(call[c]) => store[w.key] \in {w.owner, None} \/ w.key \in resub[c]
    BY DEF SweepInv, SweepFits
  <2>2. IsSweep(call[c]) => store'[w.key] = None \/ w.key \in resub'[c]
    BY <1>2, <1>4, <2>1
  <2>. QED
    BY <1>1, <1>2, <1>4, <2>2, AdvanceSweep
<1>. QED
  BY <1>1, <1>3, <1>4

(* The next page starts behind the cursor and leaves nothing out up to its last key. *)
LEMMA ListSweep ==
    ASSUME TypeOK, SweepInv, NEW c \in Clients, List(c)
    PROVE  SweepInv'
<1> DEFINE cl == call[c]
           found == {k \in Live : k[1] = cl.arg /\ k[2] > cl.cursor}
<1>1. Evolves /\ store' = store /\ resub' = resub
  BY SameStoreEvolves DEF List
<1>2. cl \in Calls /\ IsSweep(cl) /\ cl.at = "List" /\ cl.work = {} /\ Behind(cl, store, resub[c])
  BY DEF List, TypeOK, CallsOK, CallFits, SweepInv, SweepFits, IsSweep
<1>3. ASSUME NEW page \in Pages(found), NEW last \in page,
             \A k \in page : k[2] <= last[2],
             call' = [call EXCEPT ![c] =
                  [@ EXCEPT !.at = "Delete", !.cursor = last[2],
                            !.work = {[key |-> k, owner |-> store[k]] : k \in page}]]
      PROVE  SweepInv'
  <2> DEFINE items == {[key |-> k, owner |-> store[k]] : k \in page}
             r == [cl EXCEPT !.at = "Delete", !.cursor = last[2], !.work = items]
  <2>1. call'[c] = r /\ \A d \in Clients \ {c} : call'[d] = call[d]
    BY <1>3 DEF TypeOK, CallsOK
  <2>2. r.op = cl.op /\ r.at = "Delete" /\ r.work = items /\ r.arg = cl.arg /\ r.cursor = last[2]
    BY <1>2 DEF Calls
  <2>3. page \subseteq found /\ found \in SUBSET Keys
    BY DEF Pages, FirstOf, Live
  <2>4. ASSUME NEW k \in page PROVE \E w \in items : w.key = k
    <3>1. [key |-> k, owner |-> store[k]] \in items
      OBVIOUS
    <3>. HIDE DEF items
    <3>. QED
      BY <3>1
  <2>5. \A w \in items : w.key \in page /\ w.owner = store[w.key] /\ w = [key |-> w.key, owner |-> store[w.key]]
    OBVIOUS
  <2>. HIDE DEF r, items
  <2>6. ASSUME NEW k \in Keys, store[k] # None, k[1] = cl.arg, k[2] <= last[2]
        PROVE  k \in resub[c] \/ \E w \in items : w.key = k
    <3>1. k[2] \in Nat /\ cl.cursor \in Nat
      BY <1>2, KeyType, CursorType
    <3>2. CASE k[2] <= cl.cursor
      BY <1>2, <2>6, <3>2 DEF Behind
    <3>3. CASE k[2] > cl.cursor
      <4>1. k \in found
        BY <2>6, <3>3 DEF Live
      <4>2. k[1] = last[1]
        BY <2>3, <2>6
      <4>. HIDE DEF found
      <4>3. k \in page
        BY <2>3, <2>6, <4>1, <4>2, PageClosed
      <4>. QED
        BY <2>4, <4>3
    <3>. QED
      BY <3>1, <3>2, <3>3
  <2>7. Behind(r, store', resub'[c])
    BY <1>1, <2>2, <2>6 DEF Behind
  <2>8. \A w \in items : w.key[1] = cl.arg /\ w.key[2] <= last[2]
    BY <1>3, <2>3, <2>5
  <2>9. SweepFits(r, store', resub'[c])
    BY <1>1, <2>2, <2>5, <2>7, <2>8 DEF SweepFits
  <2>. QED
    BY <1>1, <2>1, <2>9, SweepStep
<1>. QED
  BY <1>1, <1>3, EndsSweep DEF List

LEMMA OwnerSweep ==
    ASSUME TypeOK, SweepInv, ChangeOwner
    PROVE  SweepInv'
<1>1. PICK m \in Moves :
         /\ store' = [k \in Keys |-> IF store[k] = m[1] THEN m[2] ELSE store[k]]
         /\ Renew({k \in Keys : store[k] = m[1]})
  BY DEF ChangeOwner
<1>2. Evolves
  BY <1>1, RenewalEvolves
<1>3. \A d \in Clients : SweepFits(call'[d], store', resub'[d])
  BY <1>2, SweepStays DEF ChangeOwner, SweepInv, Evolves, TypeOK, CallsOK
<1>4. (\A d \in Clients : SweepFits(call[d], store, resub[d]))'
  BY <1>3
<1>. QED
  BY <1>4 DEF SweepInv

LEMMA SweepInvStep ==
    ASSUME TypeOK, SweepInv, [Next]_vars
    PROVE  SweepInv'
<1>1. ASSUME NEW c \in Clients, Crash(c) PROVE SweepInv'
  BY <1>1, SameStoreEvolves, EndsSweep DEF Crash
<1>2. CASE UNCHANGED vars
  BY <1>2 DEF vars, SweepInv, SweepFits, Behind
<1>. QED
  BY <1>1, <1>2, BeginSweep, RequestSweep, CreateSweep, ReleaseSweep, DeletedSweep,
     NotDeletedSweep, ListSweep, OwnerSweep DEF Next, Serve

(* A sweep leaves nothing of its interest behind its cursor but what was subscribed or *)
(* reassigned while it ran: SweepComplete holds in every reachable state, whatever the *)
(* page limits its queries run with, the callers in between, and the faults.           *)
THEOREM SweepsComplete == Spec => []SweepComplete
<1>1. Init => SweepInv
  BY IdleSweep DEF Init, SweepInv
<1>2. TypeOK /\ SweepInv /\ [Next]_vars => SweepInv'
  BY SweepInvStep
<1>3. SweepInv => SweepComplete
  BY DEF SweepInv, SweepFits, IsSweep, Behind, SweepComplete, Live
<1>. QED
  BY <1>1, <1>2, <1>3, TypeCorrect, PTL DEF Spec

-----------------------------------------------------------------------------
(* What bounds a sweep. *)

(* The rest of the work of a sweep, over the store st. *)
LeftOf(cl, st) ==
    {w.key : w \in cl.work} \cup {k \in Keys : st[k] # None /\ k[1] = cl.arg /\ k[2] > cl.cursor}

Descends(cl, next, st) ==
    /\ LeftOf(next, st) \subseteq LeftOf(cl, store)
    /\ LeftOf(next, st) # LeftOf(cl, store) \/ StepsLeft(next.at) < StepsLeft(cl.at)

(* The item that an advancing sweep leaves is on no later page. *)
LEMMA AdvanceDescends ==
    ASSUME TypeOK, SweepInv, NEW c \in Clients, IsSweep(call[c]), NEW w, IsTurn(c, w),
           Advance(c, w), IsSweep(call'[c])
    PROVE  Descends(call[c], call'[c], store)
<1> DEFINE cl == call[c]
           next == call'[c]
<1>1. cl \in Calls /\ SweepFits(cl, store, resub[c]) /\ w \in cl.work
  BY DEF TypeOK, CallsOK, SweepInv, IsTurn
<1>2. next.work \subseteq cl.work \ {w} /\ next.arg = cl.arg /\ next.cursor = cl.cursor
  BY <1>1 DEF Advance, TypeOK, CallsOK, Calls, IsSweep, Idle
<1>. HIDE DEF cl, next
<1>3. w.key \in Keys /\ w.key[2] \in Nat /\ cl.cursor \in Nat /\ w.key[2] <= cl.cursor
  <2>1. w.key \in Keys
    BY <1>1 DEF Calls, Items
  <2>2. w.key[2] <= cl.cursor
    BY <1>1 DEF SweepFits, cl
  <2>. QED
    BY <1>1, <2>1, <2>2, KeyType, CursorType
<1>4. w.key \notin LeftOf(next, store)
  <2>1. ~(w.key[2] > next.cursor)
    BY <1>2, <1>3
  <2>2. \A v \in next.work : v.key # w.key
    BY <1>1, <1>2 DEF SweepFits, cl
  <2>. QED
    BY <2>1, <2>2 DEF LeftOf
<1>5. LeftOf(next, store) \subseteq LeftOf(cl, store) /\ w.key \in LeftOf(cl, store)
  BY <1>1, <1>2 DEF LeftOf
<1>. QED
  BY <1>4, <1>5 DEF Descends, cl, next

LEMMA DeletedDescends ==
    ASSUME TypeOK, SweepInv, NEW c \in Clients, IsSweep(call[c]), Deleted(c), IsSweep(call'[c])
    PROVE  Descends(call[c], call'[c], store')
<1>1. PICK w \in call[c].work :
         /\ store' = [store EXCEPT ![w.key] = None]
         /\ Idles(c) \/ Goto(c, "Release", w.owner)
  BY DEF Deleted, Abort
<1>2. call[c] \in Calls /\ call[c].at = "Delete"
  BY DEF TypeOK, CallsOK, Deleted
<1>3. /\ call'[c].at = "Release" /\ call'[c].work = call[c].work
      /\ call'[c].arg = call[c].arg /\ call'[c].cursor = call[c].cursor
  <2>1. ~Idles(c)
    BY DEF Idles, Idle, IsSweep, TypeOK, CallsOK
  <2>2. call'[c] = [call[c] EXCEPT !.at = "Release", !.acct = w.owner]
    BY <1>1, <2>1 DEF Goto, TypeOK, CallsOK
  <2>. QED
    BY <1>2, <2>2 DEF Calls
<1>4. \A k \in Keys : store'[k] # None => store[k] # None
  BY <1>1 DEF TypeOK, StoreOK
<1>5. StepsLeft(call'[c].at) < StepsLeft(call[c].at)
  BY <1>2, <1>3 DEF StepsLeft
<1>. QED
  BY <1>3, <1>4, <1>5 DEF Descends, LeftOf

LEMMA ListDescends ==
    ASSUME TypeOK, SweepInv, NEW c \in Clients, List(c), IsSweep(call'[c])
    PROVE  Descends(call[c], call'[c], store')
<1> DEFINE cl == call[c]
           found == {k \in Live : k[1] = cl.arg /\ k[2] > cl.cursor}
<1>1. cl \in Calls /\ cl.at = "List" /\ store' = store
  BY DEF List, TypeOK, CallsOK
<1>2. ~Idles(c)
  BY DEF Idles, Idle, IsSweep, TypeOK, CallsOK
<1>3. PICK page \in Pages(found) : \E last \in page :
         call' = [call EXCEPT ![c] =
              [@ EXCEPT !.at = "Delete", !.cursor = last[2],
                        !.work = {[key |-> k, owner |-> store[k]] : k \in page}]]
  BY <1>2 DEF List
<1>4. PICK last \in page :
         call' = [call EXCEPT ![c] =
              [@ EXCEPT !.at = "Delete", !.cursor = last[2],
                        !.work = {[key |-> k, owner |-> store[k]] : k \in page}]]
  BY <1>3
<1>5. /\ call'[c].at = "Delete" /\ call'[c].arg = cl.arg /\ call'[c].cursor = last[2]
      /\ call'[c].work = {[key |-> k, owner |-> store[k]] : k \in page}
  BY <1>1, <1>4 DEF TypeOK, CallsOK, Calls
<1>6. \A w \in call'[c].work : w.key \in page
  BY <1>5
<1>7. page \subseteq found /\ found \in SUBSET Keys
  BY DEF Pages, FirstOf, Live
<1>8. \A k \in Keys : k[2] > last[2] => k[2] > cl.cursor
  <2>1. last[2] \in Nat /\ cl.cursor \in Nat /\ last[2] > cl.cursor
    BY <1>1, <1>7, KeyType, CursorType
  <2>. QED
    BY <2>1, KeyType
<1>9. \A k \in found : store[k] # None /\ k[1] = cl.arg /\ k[2] > cl.cursor
  BY DEF Live
<1>10. StepsLeft(call'[c].at) < StepsLeft(cl.at)
  BY <1>1, <1>5 DEF StepsLeft
<1>. HIDE DEF found, cl
<1>11. LeftOf(call'[c], store') \subseteq LeftOf(cl, store)
  BY <1>1, <1>5, <1>6, <1>7, <1>8, <1>9 DEF LeftOf
<1>. QED
  BY <1>10, <1>11 DEF Descends, cl

LEMMA SweepDescendsStep ==
    ASSUME TypeOK, SweepInv, [Next]_vars, NEW c \in Clients,
           IsSweep(call[c]), IsSweep(call'[c]), call'[c] # call[c]
    PROVE  Descends(call[c], call'[c], store')
<1>1. call[c].at \in {"List", "Delete", "Release"}
  BY DEF SweepInv, SweepFits
<1>2. ASSUME NEW d \in Clients,
             \/ Subscribe(d) \/ Unsubscribe(d) \/ UnsubscribeByInterest(d) \/ DeleteExtra(d)
      PROVE  d # c /\ call'[c] = call[c]
  <2>1. PICK op, at, work, arg : Start(d, op, at, work, arg)
    BY <1>2 DEF Subscribe, Unsubscribe, UnsubscribeByInterest, DeleteExtra
  <2>. QED
    BY <1>1, <2>1 DEF Start, TypeOK, CallsOK
<1>3. ASSUME NEW d \in Clients,
             Request(d) \/ Created(d) \/ CreatedUnseen(d) \/ NotCreated(d) \/ Crash(d)
      PROVE  call'[c] = call[c]
  <2>1. Idles(d) \/ \E at, acct : Goto(d, at, acct)
    BY <1>3 DEF Request, Created, CreatedUnseen, NotCreated, Crash
  <2>2. d = c => ~Idles(d)
    BY DEF Idles, Idle, IsSweep, TypeOK, CallsOK
  <2>3. d # c
    BY <1>1, <1>3, <2>2 DEF Request, Created, CreatedUnseen, NotCreated, Crash
  <2>. QED
    BY <2>1, <2>3 DEF Idles, Goto, TypeOK, CallsOK
<1>4. ASSUME NEW d \in Clients, Release(d) \/ Deleted(d) \/ NotDeleted(d) \/ List(d), d # c
      PROVE  call'[c] = call[c]
  BY <1>4 DEF Release, AfterRelease, Deleted, NotDeleted, Abort, List, Idles, Goto, Advance,
              TypeOK, CallsOK
<1>5. ASSUME Release(c) \/ NotDeleted(c) PROVE Descends(call[c], call'[c], store')
  <2>1. PICK w \in call[c].work : IsTurn(c, w) /\ (Idles(c) \/ Advance(c, w))
    BY <1>5 DEF Release, AfterRelease, NotDeleted, Abort
  <2>2. ~Idles(c)
    BY DEF Idles, Idle, IsSweep, TypeOK, CallsOK
  <2>3. store' = store
    BY <1>5 DEF Release, NotDeleted
  <2>. QED
    BY <2>1, <2>2, <2>3, AdvanceDescends
<1>6. CASE ChangeOwner \/ UNCHANGED vars
  BY <1>6 DEF ChangeOwner, vars
<1>. QED
  BY <1>2, <1>3, <1>4, <1>5, <1>6, DeletedDescends, ListDescends DEF Next, Serve

(* The loop of UnsubscribeByInterest is bounded: in every step SweepDescends, for any  *)
(* keys, page limits, calls beside it and faults.  As there are finitely many keys     *)
(* that remain, only creations ahead of its cursor make a sweep longer.                *)
THEOREM SweepsDescend == Spec => SweepDescends
<1>1. Init => SweepInv
  BY IdleSweep DEF Init, SweepInv
<1>2. TypeOK /\ SweepInv /\ [Next]_vars => SweepInv'
  BY SweepInvStep
<1>3. TypeOK /\ SweepInv /\ [Next]_vars =>
        [\A c \in Clients :
          IsSweep(call[c]) /\ IsSweep(call'[c]) /\ call'[c] # call[c] =>
              /\ Remaining(c)' \subseteq Remaining(c)
              /\ \/ Remaining(c)' # Remaining(c)
                 \/ StepsLeft(call'[c].at) < StepsLeft(call[c].at)]_vars
  <2>. SUFFICES ASSUME TypeOK, SweepInv, [Next]_vars, NEW c \in Clients,
                       IsSweep(call[c]), IsSweep(call'[c]), call'[c] # call[c]
                PROVE  /\ Remaining(c)' \subseteq Remaining(c)
                       /\ \/ Remaining(c)' # Remaining(c)
                          \/ StepsLeft(call'[c].at) < StepsLeft(call[c].at)
    OBVIOUS
  <2>1. Remaining(c) = LeftOf(call[c], store) /\ Remaining(c)' = LeftOf(call'[c], store')
    BY DEF Remaining, Ahead, LeftOf, Live
  <2>. QED
    BY <2>1, SweepDescendsStep DEF Descends
<1>. QED
  BY <1>1, <1>2, <1>3, TypeCorrect, PTL DEF Spec, SweepDescends

-----------------------------------------------------------------------------
(* What is told of changes *)

(* Subscribe works on one item and deletes nothing; who does nothing is idle. *)
OpFits(cl) ==
    /\ cl.op = "Subscribe" => cl.at # "Delete" /\ \A v, w \in cl.work : v = w
    /\ cl.op = "none" => cl.at = "idle"

OpsOK == \A c \in Clients : OpFits(call[c])

LEMMA OpStep ==
    ASSUME OpsOK, NEW c \in Clients, \A d \in Clients \ {c} : call'[d] = call[d], OpFits(call'[c])
    PROVE  OpsOK'
<1>1. \A d \in Clients : OpFits(call'[d])
  BY DEF OpsOK
<1>2. (\A d \in Clients : OpFits(call[d]))'
  BY <1>1
<1>. QED
  BY <1>2 DEF OpsOK

(* Every step keeps to the operations, whatever fails. *)
LEMMA OpsStep ==
    ASSUME TypeOK, OpsOK, [Next]_vars
    PROVE  OpsOK'
<1>1. ASSUME NEW c \in Clients, Idles(c) PROVE OpsOK'
  <2>1. call'[c] = Idle /\ \A d \in Clients \ {c} : call'[d] = call[d]
    BY <1>1 DEF Idles, TypeOK, CallsOK
  <2>2. OpFits(Idle)
    BY DEF OpFits, Idle
  <2>. QED
    BY <2>1, <2>2, OpStep
<1>2. ASSUME NEW c \in Clients, NEW at, NEW acct, Goto(c, at, acct),
             at # "Delete", call[c].at # "idle"
      PROVE  OpsOK'
  <2> DEFINE r == [call[c] EXCEPT !.at = at, !.acct = acct]
  <2>1. call'[c] = r /\ \A d \in Clients \ {c} : call'[d] = call[d]
    BY <1>2 DEF Goto, TypeOK, CallsOK
  <2>2. r.op = call[c].op /\ r.at = at /\ r.work = call[c].work
    BY DEF TypeOK, CallsOK, Calls
  <2>. HIDE DEF r
  <2>3. OpFits(r)
    BY <1>2, <2>2 DEF OpsOK, OpFits
  <2>. QED
    BY <2>1, <2>3, OpStep
<1>3. ASSUME NEW c \in Clients, NEW w \in call[c].work, Advance(c, w), call[c].at # "idle"
      PROVE  OpsOK'
  <2> DEFINE rest == call[c].work \ {w}
             next == [call[c] EXCEPT !.at = "Delete", !.work = rest, !.acct = NoAccount]
             list == [call[c] EXCEPT !.at = "List", !.work = {}, !.acct = NoAccount]
  <2>1. /\ \A d \in Clients \ {c} : call'[d] = call[d]
        /\ \/ call'[c] = next /\ rest # {}
           \/ call'[c] = list
           \/ call'[c] = Idle
    BY <1>3 DEF Advance, TypeOK, CallsOK
  <2>2. /\ next.op = call[c].op /\ next.at = "Delete" /\ next.work = rest
        /\ list.op = call[c].op /\ list.at = "List" /\ list.work = {}
    BY DEF TypeOK, CallsOK, Calls
  <2>. HIDE DEF next, list
  <2>3. OpFits(Idle)
    BY DEF OpFits, Idle
  <2>4. OpFits(list)
    BY <1>3, <2>2 DEF OpsOK, OpFits
  <2>5. rest # {} => OpFits(next)
    BY <1>3, <2>2 DEF OpsOK, OpFits
  <2>. QED
    BY <2>1, <2>3, <2>4, <2>5, OpStep
<1>4. ASSUME NEW c \in Clients, NEW op \in Ops \ {"none"}, NEW at, NEW work, NEW arg,
             Start(c, op, at, work, arg),
             op = "Subscribe" => at # "Delete" /\ \A v, w \in work : v = w
      PROVE  OpsOK'
  <2> DEFINE r == [Idle EXCEPT !.op = op, !.at = at, !.work = work, !.arg = arg]
  <2>1. call'[c] = r /\ \A d \in Clients \ {c} : call'[d] = call[d]
    BY <1>4 DEF Start, TypeOK, CallsOK
  <2>2. r.op = op /\ r.at = at /\ r.work = work
    BY DEF Idle
  <2>. HIDE DEF r
  <2>3. OpFits(r)
    BY <1>4, <2>2 DEF OpFits
  <2>. QED
    BY <2>1, <2>3, OpStep
<1>5. ASSUME NEW c \in Clients, Subscribe(c) \/ Unsubscribe(c) \/ UnsubscribeByInterest(c)
      PROVE  OpsOK'
  BY <1>4, <1>5 DEF Subscribe, Unsubscribe, UnsubscribeByInterest, Ops
<1>6. ASSUME NEW c \in Clients, DeleteExtra(c) PROVE OpsOK'
  <2>1. PICK work : Start(c, "DeleteExtra", "Delete", work, 0)
    BY <1>6 DEF DeleteExtra
  <2>. QED
    BY <1>4, <2>1 DEF Ops
<1>7. ASSUME NEW c \in Clients, Request(c) \/ Created(c) \/ NotCreated(c) \/ CreatedUnseen(c)
      PROVE  OpsOK'
  <2>1. /\ call[c].at # "idle"
        /\ Idles(c) \/ \E a : Goto(c, "Create", a) \/ Goto(c, "Release", a)
    BY <1>7 DEF Request, Created, NotCreated, CreatedUnseen
  <2>. QED
    BY <1>1, <1>2, <2>1
<1>8. ASSUME NEW c \in Clients, Release(c) \/ Deleted(c) \/ NotDeleted(c) \/ Crash(c)
      PROVE  OpsOK'
  <2>1. /\ call[c].at # "idle"
        /\ \/ Idles(c)
           \/ \E a : Goto(c, "Release", a)
           \/ \E w \in call[c].work : Advance(c, w)
    BY <1>8 DEF Release, AfterRelease, Deleted, NotDeleted, Abort, Crash
  <2>. QED
    BY <1>1, <1>2, <1>3, <2>1
<1>9. ASSUME NEW c \in Clients, List(c) PROVE OpsOK'
  <2>1. IsSweep(call[c])
    BY <1>9 DEF List, TypeOK, CallsOK, CallFits, IsSweep
  <2>2. ASSUME NEW work, NEW cursor,
               call' = [call EXCEPT ![c] =
                  [@ EXCEPT !.at = "Delete", !.cursor = cursor, !.work = work]]
        PROVE  OpsOK'
    <3>1. call'[c].op = call[c].op /\ \A d \in Clients \ {c} : call'[d] = call[d]
      BY <2>2 DEF TypeOK, CallsOK, Calls
    <3>2. OpFits(call'[c])
      BY <2>1, <3>1 DEF IsSweep, OpFits
    <3>. QED
      BY <3>1, <3>2, OpStep
  <2>. QED
    BY <1>1, <1>9, <2>2 DEF List
<1>10. CASE ChangeOwner \/ UNCHANGED vars
  BY <1>10 DEF ChangeOwner, vars, OpsOK
<1>. QED
  BY <1>5, <1>6, <1>7, <1>8, <1>9, <1>10 DEF Next, Serve

(* ChangesTold is kept by a step of c that adds nothing it is not to tell itself and, *)
(* where it was to tell something before, told it or still is to.                     *)
LEMMA TellStep ==
    ASSUME ChangesTold, NEW c \in Clients, \A d \in Clients \ {c} : call'[d] = call[d],
           \A i \in untold' : \/ i \in untold /\ (Tells(call[c], i) => Tells(call'[c], i))
                             \/ Tells(call'[c], i)
    PROVE  ChangesTold'
<1>1. \A i \in untold' : \E d \in Clients : Tells(call'[d], i)
  <2>. SUFFICES ASSUME NEW i \in untold', ~Tells(call'[c], i)
                PROVE  \E d \in Clients : Tells(call'[d], i)
    OBVIOUS
  <2>1. i \in untold /\ ~Tells(call[c], i)
    OBVIOUS
  <2>2. PICK d \in Clients : Tells(call[d], i)
    BY <2>1 DEF ChangesTold
  <2>. QED
    BY <2>1, <2>2
<1>2. (\A i \in untold : \E d \in Clients : Tells(call[d], i))'
  BY <1>1
<1>. QED
  BY <1>2 DEF ChangesTold

(* A call that is no sweep and releases nothing is to tell nothing. *)
LEMMA QuietTells ==
    ASSUME ChangesTold, NEW c \in Clients, ~IsSweep(call[c]), call[c].at # "Release",
           \A d \in Clients \ {c} : call'[d] = call[d],
           untold' \subseteq untold
    PROVE  ChangesTold'
BY TellStep DEF Tells, IsSweep

LEMMA CallChanges ==
    ASSUME CallsOK, NEW c \in Clients,
           \/ Idles(c)
           \/ \E at, acct : Goto(c, at, acct)
           \/ \E w : Advance(c, w)
           \/ \E op, at, work, arg : Start(c, op, at, work, arg)
    PROVE  \A d \in Clients \ {c} : call'[d] = call[d]
BY DEF CallsOK, Idles, Goto, Advance, Start

(* A sweep remains one as long as it has something to do. *)
LEMMA SweepTells ==
    ASSUME CallsOK, NEW c \in Clients, IsSweep(call[c]), NEW w, Advance(c, w)
    PROVE  IsSweep(call'[c]) /\ call'[c].arg = call[c].arg
BY DEF CallsOK, Calls, IsSweep, Advance

(* A call that ends has told of what it was to tell. *)
LEMMA EndTells ==
    ASSUME ChangesTold, NEW c \in Clients, \A d \in Clients \ {c} : call'[d] = call[d],
           \A i \in untold' : i \in untold /\ ~Tells(call[c], i)
    PROVE  ChangesTold'
BY TellStep

(* An error of a deletion ends the call: a sweep tells of its interest, any other call *)
(* has nothing to tell then.                                                           *)
LEMMA AbortTold ==
    ASSUME TypeOK, SweepInv, ChangesTold, NEW c \in Clients, NEW w \in call[c].work,
           call[c].at = "Delete", Abort(c, w)
    PROVE  ChangesTold'
<1>1. \A d \in Clients \ {c} : call'[d] = call[d]
  BY CallChanges DEF TypeOK, Abort
<1>2. CASE IsSweep(call[c])
  <2>1. w.key[1] = call[c].arg
    BY <1>2 DEF SweepInv, SweepFits
  <2>2. \A i \in untold' : i \in untold /\ ~Tells(call[c], i)
    BY <1>2, <2>1 DEF Abort, Tells, IsSweep
  <2>. QED
    BY <1>1, <2>2, EndTells
<1>3. CASE ~IsSweep(call[c])
  <2>1. \A i \in untold' : i \in untold /\ ~Tells(call[c], i)
    BY <1>3 DEF Abort, Tells, IsSweep
  <2>. QED
    BY <1>1, <2>1, EndTells
<1>. QED
  BY <1>2, <1>3

(* What a step of the call c does to ChangesTold, by the step. *)
LEMMA DeletedTold ==
    ASSUME TypeOK, SweepInv, OpsOK, ChangesTold, NEW c \in Clients, Deleted(c)
    PROVE  ChangesTold'
<1>0. CallsOK /\ call[c].at = "Delete"
  BY DEF TypeOK, Deleted
<1>1. PICK w \in call[c].work :
         /\ IsTurn(c, w)
         /\ \/ Goto(c, "Release", w.owner) /\ untold' = untold \cup {w.key[1]}
            \/ Abort(c, w)
  BY DEF Deleted
<1>2. CASE Goto(c, "Release", w.owner) /\ untold' = untold \cup {w.key[1]}
  <2>1. /\ call'[c].op = call[c].op /\ call'[c].at = "Release" /\ call'[c].work = call[c].work
        /\ call'[c].arg = call[c].arg
    BY <1>0, <1>2 DEF Goto, CallsOK, Calls
  <2>2. Tells(call'[c], w.key[1])
    <3>1. CASE IsSweep(call[c])
      <4>1. w.key[1] = call[c].arg
        BY <3>1 DEF SweepInv, SweepFits
      <4>. QED
        BY <2>1, <3>1, <4>1 DEF Tells, IsSweep
    <3>2. CASE ~IsSweep(call[c])
      <4>1. call[c].op \in {"Unsubscribe", "DeleteExtra"}
        BY <1>0, <3>2 DEF OpsOK, OpFits, CallsOK, Calls, Ops, IsSweep
      <4>. QED
        BY <1>1, <2>1, <4>1 DEF Tells, IsTurn
    <3>. QED
      BY <3>1, <3>2
  <2>3. \A i : Tells(call[c], i) => Tells(call'[c], i)
    BY <1>0, <2>1 DEF Tells
  <2>4. \A d \in Clients \ {c} : call'[d] = call[d]
    BY <1>0, <1>2, CallChanges
  <2>. QED
    BY <1>2, <2>2, <2>3, <2>4, TellStep
<1>3. CASE Abort(c, w)
  BY <1>0, <1>3, AbortTold
<1>. QED
  BY <1>1, <1>2, <1>3

LEMMA ReleaseTold ==
    ASSUME TypeOK, SweepInv, OpsOK, ChangesTold, NEW c \in Clients, Release(c)
    PROVE  ChangesTold'
<1>0. CallsOK /\ call[c].work \in SUBSET Items
  BY DEF TypeOK, CallsOK, Calls
<1>1. PICK err \in BOOLEAN : AfterRelease(c, err)
  BY DEF Release
<1>2. PICK w \in call[c].work :
         /\ IsTurn(c, w)
         /\ IF err THEN Idles(c) ELSE Advance(c, w)
         /\ untold' = IF \/ call[c].op \in {"Unsubscribe", "DeleteExtra"}
                         \/ err /\ call[c].op = "UnsubscribeByInterest"
                      THEN untold \ {w.key[1]} ELSE untold
  BY <1>1 DEF AfterRelease
<1>3. \A d \in Clients \ {c} : call'[d] = call[d]
  BY <1>0, <1>2, CallChanges
<1>4. CASE IsSweep(call[c]) /\ err
  <2>1. w.key[1] = call[c].arg
    BY <1>4 DEF SweepInv, SweepFits
  <2>2. \A i \in untold' : i \in untold /\ ~Tells(call[c], i)
    BY <1>2, <1>4, <2>1 DEF Tells, IsSweep
  <2>. QED
    BY <1>3, <2>2, EndTells
<1>5. CASE IsSweep(call[c]) /\ ~err
  <2>1. \A i : Tells(call[c], i) => Tells(call'[c], i)
    BY <1>0, <1>2, <1>5, SweepTells DEF Tells, IsSweep
  <2>2. untold' \subseteq untold
    BY <1>2
  <2>. QED
    BY <1>3, <2>1, <2>2, TellStep
<1>6. CASE call[c].op \in {"Unsubscribe", "DeleteExtra"}
  <2>1. \A v \in call[c].work : First(call[c].work, v) => v.key = w.key
    BY <1>0, <1>2, FirstUnique DEF IsTurn, First
  <2>2. \A i \in untold' : i \in untold /\ ~Tells(call[c], i)
    BY <1>2, <1>6, <2>1 DEF Tells, First
  <2>. QED
    BY <1>3, <2>2, EndTells
<1>7. CASE ~IsSweep(call[c]) /\ call[c].op \notin {"Unsubscribe", "DeleteExtra"}
  <2>1. untold' = untold /\ \A i : ~Tells(call[c], i)
    BY <1>2, <1>7 DEF Tells, IsSweep
  <2>. QED
    BY <1>3, <2>1, EndTells
<1>. QED
  BY <1>4, <1>5, <1>6, <1>7

LEMMA NotDeletedTold ==
    ASSUME TypeOK, SweepInv, ChangesTold, NEW c \in Clients, NotDeleted(c)
    PROVE  ChangesTold'
<1>0. CallsOK /\ call[c].at = "Delete"
  BY DEF TypeOK, NotDeleted
<1>1. PICK w \in call[c].work :
         Abort(c, w) \/ (IsSweep(call[c]) /\ Advance(c, w) /\ UNCHANGED untold)
  BY DEF NotDeleted, IsSweep
<1>2. CASE Abort(c, w)
  BY <1>0, <1>2, AbortTold
<1>3. CASE IsSweep(call[c]) /\ Advance(c, w) /\ UNCHANGED untold
  <2>1. \A i : Tells(call[c], i) => Tells(call'[c], i)
    BY <1>0, <1>3, SweepTells DEF Tells, IsSweep
  <2>2. \A d \in Clients \ {c} : call'[d] = call[d]
    BY <1>0, <1>3, CallChanges
  <2>. QED
    BY <1>3, <2>1, <2>2, TellStep
<1>. QED
  BY <1>1, <1>2, <1>3

LEMMA ListTold ==
    ASSUME TypeOK, ChangesTold, NEW c \in Clients, List(c)
    PROVE  ChangesTold'
<1>0. CallsOK /\ IsSweep(call[c])
  BY DEF TypeOK, CallsOK, CallFits, List, IsSweep
<1>1. CASE Idles(c) /\ untold' = untold \ {call[c].arg}
  <2>1. \A i \in untold' : i \in untold /\ ~Tells(call[c], i)
    BY <1>0, <1>1 DEF Tells, IsSweep
  <2>2. \A d \in Clients \ {c} : call'[d] = call[d]
    BY <1>0, <1>1, CallChanges
  <2>. QED
    BY <2>1, <2>2, EndTells
<1>2. ASSUME NEW work, NEW cursor, UNCHANGED untold,
             call' = [call EXCEPT ![c] =
                [@ EXCEPT !.at = "Delete", !.cursor = cursor, !.work = work]]
      PROVE  ChangesTold'
  <2>1. /\ call'[c].op = call[c].op /\ call'[c].arg = call[c].arg
        /\ \A d \in Clients \ {c} : call'[d] = call[d]
    BY <1>0, <1>2 DEF CallsOK, Calls
  <2>2. \A i : Tells(call[c], i) => Tells(call'[c], i)
    BY <1>0, <2>1 DEF Tells, IsSweep
  <2>. QED
    BY <1>2, <2>1, <2>2, TellStep
<1>. QED
  BY <1>1, <1>2 DEF List

(* What a process that dies was going to tell is excepted. *)
LEMMA CrashTold ==
    ASSUME TypeOK, ChangesTold, NEW c \in Clients, Crash(c)
    PROVE  ChangesTold'
<1>1. \A d \in Clients \ {c} : call'[d] = call[d]
  BY CallChanges DEF TypeOK, Crash
<1>. QED
  BY <1>1, EndTells DEF Crash

(* A call that has not begun, or is at a step before the deletion, tells nothing. *)
LEMMA OtherTold ==
    ASSUME TypeOK, SweepInv, ChangesTold, NEW c \in Clients,
           \/ Subscribe(c) \/ Unsubscribe(c) \/ UnsubscribeByInterest(c) \/ DeleteExtra(c)
           \/ Request(c) \/ Created(c) \/ CreatedUnseen(c) \/ NotCreated(c)
    PROVE  ChangesTold'
<1>0. CallsOK
  BY DEF TypeOK
<1>1. CASE \/ Subscribe(c) \/ Unsubscribe(c) \/ UnsubscribeByInterest(c) \/ DeleteExtra(c)
  <2>1. PICK op, at, work, arg : Start(c, op, at, work, arg)
    BY <1>1 DEF Subscribe, Unsubscribe, UnsubscribeByInterest, DeleteExtra
  <2>2. call[c].at = "idle" /\ UNCHANGED untold
    BY <2>1 DEF Start
  <2>3. ~IsSweep(call[c])
    BY <2>2 DEF SweepInv, SweepFits
  <2>. QED
    BY <1>0, <2>1, <2>2, <2>3, CallChanges, QuietTells
<1>2. CASE Request(c) \/ Created(c) \/ CreatedUnseen(c) \/ NotCreated(c)
  <2>1. /\ call[c].at \in {"Request", "Create"}
        /\ untold' \subseteq untold
        /\ Idles(c) \/ \E at, acct : Goto(c, at, acct)
    BY <1>2 DEF Request, Created, CreatedUnseen, NotCreated
  <2>2. ~IsSweep(call[c])
    BY <2>1 DEF SweepInv, SweepFits
  <2>. QED
    BY <1>0, <2>1, <2>2, CallChanges, QuietTells
<1>. QED
  BY <1>1, <1>2

(* A change that a call knows it made is told: in every reachable state ChangesTold,    *)
(* whatever fails on the way, whatever the callers, the owners' changes and the page    *)
(* limits.                                                                              *)
THEOREM ChangesAreTold == Spec => []ChangesTold
<1>1. Init => SweepInv /\ OpsOK /\ ChangesTold
  <2>. SUFFICES ASSUME Init PROVE SweepInv /\ OpsOK /\ ChangesTold
    OBVIOUS
  <2>1. SweepInv
    BY IdleSweep DEF Init, SweepInv
  <2>2. OpFits(Idle)
    BY DEF OpFits, Idle
  <2>3. OpsOK /\ ChangesTold
    BY <2>2 DEF Init, OpsOK, ChangesTold
  <2>. QED
    BY <2>1, <2>3
<1>2. TypeOK /\ SweepInv /\ OpsOK /\ ChangesTold /\ [Next]_vars
        => SweepInv' /\ OpsOK' /\ ChangesTold'
  <2>. SUFFICES ASSUME TypeOK, SweepInv, OpsOK, ChangesTold, [Next]_vars
                PROVE  SweepInv' /\ OpsOK' /\ ChangesTold'
    OBVIOUS
  <2>1. ASSUME ChangeOwner \/ UNCHANGED vars PROVE ChangesTold'
    BY <2>1 DEF ChangeOwner, vars, ChangesTold
  <2>2. ChangesTold'
    BY <2>1, DeletedTold, ReleaseTold, NotDeletedTold, ListTold, CrashTold, OtherTold
       DEF Next, Serve
  <2>. QED
    BY <2>2, OpsStep, SweepInvStep
<1>. QED
  BY <1>1, <1>2, TypeCorrect, PTL DEF Spec
=============================================================================
