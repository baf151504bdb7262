-------------------------- MODULE SubServiceProofs --------------------------
(***************************************************************************)
(* Theorems of SubService for any sets of interests, urls, callers, owners *)
(* and accounts, with every fault the model has.                           *)
(***************************************************************************)
EXTENDS SubService, FiniteSetTheorems, TLAPS

(* Giving one caller a well-formed record keeps the calls well formed. *)
LEMMA CallStep ==
    ASSUME CallsOK, NEW c \in Clients, NEW r \in Calls, CallFits(r),
           call' = [call EXCEPT ![c] = r]
    PROVE  CallsOK'
BY DEF CallsOK

LEMMA IdleFits == Idle \in Calls /\ CallFits(Idle)
BY AccountAssumption DEF Idle, Calls, CallFits, Ops, Steps

LEMMA IdlesFits ==
    ASSUME CallsOK, NEW c \in Clients, Idles(c)
    PROVE  CallsOK'
BY CallStep, IdleFits DEF Idles

LEMMA StartFits ==
    ASSUME CallsOK, NEW c \in Clients, NEW op \in Ops, NEW at \in {"Request", "Delete", "List"},
           NEW work \in SUBSET Items, NEW arg \in Interests \cup {0},
           at = "Request" => \A w \in work : w.owner \in Owners,
           at = "List" => op = "UnsubscribeByInterest",
           op = "UnsubscribeByInterest" => arg \in Interests,
           Start(c, op, at, work, arg)
    PROVE  CallsOK'
<1> DEFINE r == [Idle EXCEPT !.op = op, !.at = at, !.work = work, !.arg = arg]
<1>1. r \in Calls /\ CallFits(r)
  BY AccountAssumption DEF Idle, Calls, CallFits, Steps
<1>2. call' = [call EXCEPT ![c] = r]
  BY DEF Start
<1>. HIDE DEF r
<1>. QED
  BY <1>1, <1>2, CallStep

LEMMA AdvanceFits ==
    ASSUME CallsOK, NEW c \in Clients, NEW w, Advance(c, w)
    PROVE  CallsOK'
<1> DEFINE rest == call[c].work \ {w}
           next == [call[c] EXCEPT !.at = "Delete", !.work = rest, !.acct = NoAccount]
           list == [call[c] EXCEPT !.at = "List", !.work = {}, !.acct = NoAccount]
<1>1. call[c] \in Calls /\ CallFits(call[c])
  BY DEF CallsOK
<1>2. next \in Calls /\ CallFits(next) /\ list \in Calls
  BY <1>1, AccountAssumption DEF Calls, CallFits, Steps
<1>3. call[c].op = "UnsubscribeByInterest" => CallFits(list)
  BY <1>1, AccountAssumption DEF Calls, CallFits, Steps
<1>4. \/ call' = [call EXCEPT ![c] = next]
      \/ call[c].op = "UnsubscribeByInterest" /\ call' = [call EXCEPT ![c] = list]
      \/ call' = [call EXCEPT ![c] = Idle]
  BY DEF Advance, CallsOK
<1>. HIDE DEF next, list
<1>. QED
  BY <1>2, <1>3, <1>4, CallStep, IdleFits

(* Moving one caller to another step of its call, with or without a permit. *)
LEMMA MoveFits ==
    ASSUME CallsOK, NEW c \in Clients, NEW at \in Steps, NEW acct \in Accounts \cup {NoAccount},
           acct \in Accounts <=> at \in {"Create", "Release"},
           at \in {"Request", "Create"} => call[c].at \in {"Request", "Create"},
           at = "List" => call[c].op = "UnsubscribeByInterest",
           Goto(c, at, acct)
    PROVE  CallsOK'
<1> DEFINE r == [call[c] EXCEPT !.at = at, !.acct = acct]
<1>1. call[c] \in Calls /\ CallFits(call[c])
  BY DEF CallsOK
<1>2. r \in Calls
  BY <1>1 DEF Calls
<1>3. r.at = at /\ r.acct = acct /\ r.op = call[c].op /\ r.work = call[c].work /\ r.arg = call[c].arg
  BY <1>1 DEF Calls
<1>4. CallFits(r)
  BY <1>1, <1>3 DEF CallFits
<1>5. call' = [call EXCEPT ![c] = r]
  BY DEF Goto
<1>. HIDE DEF r
<1>. QED
  BY <1>2, <1>4, <1>5, CallStep

(* What the items of a call are about. *)
LEMMA ItemType ==
    ASSUME CallsOK, NEW c \in Clients, NEW w \in call[c].work
    PROVE  /\ w \in Items
           /\ w.key \in Keys
           /\ w.key[1] \in Interests
           /\ w.owner \in Accounts
           /\ call[c].at \in {"Request", "Create"} => w.owner \in Owners
<1>1. call[c] \in Calls /\ CallFits(call[c])
  BY DEF CallsOK
<1>. QED
  BY <1>1, AccountAssumption DEF Calls, CallFits, Items, Keys

LEMMA PlusType ==
    ASSUME NEW f \in [Accounts -> Nat], NEW a \in Accounts
    PROVE  Plus(f, a) \in [Accounts -> Nat]
BY DEF Plus

LEMMA RenewType ==
    ASSUME HistoryOK, NEW ks \in SUBSET Keys, Renew(ks)
    PROVE  resub' \in [Clients -> SUBSET Keys]
BY DEF HistoryOK, Renew

LEMMA StartType ==
    ASSUME TypeOK, NEW c \in Clients, NEW op, NEW at, NEW work, NEW arg,
           Start(c, op, at, work, arg)
    PROVE  StoreOK' /\ LedgerOK' /\ HistoryOK'
BY DEF Start, TypeOK, StoreOK, LedgerOK, HistoryOK, ledger

LEMMA AbortFits ==
    ASSUME CallsOK, HistoryOK, NEW c \in Clients, NEW w \in call[c].work,
           Abort(c, w), UNCHANGED resub
    PROVE  CallsOK' /\ HistoryOK'
BY IdlesFits, ItemType DEF Abort, HistoryOK

LEMMA AfterReleaseFits ==
    ASSUME CallsOK, HistoryOK, NEW c \in Clients, NEW err \in BOOLEAN, AfterRelease(c, err),
           UNCHANGED resub
    PROVE  CallsOK' /\ HistoryOK'
<1>1. PICK w \in call[c].work :
         /\ Idles(c) \/ Advance(c, w)
         /\ untold' \subseteq untold
  BY DEF AfterRelease
<1>2. CallsOK'
  BY <1>1, IdlesFits, AdvanceFits
<1>. QED
  BY <1>1, <1>2 DEF HistoryOK

(* Type correctness of the store, the ledger and the calls. *)
THEOREM TypeCorrect == Spec => []TypeOK
<1>1. Init => TypeOK
  <2> SUFFICES ASSUME Init PROVE TypeOK
    OBVIOUS
  <2>1. StoreOK /\ LedgerOK
    BY AccountAssumption DEF Init, StoreOK, LedgerOK
  <2>2. CallsOK
    BY IdleFits DEF Init, CallsOK
  <2>3. HistoryOK
    BY DEF Init, HistoryOK
  <2>. QED
    BY <2>1, <2>2, <2>3 DEF TypeOK
<1>2. TypeOK /\ [Next]_vars => TypeOK'
  <2> SUFFICES ASSUME StoreOK, LedgerOK, CallsOK, HistoryOK, [Next]_vars
               PROVE  StoreOK' /\ LedgerOK' /\ CallsOK' /\ HistoryOK'
    BY DEF TypeOK
  <2>0. TypeOK
    BY DEF TypeOK
  <2>1. ASSUME NEW c \in Clients, Subscribe(c)
        PROVE  StoreOK' /\ LedgerOK' /\ CallsOK' /\ HistoryOK'
    <3>1. PICK w \in [key : Keys, owner : Owners] : Start(c, "Subscribe", "Request", {w}, 0)
      BY <2>1 DEF Subscribe
    <3>2. {w} \in SUBSET Items /\ w.owner \in Owners
      BY DEF Items
    <3>. QED
      BY <2>0, <3>1, <3>2, StartType, StartFits DEF Ops
  <2>2. ASSUME NEW c \in Clients, Unsubscribe(c)
        PROVE  StoreOK' /\ LedgerOK' /\ CallsOK' /\ HistoryOK'
    <3>1. PICK w \in [key : Keys, owner : Owners] : Start(c, "Unsubscribe", "Delete", {w}, 0)
      BY <2>2 DEF Unsubscribe
    <3>2. {w} \in SUBSET Items
      BY DEF Items
    <3>. QED
      BY <2>0, <3>1, <3>2, StartType, StartFits DEF Ops
  <2>3. ASSUME NEW c \in Clients, UnsubscribeByInterest(c)
        PROVE  StoreOK' /\ LedgerOK' /\ CallsOK' /\ HistoryOK'
    <3>1. PICK i \in Interests : Start(c, "UnsubscribeByInterest", "List", {}, i)
      BY <2>3 DEF UnsubscribeByInterest
    <3>. QED
      BY <2>0, <3>1, StartType, StartFits DEF Ops
  <2>4. ASSUME NEW c \in Clients, DeleteExtra(c)
        PROVE  StoreOK' /\ LedgerOK' /\ CallsOK' /\ HistoryOK'
    <3>0. PICK o \in Owners, n \in TrimLimits :
             \E page \in {{k \in Keys : store[k] = o}} \cup Pages({k \in Keys : store[k] = o}) :
               Start(c, "DeleteExtra", "Delete",
                     {[key |-> k, owner |-> o] : k \in page \ FirstOf(page, n)}, 0)
      BY <2>4 DEF DeleteExtra
    <3>a. PICK page \in {{k \in Keys : store[k] = o}} \cup Pages({k \in Keys : store[k] = o}) :
             Start(c, "DeleteExtra", "Delete",
                   {[key |-> k, owner |-> o] : k \in page \ FirstOf(page, n)}, 0)
      BY <3>0
    <3> DEFINE extra == page \ FirstOf(page, n)
    <3>1. /\ Start(c, "DeleteExtra", "Delete", {[key |-> k, owner |-> o] : k \in extra}, 0)
          /\ extra \in SUBSET Keys
      BY <3>a DEF Pages, FirstOf
    <3>. HIDE DEF extra
    <3>2. {[key |-> k, owner |-> o] : k \in extra} \in SUBSET Items
      BY <3>1 DEF Items
    <3>. QED
      BY <2>0, <3>1, <3>2, StartType, StartFits DEF Ops
  <2>5. ASSUME NEW c \in Clients, Request(c)
        PROVE  StoreOK' /\ LedgerOK' /\ CallsOK' /\ HistoryOK'
    <3>1. PICK a \in Accounts :
             \/ net' = Plus(net, a) /\ Goto(c, "Create", a) /\ UNCHANGED leaked
             \/ net' = Plus(net, a) /\ leaked' = Plus(leaked, a) /\ Idles(c)
             \/ Idles(c) /\ UNCHANGED <<net, leaked>>
      BY <2>5 DEF Request
    <3>2. CallsOK'
      BY <2>5, <3>1, IdlesFits, MoveFits DEF Request, Steps
    <3>3. LedgerOK'
      BY <2>5, <3>1, PlusType DEF Request, LedgerOK, Plus
    <3>. QED
      BY <2>5, <3>2, <3>3 DEF Request, StoreOK, HistoryOK
  <2>6. ASSUME NEW c \in Clients, Created(c)
        PROVE  StoreOK' /\ LedgerOK' /\ CallsOK' /\ HistoryOK'
    <3>1. PICK w \in call[c].work :
             /\ store' = [store EXCEPT ![w.key] = w.owner]
             /\ paid' = [paid EXCEPT ![w.key] = call[c].acct]
             /\ untold' = untold \ {w.key[1]}
             /\ Renew({w.key})
      BY <2>6 DEF Created
    <3>2. w.key \in Keys /\ w.key[1] \in Interests /\ w.owner \in Owners
      BY <2>6, ItemType DEF Created
    <3>3. call[c].acct \in Accounts
      BY <2>6 DEF Created, CallsOK, CallFits
    <3>4. StoreOK'
      BY <3>1, <3>2, <3>3, AccountAssumption DEF StoreOK
    <3>5. HistoryOK'
      BY <2>6, <3>1, <3>2, RenewType DEF Created, HistoryOK
    <3>. QED
      BY <2>6, <3>4, <3>5, IdlesFits DEF Created, LedgerOK
  <2>7. ASSUME NEW c \in Clients, CreatedUnseen(c)
        PROVE  StoreOK' /\ LedgerOK' /\ CallsOK' /\ HistoryOK'
    <3>1. PICK w \in call[c].work :
             /\ store' = [store EXCEPT ![w.key] = w.owner]
             /\ paid' = [paid EXCEPT ![w.key] = call[c].acct]
             /\ excess' = Plus(excess, call[c].acct)
             /\ Renew({w.key})
      BY <2>7 DEF CreatedUnseen
    <3>2. w.key \in Keys /\ w.key[1] \in Interests /\ w.owner \in Owners
      BY <2>7, ItemType DEF CreatedUnseen
    <3>3. call[c].acct \in Accounts
      BY <2>7 DEF CreatedUnseen, CallsOK, CallFits
    <3>4. StoreOK'
      BY <3>1, <3>2, <3>3, AccountAssumption DEF StoreOK
    <3>5. LedgerOK'
      BY <2>7, <3>1, <3>3, PlusType DEF CreatedUnseen, LedgerOK
    <3>6. HistoryOK'
      BY <2>7, <3>1, <3>2, RenewType DEF CreatedUnseen, HistoryOK
    <3>7. CallsOK'
      BY <2>7, <3>3, MoveFits DEF CreatedUnseen, Steps
    <3>. QED
      BY <3>4, <3>5, <3>6, <3>7
  <2>8. ASSUME NEW c \in Clients, NotCreated(c)
        PROVE  StoreOK' /\ LedgerOK' /\ CallsOK' /\ HistoryOK'
    <3>1. call[c].acct \in Accounts
      BY <2>8 DEF NotCreated, CallsOK, CallFits
    <3>2. CallsOK'
      BY <2>8, <3>1, MoveFits DEF NotCreated, Steps
    <3>. QED
      BY <2>8, <3>2 DEF NotCreated, StoreOK, LedgerOK, HistoryOK, ledger
  <2>9. ASSUME NEW c \in Clients, Release(c)
        PROVE  StoreOK' /\ LedgerOK' /\ CallsOK' /\ HistoryOK'
    <3>1. call[c].acct \in Accounts
      BY <2>9 DEF Release, CallsOK, CallFits
    <3>2. CallsOK' /\ HistoryOK'
      BY <2>9, AfterReleaseFits DEF Release
    <3>3. /\ net' = [net EXCEPT ![call[c].acct] = @ - 1] \/ net' = net
          /\ leaked' = Plus(leaked, call[c].acct) \/ leaked' = leaked
          /\ excess' = excess
      BY <2>9 DEF Release
    <3>4. LedgerOK'
      BY <3>1, <3>3, PlusType DEF LedgerOK
    <3>. QED
      BY <2>9, <3>2, <3>4 DEF Release, StoreOK
  <2>10. ASSUME NEW c \in Clients, Deleted(c)
         PROVE  StoreOK' /\ LedgerOK' /\ CallsOK' /\ HistoryOK'
    <3>1. PICK w \in call[c].work :
             /\ store' = [store EXCEPT ![w.key] = None]
             /\ paid' = [paid EXCEPT ![w.key] = NoAccount]
             /\ \/ /\ Goto(c, "Release", w.owner)
                   /\ leaked' = IF paid[w.key] \in Accounts \ {w.owner}
                                THEN Plus(leaked, paid[w.key]) ELSE leaked
                   /\ excess' = IF paid[w.key] # w.owner THEN Plus(excess, w.owner) ELSE excess
                   /\ untold' = untold \cup {w.key[1]}
                \/ /\ leaked' = IF paid[w.key] \in Accounts
                                THEN Plus(leaked, paid[w.key]) ELSE leaked
                   /\ Abort(c, w)
                   /\ UNCHANGED excess
      BY <2>10 DEF Deleted
    <3>2. w.key \in Keys /\ w.key[1] \in Interests /\ w.owner \in Accounts
      BY ItemType
    <3>3. StoreOK'
      BY <3>1, <3>2 DEF StoreOK
    <3>4. LedgerOK'
      BY <2>10, <3>1, <3>2, PlusType DEF Deleted, LedgerOK
    <3>5. ASSUME Goto(c, "Release", w.owner), untold' = untold \cup {w.key[1]}
          PROVE  CallsOK' /\ HistoryOK'
      BY <2>10, <3>2, <3>5, MoveFits DEF Deleted, Steps, HistoryOK
    <3>6. ASSUME Abort(c, w) PROVE CallsOK' /\ HistoryOK'
      BY <2>10, <3>6, AbortFits DEF Deleted
    <3>. QED
      BY <3>1, <3>3, <3>4, <3>5, <3>6
  <2>11. ASSUME NEW c \in Clients, NotDeleted(c)
         PROVE  StoreOK' /\ LedgerOK' /\ CallsOK' /\ HistoryOK'
    <3>1. PICK w \in call[c].work : Abort(c, w) \/ (Advance(c, w) /\ UNCHANGED untold)
      BY <2>11 DEF NotDeleted
    <3>2. CallsOK' /\ HistoryOK'
      BY <2>11, <3>1, AbortFits, AdvanceFits DEF NotDeleted, HistoryOK
    <3>. QED
      BY <2>11, <3>2 DEF NotDeleted, StoreOK, LedgerOK, ledger
  <2>12. ASSUME NEW c \in Clients, List(c)
         PROVE  StoreOK' /\ LedgerOK' /\ CallsOK' /\ HistoryOK'
    <3>1. call[c] \in Calls /\ CallFits(call[c]) /\ call[c].at = "List" /\ call[c].arg \in Interests
      BY <2>12 DEF List, CallsOK, CallFits
    <3>2. ASSUME NEW page \in SUBSET Live, NEW last \in page,
                 call' = [call EXCEPT ![c] =
                      [@ EXCEPT !.at = "Delete", !.cursor = last[2],
                                !.work = {[key |-> k, owner |-> store[k]] : k \in page}]]
          PROVE  CallsOK'
      <4> DEFINE items == {[key |-> k, owner |-> store[k]] : k \in page}
                 r == [call[c] EXCEPT !.at = "Delete", !.cursor = last[2], !.work = items]
      <4>1. items \in SUBSET Items /\ last[2] \in Urls
        BY <3>2 DEF Live, StoreOK, Items, Keys
      <4>. HIDE DEF items
      <4>2. r \in Calls /\ CallFits(r)
        BY <3>1, <4>1 DEF Calls, CallFits, Steps
      <4>3. call' = [call EXCEPT ![c] = r]
        BY <3>2 DEF items
      <4>. HIDE DEF r
      <4>. QED
        BY <4>2, <4>3, CallStep
    <3>3. CallsOK'
      BY <2>12, <3>2, IdlesFits DEF List, Pages, FirstOf
    <3>. QED
      BY <2>12, <3>1, <3>3 DEF List, StoreOK, LedgerOK, HistoryOK, ledger
  <2>13. ASSUME NEW c \in Clients, Crash(c)
         PROVE  StoreOK' /\ LedgerOK' /\ CallsOK' /\ HistoryOK'
    <3>1. call[c].acct \in Accounts \cup {NoAccount}
      BY DEF CallsOK, Calls
    <3>2. LedgerOK'
      BY <2>13, <3>1, PlusType DEF Crash, LedgerOK
    <3>. QED
      BY <2>13, <3>2, IdlesFits DEF Crash, StoreOK, HistoryOK
  <2>14. CASE ChangeOwner
    <3>1. PICK m \in Owners \X Owners :
             /\ store' = [k \in Keys |-> IF store[k] = m[1] THEN m[2] ELSE store[k]]
             /\ Renew({k \in Keys : store[k] = m[1]})
      BY <2>14, BoundsAssumption DEF ChangeOwner
    <3>2. StoreOK'
      BY <2>14, <3>1, AccountAssumption DEF ChangeOwner, StoreOK, ledger
    <3>3. HistoryOK'
      BY <2>14, <3>1, RenewType DEF ChangeOwner, HistoryOK
    <3>. QED
      BY <2>14, <3>2, <3>3 DEF ChangeOwner, CallsOK, LedgerOK, ledger
  <2>15. CASE UNCHANGED vars
    BY <2>15 DEF vars, ledger, StoreOK, LedgerOK, CallsOK, HistoryOK
  <2>. QED
    BY <2>1, <2>2, <2>3, <2>4, <2>5, <2>6, <2>7, <2>8, <2>9, <2>10, <2>11, <2>12, <2>13,
       <2>14, <2>15 DEF Next, Serve
<1>. QED
  BY <1>1, <1>2, PTL DEF Spec

-----------------------------------------------------------------------------

One(b) == IF b THEN 1 ELSE 0

(* Two finite sets that differ in x at most differ by one in size. *)
LEMMA Tally ==
    ASSUME NEW S, IsFiniteSet(S), NEW x, NEW P \in SUBSET S, NEW Q \in SUBSET S,
           \A y : y # x => (y \in P <=> y \in Q)
    PROVE  /\ Cardinality(P) \in Nat /\ Cardinality(Q) \in Nat
           /\ Cardinality(Q) = Cardinality(P) + One(x \in Q) - One(x \in P)
<1>1. IsFiniteSet(P) /\ IsFiniteSet(Q)
  BY FS_Subset
<1>2. Cardinality(P) \in Nat /\ Cardinality(Q) \in Nat
  BY <1>1, FS_CardinalityType
<1>3. CASE x \in P <=> x \in Q
  <2>1. P = Q
    BY <1>3
  <2>. QED
    BY <1>2, <2>1 DEF One
<1>4. CASE x \in Q /\ x \notin P
  <2>1. Q = P \cup {x}
    BY <1>4
  <2>2. Cardinality(Q) = Cardinality(P) + 1
    BY <1>1, <1>4, <2>1, FS_AddElement
  <2>. QED
    BY <1>2, <1>4, <2>2 DEF One
<1>5. CASE x \in P /\ x \notin Q
  <2>1. P = Q \cup {x}
    BY <1>5
  <2>2. Cardinality(P) = Cardinality(Q) + 1
    BY <1>1, <1>5, <2>1, FS_AddElement
  <2>. QED
    BY <1>2, <1>5, <2>2 DEF One
<1>. QED
  BY <1>3, <1>4, <1>5

At(x, a) == IF x = a THEN 1 ELSE 0

(* How many subscriptions an account pays for, when one key is written. *)
LEMMA PaidTally ==
    ASSUME NEW k \in Keys, NEW a,
           \A j \in Keys : j # k => paid'[j] = paid[j]
    PROVE  /\ Cardinality(PaidBy(a)) \in Nat /\ Cardinality(PaidBy(a))' \in Nat
           /\ Cardinality(PaidBy(a))' =
                 Cardinality(PaidBy(a)) + At(paid'[k], a) - At(paid[k], a)
<1> DEFINE P == PaidBy(a)
           Q == PaidBy(a)'
<1>1. /\ P \in SUBSET Keys /\ Q \in SUBSET Keys
      /\ \A y : y # k => (y \in P <=> y \in Q)
      /\ k \in P <=> paid[k] = a
      /\ k \in Q <=> paid'[k] = a
  BY DEF PaidBy
<1>2. /\ Cardinality(P) \in Nat /\ Cardinality(Q) \in Nat
      /\ Cardinality(Q) = Cardinality(P) + One(k \in Q) - One(k \in P)
  <2>. HIDE DEF P, Q
  <2>. QED
    BY <1>1, Tally, FiniteAssumption
<1>. QED
  BY <1>1, <1>2 DEF One, At

(* How many callers hold a permit of an account, when one of them takes a step. *)
LEMMA HeldTally ==
    ASSUME NEW c \in Clients, NEW a,
           \A d \in Clients : d # c => call'[d] = call[d]
    PROVE  /\ Cardinality(HeldOn(a)) \in Nat /\ Cardinality(HeldOn(a))' \in Nat
           /\ Cardinality(HeldOn(a))' =
                 Cardinality(HeldOn(a)) + At(call'[c].acct, a) - At(call[c].acct, a)
<1> DEFINE P == HeldOn(a)
           Q == HeldOn(a)'
<1>1. /\ P \in SUBSET Clients /\ Q \in SUBSET Clients
      /\ \A y : y # c => (y \in P <=> y \in Q)
      /\ c \in P <=> call[c].acct = a
      /\ c \in Q <=> call'[c].acct = a
  BY DEF HeldOn
<1>2. /\ Cardinality(P) \in Nat /\ Cardinality(Q) \in Nat
      /\ Cardinality(Q) = Cardinality(P) + One(c \in Q) - One(c \in P)
  <2>. HIDE DEF P, Q
  <2>. QED
    BY <1>1, Tally, FiniteAssumption
<1>. QED
  BY <1>1, <1>2 DEF One, At

(* Only the call of c changes, and c holds a permit of acct afterwards. *)
Holds(c, acct) ==
    /\ \A d \in Clients : d # c => call'[d] = call[d]
    /\ call'[c].acct = acct

LEMMA GotoHolds ==
    ASSUME CallsOK, NEW c \in Clients, NEW at, NEW acct, Goto(c, at, acct)
    PROVE  Holds(c, acct)
BY DEF CallsOK, Calls, Goto, Holds

LEMMA IdlesHolds ==
    ASSUME CallsOK, NEW c \in Clients, Idles(c)
    PROVE  Holds(c, NoAccount)
BY DEF CallsOK, Idles, Idle, Holds

LEMMA AdvanceHolds ==
    ASSUME CallsOK, NEW c \in Clients, NEW w, Advance(c, w)
    PROVE  Holds(c, NoAccount)
<1> DEFINE r == IF call[c].work \ {w} # {}
                THEN [call[c] EXCEPT !.at = "Delete", !.work = call[c].work \ {w}, !.acct = NoAccount]
                ELSE IF call[c].op = "UnsubscribeByInterest"
                     THEN [call[c] EXCEPT !.at = "List", !.work = {}, !.acct = NoAccount]
                     ELSE Idle
<1>1. call' = [call EXCEPT ![c] = r]
  BY DEF Advance, CallsOK
<1>2. r.acct = NoAccount
  BY DEF CallsOK, Calls, Idle
<1>. HIDE DEF r
<1>. QED
  BY <1>1, <1>2 DEF Holds, CallsOK

LEMMA AfterReleaseHolds ==
    ASSUME CallsOK, NEW c \in Clients, NEW err \in BOOLEAN, AfterRelease(c, err)
    PROVE  Holds(c, NoAccount)
<1>1. Idles(c) \/ \E w \in call[c].work : Advance(c, w)
  BY DEF AfterRelease
<1>. QED
  BY <1>1, IdlesHolds, AdvanceHolds

(* The balance of an account is kept by changes that cancel out. *)
LEMMA BooksBalance ==
    ASSUME NEW n \in Int, NEW p \in Int, NEW h \in Int, NEW l \in Int, NEW e \in Int,
           NEW m \in Int, NEW f \in Int, NEW x \in Int, NEW y \in Int,
           x + y + (m - l) - (f - e) = 0,
           n = p + h + l - e
    PROVE  n = (p + x) + (h + y) + m - f
OBVIOUS

(* What the step of c writes into the books of account a when it leaves the charges *)
(* of the subscriptions alone, and when it charges key k to p instead.              *)
CallBooks(a, c, acct) ==
    net'[a] = net[a] + At(acct, a) - At(call[c].acct, a)
              + (leaked'[a] - leaked[a]) - (excess'[a] - excess[a])

KeyBooks(a, c, acct, k, p) ==
    (At(p, a) - At(paid[k], a)) + (At(acct, a) - At(call[c].acct, a))
    + (leaked'[a] - leaked[a]) - (excess'[a] - excess[a]) = 0

(* Balanced survives a step of c that leaves the charges of the subscriptions alone. *)
LEMMA BalanceOfCall ==
    ASSUME LedgerOK, NEW a \in Accounts, Balanced(a), NEW c \in Clients, NEW acct, Holds(c, acct),
           UNCHANGED paid, LedgerOK',
           CallBooks(a, c, acct)
    PROVE  Balanced(a)'
<1>1. /\ Cardinality(HeldOn(a)) \in Nat /\ Cardinality(HeldOn(a))' \in Nat
      /\ Cardinality(HeldOn(a))' =
            Cardinality(HeldOn(a)) + At(acct, a) - At(call[c].acct, a)
  BY HeldTally DEF Holds
<1>2. Cardinality(PaidBy(a))' = Cardinality(PaidBy(a)) /\ Cardinality(PaidBy(a)) \in Nat
  <2>1. PaidBy(a)' = PaidBy(a) /\ PaidBy(a) \subseteq Keys
    BY DEF PaidBy
  <2>. QED
    BY <2>1, FiniteAssumption, FS_Subset, FS_CardinalityType
<1>3. /\ net[a] \in Int /\ leaked[a] \in Nat /\ excess[a] \in Nat
      /\ net'[a] \in Int /\ leaked'[a] \in Nat /\ excess'[a] \in Nat
      /\ At(acct, a) \in Int /\ At(call[c].acct, a) \in Int
  BY DEF LedgerOK, At
<1>4. net[a] = Cardinality(PaidBy(a)) + Cardinality(HeldOn(a)) + leaked[a] - excess[a]
  BY DEF Balanced
<1>5. net'[a] = Cardinality(PaidBy(a))' + Cardinality(HeldOn(a))' + leaked'[a] - excess'[a]
  BY <1>1, <1>2, <1>3, <1>4 DEF CallBooks
<1>. QED
  BY <1>5 DEF Balanced

(* Balanced survives a step of c that also changes who is charged for key k. *)
LEMMA BalanceOfKey ==
    ASSUME LedgerOK, NEW a \in Accounts, Balanced(a), NEW c \in Clients, NEW acct, Holds(c, acct),
           NEW k \in Keys, NEW p, StoreOK, paid' = [paid EXCEPT ![k] = p], UNCHANGED net, LedgerOK',
           KeyBooks(a, c, acct, k, p)
    PROVE  Balanced(a)'
<1>1. /\ Cardinality(HeldOn(a)) \in Nat /\ Cardinality(HeldOn(a))' \in Nat
      /\ Cardinality(HeldOn(a))' =
            Cardinality(HeldOn(a)) + At(acct, a) - At(call[c].acct, a)
  BY HeldTally DEF Holds
<1>2. /\ Cardinality(PaidBy(a)) \in Nat /\ Cardinality(PaidBy(a))' \in Nat
      /\ Cardinality(PaidBy(a))' = Cardinality(PaidBy(a)) + At(p, a) - At(paid[k], a)
  <2>1. paid'[k] = p /\ \A j \in Keys : j # k => paid'[j] = paid[j]
    BY DEF StoreOK
  <2>. QED
    BY <2>1, PaidTally
<1>3. /\ net[a] \in Int /\ leaked[a] \in Nat /\ excess[a] \in Nat
      /\ net'[a] = net[a] /\ leaked'[a] \in Nat /\ excess'[a] \in Nat
      /\ At(acct, a) \in Int /\ At(call[c].acct, a) \in Int
      /\ At(p, a) \in Int /\ At(paid[k], a) \in Int
  BY DEF LedgerOK, At
<1>4. net[a] = Cardinality(PaidBy(a)) + Cardinality(HeldOn(a)) + leaked[a] - excess[a]
  BY DEF Balanced
<1> DEFINE x == At(p, a) - At(paid[k], a)
           y == At(acct, a) - At(call[c].acct, a)
<1>5. x \in Int /\ y \in Int
  BY <1>3
<1>6. x + y + (leaked'[a] - leaked[a]) - (excess'[a] - excess[a]) = 0
  BY DEF KeyBooks
<1>7. /\ Cardinality(PaidBy(a))' = Cardinality(PaidBy(a)) + x
      /\ Cardinality(HeldOn(a))' = Cardinality(HeldOn(a)) + y
  BY <1>1, <1>2, <1>3
<1>. HIDE DEF x, y
<1>8. net[a] = (Cardinality(PaidBy(a)) + x) + (Cardinality(HeldOn(a)) + y) + leaked'[a] - excess'[a]
  <2> DEFINE P == Cardinality(PaidBy(a))
             H == Cardinality(HeldOn(a))
             n == net[a]
             l == leaked[a]
             e == excess[a]
             m == leaked'[a]
             f == excess'[a]
  <2>1. P \in Int /\ H \in Int /\ n \in Int /\ l \in Int /\ e \in Int /\ m \in Int /\ f \in Int
    BY <1>1, <1>2, <1>3
  <2>2. n = P + H + l - e /\ x + y + (m - l) - (f - e) = 0
    BY <1>4, <1>6
  <2>. HIDE DEF P, H, n, l, e, m, f
  <2>3. n = (P + x) + (H + y) + m - f
    BY <1>5, <2>1, <2>2, BooksBalance
  <2>. QED
    BY <2>3 DEF P, H, n, l, e, m, f
<1>9. net'[a] = Cardinality(PaidBy(a))' + Cardinality(HeldOn(a))' + leaked'[a] - excess'[a]
  BY <1>3, <1>7, <1>8
<1>. QED
  BY <1>9 DEF Balanced

(* A step that touches neither the ledger nor anybody's permit keeps the balance. *)
LEMMA BalanceUntouched ==
    ASSUME NEW a \in Accounts, Balanced(a), UNCHANGED <<net, paid, leaked, excess>>,
           \A c \in Clients : call'[c].acct = call[c].acct
    PROVE  Balanced(a)'
<1>1. PaidBy(a)' = PaidBy(a) /\ HeldOn(a)' = HeldOn(a)
  BY DEF PaidBy, HeldOn
<1>. QED
  BY <1>1 DEF Balanced

LEMMA StartBalance ==
    ASSUME NEW a \in Accounts, Balanced(a), CallsOK, NEW c \in Clients,
           NEW op, NEW at, NEW work, NEW arg, Start(c, op, at, work, arg)
    PROVE  Balanced(a)'
<1>1. call[c].acct = NoAccount
  BY AccountAssumption DEF Start, CallsOK, CallFits, Calls
<1>2. call'[c].acct = NoAccount
  BY DEF Start, CallsOK, Idle
<1>3. \A d \in Clients : call'[d].acct = call[d].acct
  BY <1>1, <1>2 DEF Start, CallsOK
<1>. QED
  BY <1>3, BalanceUntouched DEF Start, ledger

LEMMA PlusAt ==
    ASSUME NEW f \in [Accounts -> Int], NEW p \in Accounts, NEW a \in Accounts
    PROVE  Plus(f, p)[a] = f[a] + At(p, a)
BY DEF Plus, At

(* Every step keeps the ledger of every account balanced. *)
LEMMA BalanceStep ==
    ASSUME TypeOK, TypeOK', NEW a \in Accounts, Balanced(a), [Next]_vars
    PROVE  Balanced(a)'
<1>0. StoreOK /\ LedgerOK /\ CallsOK /\ LedgerOK' /\ CallsOK'
  BY DEF TypeOK
<1>a. /\ net \in [Accounts -> Int] /\ leaked \in [Accounts -> Int] /\ excess \in [Accounts -> Int]
      /\ net[a] \in Int /\ leaked[a] \in Int /\ excess[a] \in Int
  BY <1>0 DEF LedgerOK
<1>b. At(NoAccount, a) = 0 /\ \A x : At(x, a) \in {0, 1}
  BY AccountAssumption DEF At
<1>1. ASSUME NEW c \in Clients,
             Subscribe(c) \/ Unsubscribe(c) \/ UnsubscribeByInterest(c) \/ DeleteExtra(c)
      PROVE  Balanced(a)'
  BY <1>0, <1>1, StartBalance DEF Subscribe, Unsubscribe, UnsubscribeByInterest, DeleteExtra
<1>2. ASSUME NEW c \in Clients, Request(c) PROVE Balanced(a)'
  <2>1. call[c].acct = NoAccount /\ UNCHANGED <<paid, excess>>
    BY <1>0, <1>2, AccountAssumption DEF Request, CallsOK, CallFits, Calls
  <2>2. PICK p \in Accounts :
           \/ net' = Plus(net, p) /\ Goto(c, "Create", p) /\ UNCHANGED leaked
           \/ net' = Plus(net, p) /\ leaked' = Plus(leaked, p) /\ Idles(c)
           \/ Idles(c) /\ UNCHANGED <<net, leaked>>
    BY <1>2 DEF Request
  <2>3. CASE net' = Plus(net, p) /\ Goto(c, "Create", p) /\ UNCHANGED leaked
    <3>1. Holds(c, p)
      BY <1>0, <2>3, GotoHolds
    <3>2. net'[a] = net[a] + At(p, a)
      BY <1>a, <2>3, PlusAt
    <3>3. CallBooks(a, c, p)
      BY <1>a, <1>b, <2>1, <2>3, <3>2 DEF CallBooks
    <3>. QED
      BY <1>0, <2>1, <3>1, <3>3, BalanceOfCall
  <2>4. CASE net' = Plus(net, p) /\ leaked' = Plus(leaked, p) /\ Idles(c)
    <3>1. Holds(c, NoAccount)
      BY <1>0, <2>4, IdlesHolds
    <3>2. net'[a] = net[a] + At(p, a) /\ leaked'[a] = leaked[a] + At(p, a)
      BY <1>a, <2>4, PlusAt
    <3>3. CallBooks(a, c, NoAccount)
      BY <1>a, <1>b, <2>1, <2>4, <3>2 DEF CallBooks
    <3>. QED
      BY <1>0, <2>1, <3>1, <3>3, BalanceOfCall
  <2>5. CASE Idles(c) /\ UNCHANGED <<net, leaked>>
    <3>1. Holds(c, NoAccount)
      BY <1>0, <2>5, IdlesHolds
    <3>2. CallBooks(a, c, NoAccount)
      BY <1>a, <1>b, <2>1, <2>5 DEF CallBooks
    <3>. QED
      BY <1>0, <2>1, <3>1, <3>2, BalanceOfCall
  <2>. QED
    BY <2>2, <2>3, <2>4, <2>5
<1>3. ASSUME NEW c \in Clients, Created(c) PROVE Balanced(a)'
  <2>1. PICK w \in call[c].work :
           /\ store[w.key] = None
           /\ paid' = [paid EXCEPT ![w.key] = call[c].acct]
    BY <1>3 DEF Created
  <2>2. w.key \in Keys /\ paid[w.key] = NoAccount
    BY <1>0, <1>3, <2>1, ItemType DEF StoreOK
  <2>3. Holds(c, NoAccount) /\ UNCHANGED <<net, leaked, excess>>
    BY <1>0, <1>3, IdlesHolds DEF Created
  <2>4. KeyBooks(a, c, NoAccount, w.key, call[c].acct)
    BY <1>a, <1>b, <2>2, <2>3 DEF KeyBooks
  <2>. QED
    BY <1>0, <2>1, <2>2, <2>3, <2>4, BalanceOfKey
<1>4. ASSUME NEW c \in Clients, CreatedUnseen(c) PROVE Balanced(a)'
  <2>1. PICK w \in call[c].work :
           /\ store[w.key] = None
           /\ paid' = [paid EXCEPT ![w.key] = call[c].acct]
           /\ excess' = Plus(excess, call[c].acct)
    BY <1>4 DEF CreatedUnseen
  <2>2. w.key \in Keys /\ paid[w.key] = NoAccount
    BY <1>0, <1>4, <2>1, ItemType DEF StoreOK
  <2>3. call[c].acct \in Accounts
    BY <1>0, <1>4 DEF CreatedUnseen, CallsOK, CallFits
  <2>4. Holds(c, call[c].acct) /\ UNCHANGED <<net, leaked>>
    BY <1>0, <1>4, GotoHolds DEF CreatedUnseen
  <2>5. excess'[a] = excess[a] + At(call[c].acct, a)
    BY <1>a, <2>1, <2>3, PlusAt
  <2>6. KeyBooks(a, c, call[c].acct, w.key, call[c].acct)
    BY <1>a, <1>b, <2>2, <2>4, <2>5 DEF KeyBooks
  <2>. QED
    BY <1>0, <2>1, <2>2, <2>4, <2>6, BalanceOfKey
<1>5. ASSUME NEW c \in Clients, NotCreated(c) PROVE Balanced(a)'
  <2>1. Holds(c, call[c].acct) /\ UNCHANGED <<net, paid, leaked, excess>>
    BY <1>0, <1>5, GotoHolds DEF NotCreated, ledger
  <2>2. CallBooks(a, c, call[c].acct)
    BY <1>a, <1>b, <2>1 DEF CallBooks
  <2>. QED
    BY <1>0, <2>1, <2>2, BalanceOfCall
<1>6. ASSUME NEW c \in Clients, Release(c) PROVE Balanced(a)'
  <2>1. call[c].acct \in Accounts /\ UNCHANGED <<paid, excess>>
    BY <1>0, <1>6 DEF Release, CallsOK, CallFits
  <2>2. Holds(c, NoAccount)
    BY <1>0, <1>6, AfterReleaseHolds DEF Release
  <2>3. CASE net' = [net EXCEPT ![call[c].acct] = @ - 1] /\ UNCHANGED leaked
    <3>1. net'[a] = net[a] - At(call[c].acct, a)
      BY <1>a, <2>1, <2>3 DEF At
    <3>2. CallBooks(a, c, NoAccount)
      BY <1>a, <1>b, <2>1, <2>3, <3>1 DEF CallBooks
    <3>. QED
      BY <1>0, <2>1, <2>2, <3>2, BalanceOfCall
  <2>4. CASE leaked' = Plus(leaked, call[c].acct) /\ UNCHANGED net
    <3>1. leaked'[a] = leaked[a] + At(call[c].acct, a)
      BY <1>a, <2>1, <2>4, PlusAt
    <3>2. CallBooks(a, c, NoAccount)
      BY <1>a, <1>b, <2>1, <2>4, <3>1 DEF CallBooks
    <3>. QED
      BY <1>0, <2>1, <2>2, <3>2, BalanceOfCall
  <2>. QED
    BY <1>6, <2>3, <2>4 DEF Release
<1>7. ASSUME NEW c \in Clients, Deleted(c) PROVE Balanced(a)'
  <2>1. PICK w \in call[c].work :
           /\ paid' = [paid EXCEPT ![w.key] = NoAccount]
           /\ \/ /\ Goto(c, "Release", w.owner)
                 /\ leaked' = IF paid[w.key] \in Accounts \ {w.owner}
                              THEN Plus(leaked, paid[w.key]) ELSE leaked
                 /\ excess' = IF paid[w.key] # w.owner THEN Plus(excess, w.owner) ELSE excess
              \/ /\ leaked' = IF paid[w.key] \in Accounts
                              THEN Plus(leaked, paid[w.key]) ELSE leaked
                 /\ Abort(c, w)
                 /\ UNCHANGED excess
    BY <1>7 DEF Deleted
  <2>2. /\ w.key \in Keys /\ w.owner \in Accounts /\ call[c].acct = NoAccount
        /\ paid[w.key] \in Accounts \cup {NoAccount}
        /\ UNCHANGED net
    BY <1>0, <1>7, ItemType, AccountAssumption DEF Deleted, CallsOK, CallFits, Calls, StoreOK
  <2>3. CASE /\ Goto(c, "Release", w.owner)
             /\ leaked' = IF paid[w.key] \in Accounts \ {w.owner}
                          THEN Plus(leaked, paid[w.key]) ELSE leaked
             /\ excess' = IF paid[w.key] # w.owner THEN Plus(excess, w.owner) ELSE excess
    <3>1. Holds(c, w.owner)
      BY <1>0, <2>3, GotoHolds
    <3>2. (leaked'[a] - leaked[a]) - (excess'[a] - excess[a]) = At(paid[w.key], a) - At(w.owner, a)
      <4>1. CASE paid[w.key] = w.owner
        BY <1>a, <1>b, <2>3, <4>1
      <4>2. CASE paid[w.key] # w.owner /\ paid[w.key] \in Accounts
        <5>1. leaked'[a] = leaked[a] + At(paid[w.key], a) /\ excess'[a] = excess[a] + At(w.owner, a)
          BY <1>a, <2>2, <2>3, <4>2, PlusAt
        <5>. QED
          BY <1>a, <1>b, <5>1
      <4>3. CASE paid[w.key] = NoAccount
        <5>1. leaked'[a] = leaked[a] /\ excess'[a] = excess[a] + At(w.owner, a)
          BY <1>a, <2>2, <2>3, <4>3, PlusAt, AccountAssumption
        <5>. QED
          BY <1>a, <1>b, <4>3, <5>1
      <4>. QED
        BY <2>2, <4>1, <4>2, <4>3
    <3>3. KeyBooks(a, c, w.owner, w.key, NoAccount)
      <4>1. leaked'[a] \in Int /\ excess'[a] \in Int
        BY <1>0 DEF LedgerOK
      <4>. QED
        BY <1>a, <1>b, <2>2, <3>2, <4>1 DEF KeyBooks
    <3>. QED
      BY <1>0, <2>1, <2>2, <3>1, <3>3, BalanceOfKey
  <2>4. CASE /\ leaked' = IF paid[w.key] \in Accounts THEN Plus(leaked, paid[w.key]) ELSE leaked
             /\ Abort(c, w)
             /\ UNCHANGED excess
    <3>1. Holds(c, NoAccount)
      BY <1>0, <2>4, IdlesHolds DEF Abort
    <3>2. leaked'[a] = leaked[a] + At(paid[w.key], a)
      <4>1. CASE paid[w.key] \in Accounts
        BY <1>a, <2>4, <4>1, PlusAt
      <4>2. CASE paid[w.key] = NoAccount
        BY <1>a, <1>b, <2>4, <4>2, AccountAssumption
      <4>. QED
        BY <2>2, <4>1, <4>2
    <3>3. KeyBooks(a, c, NoAccount, w.key, NoAccount)
      BY <1>a, <1>b, <2>2, <2>4, <3>2 DEF KeyBooks
    <3>. QED
      BY <1>0, <2>1, <2>2, <3>1, <3>3, BalanceOfKey
  <2>. QED
    BY <2>1, <2>3, <2>4
<1>8. ASSUME NEW c \in Clients, NotDeleted(c) PROVE Balanced(a)'
  <2>1. call[c].acct = NoAccount /\ UNCHANGED <<net, paid, leaked, excess>>
    BY <1>0, <1>8 DEF NotDeleted, CallsOK, CallFits, Calls, ledger
  <2>2. Holds(c, NoAccount)
    BY <1>0, <1>8, IdlesHolds, AdvanceHolds DEF NotDeleted, Abort
  <2>3. CallBooks(a, c, NoAccount)
    BY <1>a, <1>b, <2>1 DEF CallBooks
  <2>. QED
    BY <1>0, <2>1, <2>2, <2>3, BalanceOfCall
<1>9. ASSUME NEW c \in Clients, List(c) PROVE Balanced(a)'
  <2>1. call[c].acct = NoAccount /\ UNCHANGED <<net, paid, leaked, excess>>
    BY <1>0, <1>9 DEF List, CallsOK, CallFits, Calls, ledger
  <2>2. Holds(c, NoAccount)
    <3>1. \/ Idles(c)
          \/ \E work, cursor : call' = [call EXCEPT ![c] =
                [@ EXCEPT !.at = "Delete", !.cursor = cursor, !.work = work]]
      BY <1>9 DEF List
    <3>2. ASSUME NEW work, NEW cursor,
                 call' = [call EXCEPT ![c] =
                    [@ EXCEPT !.at = "Delete", !.cursor = cursor, !.work = work]]
          PROVE  Holds(c, NoAccount)
      BY <1>0, <2>1, <3>2 DEF Holds, CallsOK, Calls
    <3>. QED
      BY <1>0, <3>1, <3>2, IdlesHolds
  <2>3. CallBooks(a, c, NoAccount)
    BY <1>a, <1>b, <2>1 DEF CallBooks
  <2>. QED
    BY <1>0, <2>1, <2>2, <2>3, BalanceOfCall
<1>10. ASSUME NEW c \in Clients, Crash(c) PROVE Balanced(a)'
  <2>1. /\ call[c].acct \in Accounts \cup {NoAccount} /\ Holds(c, NoAccount)
        /\ UNCHANGED <<net, paid, excess>>
    BY <1>0, <1>10, IdlesHolds DEF Crash, CallsOK, Calls
  <2>2. leaked'[a] = leaked[a] + At(call[c].acct, a)
    <3>1. CASE call[c].acct = NoAccount
      BY <1>a, <1>b, <1>10, <3>1 DEF Crash
    <3>2. CASE call[c].acct \in Accounts
      BY <1>a, <1>10, <3>2, PlusAt, AccountAssumption DEF Crash
    <3>. QED
      BY <2>1, <3>1, <3>2
  <2>3. CallBooks(a, c, NoAccount)
    BY <1>a, <1>b, <2>1, <2>2 DEF CallBooks
  <2>. QED
    BY <1>0, <2>1, <2>3, BalanceOfCall
<1>11. CASE ChangeOwner \/ UNCHANGED vars
  BY <1>11, BalanceUntouched DEF ChangeOwner, vars, ledger
<1>. QED
  BY <1>1, <1>2, <1>3, <1>4, <1>5, <1>6, <1>7, <1>8, <1>9, <1>10, <1>11 DEF Next, Serve

(* The ledger of usage permits is conserved: Conservation holds in every reachable *)
(* state, with lost replies, failed releases, crashes, group permits, legacy       *)
(* records and ownership changes in any number.                                    *)
THEOREM LedgerConserved == Spec => []Conservation
<1>1. Init => Conservation
  <2> SUFFICES ASSUME Init, NEW a \in Accounts PROVE Balanced(a)
    BY DEF Conservation
  <2>1. PaidBy(a) = {} /\ HeldOn(a) = {}
    BY AccountAssumption DEF Init, PaidBy, HeldOn, Idle
  <2>. QED
    BY <2>1, FS_EmptySet DEF Init, Balanced
<1>2. TypeOK /\ TypeOK' /\ Conservation /\ [Next]_vars => Conservation'
  BY BalanceStep DEF Conservation
<1>. QED
  BY <1>1, <1>2, TypeCorrect, PTL DEF Spec

(* What the usage service guarantees by itself: an account is never granted more *)
(* permits than its limit allows.                                                *)
Granted == \A a \in Accounts : net[a] <= Limit

LEMMA GrantedStep ==
    ASSUME TypeOK, Granted, [Next]_vars
    PROVE  Granted'
<1>0. net \in [Accounts -> Int] /\ Limit \in Nat
  BY BoundsAssumption DEF TypeOK, LedgerOK
<1>1. ASSUME NEW c \in Clients, Request(c) PROVE Granted'
  <2>1. PICK p \in Accounts : (net[p] < Limit /\ net' = Plus(net, p)) \/ UNCHANGED net
    BY <1>1 DEF Request
  <2>. QED
    BY <1>0, <2>1 DEF Granted, Plus
<1>2. ASSUME NEW c \in Clients, Release(c) PROVE Granted'
  <2>1. net' = [net EXCEPT ![call[c].acct] = @ - 1] \/ UNCHANGED net
    BY <1>2 DEF Release
  <2>. QED
    BY <1>0, <2>1 DEF Granted
<1>3. CASE UNCHANGED net
  BY <1>3 DEF Granted
<1>4. ASSUME NEW c \in Clients,
             Subscribe(c) \/ Unsubscribe(c) \/ UnsubscribeByInterest(c) \/ DeleteExtra(c)
      PROVE  UNCHANGED net
  BY <1>4 DEF Subscribe, Unsubscribe, UnsubscribeByInterest, DeleteExtra, Start, ledger
<1>5. ASSUME NEW c \in Clients,
             \/ Created(c) \/ CreatedUnseen(c) \/ NotCreated(c) \/ Deleted(c) \/ NotDeleted(c)
             \/ List(c) \/ Crash(c)
      PROVE  UNCHANGED net
  BY <1>5 DEF Created, CreatedUnseen, NotCreated, Deleted, NotDeleted, List, Crash, ledger
<1>6. CASE ChangeOwner \/ UNCHANGED vars
  BY <1>3, <1>6 DEF ChangeOwner, vars, ledger
<1>. QED
  BY <1>1, <1>2, <1>3, <1>4, <1>5, <1>6 DEF Next, Serve

(* QuotaKept holds in every reachable state: as the ledger balances and the usage  *)
(* service keeps to its limit, an account carries more live subscriptions than the *)
(* limit only by the permits that the service released for the wrong record.       *)
THEOREM QuotaRespected == Spec => []QuotaKept
<1>1. Init => Granted
  BY BoundsAssumption DEF Init, Granted
<1>2. TypeOK /\ Granted /\ [Next]_vars => Granted'
  BY GrantedStep
<1>3. TypeOK /\ Conservation /\ Granted => QuotaKept
  <2> SUFFICES ASSUME TypeOK, Conservation, Granted, NEW a \in Accounts
               PROVE  Cardinality(PaidBy(a)) <= Limit + excess[a]
    BY DEF QuotaKept
  <2>1. /\ net[a] \in Int /\ leaked[a] \in Nat /\ excess[a] \in Nat
        /\ Limit \in Nat /\ net[a] <= Limit
    BY BoundsAssumption DEF TypeOK, LedgerOK, Granted
  <2>2. Cardinality(PaidBy(a)) \in Nat /\ Cardinality(HeldOn(a)) \in Nat
    <3>1. PaidBy(a) \subseteq Keys /\ HeldOn(a) \subseteq Clients
      BY DEF PaidBy, HeldOn
    <3>. QED
      BY <3>1, FiniteAssumption, FS_Subset, FS_CardinalityType
  <2>3. net[a] = Cardinality(PaidBy(a)) + Cardinality(HeldOn(a)) + leaked[a] - excess[a]
    BY DEF Conservation, Balanced
  <2>. QED
    BY <2>1, <2>2, <2>3
<1>. QED
  BY <1>1, <1>2, <1>3, TypeCorrect, LedgerConserved, PTL DEF Spec

-----------------------------------------------------------------------------
(* The exactness of the ledger, where nothing fails. *)

(* Nothing fails, no owner changes, no record is older than the permits, and every *)
(* permit is granted on the account of the user it is requested for.               *)
Faultless ==
    /\ ~CanFail
    /\ Moves = {} /\ LegacyKeys = {}
    /\ \A o \in Owners : Charged[o] = {o}

(* No permit got lost, and whatever is live is charged to its owner. *)
Faithful ==
    /\ \A a \in Accounts : leaked[a] = 0 /\ excess[a] = 0
    /\ \A k \in Keys : store[k] \in Owners \cup {None} /\ (store[k] \in Owners => paid[k] = store[k])

(* A call works for owners; the one that a permit is requested for has it at Create. *)
CallFaithful(r) ==
    /\ \A w \in r.work : w.owner \in Owners /\ (r.at = "Create" => r.acct = w.owner)
    /\ r.at = "Request" => \A v, w \in r.work : v = w

CallsFaithful == \A c \in Clients : CallFaithful(call[c])

LEMMA FaithfulCall ==
    ASSUME CallsFaithful, NEW c \in Clients, \A d \in Clients \ {c} : call'[d] = call[d],
           CallFaithful(call'[c])
    PROVE  CallsFaithful'
<1>1. \A d \in Clients : CallFaithful(call'[d])
  BY DEF CallsFaithful
<1>2. (\A d \in Clients : CallFaithful(call[d]))'
  BY <1>1
<1>. QED
  BY <1>2 DEF CallsFaithful

LEMMA FaithfulIdles ==
    ASSUME CallsOK, CallsFaithful, NEW c \in Clients, Idles(c)
    PROVE  CallsFaithful'
<1>1. CallFaithful(call'[c]) /\ \A d \in Clients \ {c} : call'[d] = call[d]
  BY DEF Idles, Idle, CallsOK, CallFaithful
<1>. QED
  BY <1>1, FaithfulCall

LEMMA FaithfulStart ==
    ASSUME CallsOK, CallsFaithful, NEW c \in Clients, NEW op, NEW at, NEW work, NEW arg,
           Start(c, op, at, work, arg), at # "Create", \A w \in work : w.owner \in Owners,
           at = "Request" => \A v, w \in work : v = w
    PROVE  CallsFaithful'
<1>1. call'[c].work = work /\ call'[c].at = at /\ \A d \in Clients \ {c} : call'[d] = call[d]
  BY DEF Start, Idle, CallsOK
<1>. QED
  BY <1>1, FaithfulCall DEF CallFaithful

LEMMA FaithfulGoto ==
    ASSUME CallsOK, CallsFaithful, NEW c \in Clients, NEW at, NEW acct, Goto(c, at, acct),
           at # "Request", at = "Create" => \A w \in call[c].work : acct = w.owner
    PROVE  CallsFaithful'
<1>1. /\ call'[c].work = call[c].work /\ call'[c].at = at /\ call'[c].acct = acct
      /\ \A d \in Clients \ {c} : call'[d] = call[d]
  BY DEF Goto, CallsOK, Calls
<1>. QED
  BY <1>1, FaithfulCall DEF CallsFaithful, CallFaithful

LEMMA FaithfulAdvance ==
    ASSUME CallsOK, CallsFaithful, NEW c \in Clients, NEW w, Advance(c, w)
    PROVE  CallsFaithful'
<1> DEFINE rest == call[c].work \ {w}
           next == [call[c] EXCEPT !.at = "Delete", !.work = rest, !.acct = NoAccount]
           list == [call[c] EXCEPT !.at = "List", !.work = {}, !.acct = NoAccount]
<1>1. /\ \A d \in Clients \ {c} : call'[d] = call[d]
      /\ call'[c] = next \/ call'[c] = list \/ call'[c] = Idle
  BY DEF Advance, CallsOK
<1>2. next.at = "Delete" /\ next.work = rest /\ list.work = {} /\ Idle.work = {}
  BY DEF CallsOK, Calls, Idle
<1>. HIDE DEF next, list
<1>3. CallFaithful(next) /\ CallFaithful(list) /\ CallFaithful(Idle)
  BY <1>2 DEF CallsFaithful, CallFaithful
<1>. QED
  BY <1>1, <1>3, FaithfulCall

LEMMA FaithfulStep ==
    ASSUME Faultless, TypeOK, Faithful, CallsFaithful, [Next]_vars
    PROVE  Faithful' /\ CallsFaithful'
<1>0. StoreOK /\ LedgerOK /\ CallsOK /\ ~CanFail
  BY DEF TypeOK, Faultless
<1>a. UNCHANGED <<store, paid, leaked, excess>> => Faithful'
  BY DEF Faithful
<1>1. ASSUME NEW c \in Clients, Subscribe(c) \/ Unsubscribe(c) \/ UnsubscribeByInterest(c)
      PROVE  Faithful' /\ CallsFaithful'
  <2>1. CallsFaithful'
    <3>1. ASSUME NEW w \in [key : Keys, owner : Owners], NEW op, NEW at, at # "Create",
                 Start(c, op, at, {w}, 0)
          PROVE  CallsFaithful'
      <4>1. \A v \in {w} : v.owner \in Owners
        OBVIOUS
      <4>2. \A u, v \in {w} : u = v
        OBVIOUS
      <4>. QED
        BY <1>0, <3>1, <4>1, <4>2, FaithfulStart
    <3>2. CASE Subscribe(c) \/ Unsubscribe(c)
      BY <3>1, <3>2 DEF Subscribe, Unsubscribe
    <3>3. CASE UnsubscribeByInterest(c)
      BY <1>0, <3>3, FaithfulStart DEF UnsubscribeByInterest
    <3>. QED
      BY <1>1, <3>2, <3>3
  <2>2. UNCHANGED <<store, paid, leaked, excess>>
    BY <1>1 DEF Subscribe, Unsubscribe, UnsubscribeByInterest, Start, ledger
  <2>. QED
    BY <1>a, <2>1, <2>2
<1>2. ASSUME NEW c \in Clients, DeleteExtra(c) PROVE Faithful' /\ CallsFaithful'
  <2>a. PICK o \in Owners :
           \E keys : Start(c, "DeleteExtra", "Delete", {[key |-> k, owner |-> o] : k \in keys}, 0)
    BY <1>2 DEF DeleteExtra
  <2>1. PICK keys : Start(c, "DeleteExtra", "Delete", {[key |-> k, owner |-> o] : k \in keys}, 0)
    BY <2>a
  <2>2. \A w \in {[key |-> k, owner |-> o] : k \in keys} : w.owner \in Owners
    OBVIOUS
  <2> DEFINE work == {[key |-> k, owner |-> o] : k \in keys}
  <2>3. Start(c, "DeleteExtra", "Delete", work, 0) /\ \A w \in work : w.owner \in Owners
    BY <2>1, <2>2
  <2>. HIDE DEF work
  <2>4. CallsFaithful'
    BY <1>0, <2>3, FaithfulStart
  <2>. QED
    BY <1>0, <1>a, <1>2, <2>4 DEF DeleteExtra, Start, ledger
<1>3. ASSUME NEW c \in Clients, Request(c) PROVE Faithful' /\ CallsFaithful'
  <2>1. PICK v \in call[c].work, a \in Accounts :
           a \in Charged[v.owner] /\ (Idles(c) \/ Goto(c, "Create", a)) /\ UNCHANGED leaked
    BY <1>0, <1>3 DEF Request
  <2>2. \A w \in call[c].work : a = w.owner
    BY <1>3, <2>1 DEF Request, CallsFaithful, CallFaithful, Faultless
  <2>. QED
    BY <1>0, <1>3, <1>a, <2>1, <2>2, FaithfulIdles, FaithfulGoto DEF Request
<1>4. ASSUME NEW c \in Clients, Created(c) PROVE Faithful' /\ CallsFaithful'
  <2>1. PICK w \in call[c].work :
           /\ store' = [store EXCEPT ![w.key] = w.owner]
           /\ paid' = [paid EXCEPT ![w.key] = call[c].acct]
    BY <1>4 DEF Created
  <2>2. w.key \in Keys /\ w.owner \in Owners /\ call[c].acct = w.owner
    BY <1>0, <1>4, <2>1, ItemType DEF Created, CallsFaithful, CallFaithful
  <2>3. UNCHANGED <<leaked, excess>>
    BY <1>4 DEF Created
  <2>4. Faithful'
    BY <1>0, <2>1, <2>2, <2>3 DEF Faithful, StoreOK
  <2>. QED
    BY <1>0, <1>4, <2>4, FaithfulIdles DEF Created
<1>5. ASSUME NEW c \in Clients, NotCreated(c) PROVE Faithful' /\ CallsFaithful'
  BY <1>0, <1>5, <1>a, FaithfulGoto DEF NotCreated, ledger
<1>6. ASSUME NEW c \in Clients, Release(c) PROVE Faithful' /\ CallsFaithful'
  <2>1. UNCHANGED <<store, paid, leaked, excess>>
    BY <1>0, <1>6 DEF Release
  <2>2. Idles(c) \/ \E w : Advance(c, w)
    BY <1>6 DEF Release, AfterRelease
  <2>. QED
    BY <1>0, <1>a, <2>1, <2>2, FaithfulIdles, FaithfulAdvance
<1>7. ASSUME NEW c \in Clients, Deleted(c) PROVE Faithful' /\ CallsFaithful'
  <2>1. PICK w \in call[c].work :
           /\ store[w.key] \in {w.owner, Legacy}
           /\ store' = [store EXCEPT ![w.key] = None]
           /\ paid' = [paid EXCEPT ![w.key] = NoAccount]
           /\ Goto(c, "Release", w.owner)
           /\ leaked' = IF paid[w.key] \in Accounts \ {w.owner}
                        THEN Plus(leaked, paid[w.key]) ELSE leaked
           /\ excess' = IF paid[w.key] # w.owner THEN Plus(excess, w.owner) ELSE excess
    BY <1>0, <1>7 DEF Deleted
  <2>2. w.key \in Keys /\ w.owner \in Owners
    BY <1>0, <2>1, ItemType DEF CallsFaithful, CallFaithful
  <2>3. paid[w.key] = w.owner
    BY <2>1, <2>2, AccountAssumption DEF Faithful
  <2>4. UNCHANGED <<leaked, excess>>
    BY <2>1, <2>3
  <2>5. Faithful'
    BY <1>0, <2>1, <2>2, <2>4, AccountAssumption DEF Faithful, StoreOK
  <2>. QED
    BY <1>0, <2>1, <2>5, FaithfulGoto
<1>8. ASSUME NEW c \in Clients, NotDeleted(c) PROVE Faithful' /\ CallsFaithful'
  <2>1. Idles(c) \/ \E w : Advance(c, w)
    BY <1>8 DEF NotDeleted, Abort
  <2>. QED
    BY <1>0, <1>8, <1>a, <2>1, FaithfulIdles, FaithfulAdvance DEF NotDeleted, ledger
<1>9. ASSUME NEW c \in Clients, List(c) PROVE Faithful' /\ CallsFaithful'
  <2>1. ASSUME NEW page \in SUBSET Live, NEW cursor,
               call' = [call EXCEPT ![c] =
                  [@ EXCEPT !.at = "Delete", !.cursor = cursor,
                            !.work = {[key |-> k, owner |-> store[k]] : k \in page}]]
        PROVE  CallsFaithful'
    <3> DEFINE items == {[key |-> k, owner |-> store[k]] : k \in page}
    <3>1. \A w \in items : w.owner \in Owners
      BY <2>1, AccountAssumption DEF Faithful, Live
    <3>2. /\ call'[c].work = items /\ call'[c].at = "Delete"
          /\ \A d \in Clients \ {c} : call'[d] = call[d]
      BY <1>0, <2>1 DEF CallsOK, Calls
    <3>. HIDE DEF items
    <3>. QED
      BY <3>1, <3>2, FaithfulCall DEF CallFaithful
  <2>2. CallsFaithful'
    BY <1>0, <1>9, <2>1, FaithfulIdles DEF List, Pages, FirstOf
  <2>. QED
    BY <1>9, <1>a, <2>2 DEF List, ledger
<1>10. CASE ChangeOwner
  BY <1>10 DEF ChangeOwner, Faultless
<1>11. CASE UNCHANGED vars
  BY <1>a, <1>11 DEF vars, ledger, CallsFaithful
<1>. QED
  BY <1>0, <1>1, <1>2, <1>3, <1>4, <1>5, <1>6, <1>7, <1>8, <1>9, <1>10, <1>11
     DEF Next, Serve, CreatedUnseen, Crash

(* Where nothing fails, no owner changes and permits are granted per user, the usage *)
(* service counts exactly the live subscriptions of every owner and those that are   *)
(* being created or deleted right now: LedgerExact holds in every reachable state.   *)
THEOREM LedgerIsExact ==
    ASSUME Faultless
    PROVE  Spec => []LedgerExact
<1>1. Init => Faithful /\ CallsFaithful
  BY AccountAssumption DEF Init, Faithful, CallsFaithful, CallFaithful, Idle, Faultless
<1>2. TypeOK /\ Faithful /\ CallsFaithful /\ [Next]_vars => Faithful' /\ CallsFaithful'
  BY FaithfulStep
<1>3. TypeOK /\ Conservation /\ Faithful => LedgerExact
  <2> SUFFICES ASSUME TypeOK, Conservation, Faithful, NEW o \in Owners
               PROVE  net[o] = Cardinality({k \in Keys : store[k] = o}) + Cardinality(HeldOn(o))
    BY DEF LedgerExact
  <2>1. PaidBy(o) = {k \in Keys : store[k] = o}
    BY AccountAssumption DEF PaidBy, Faithful, TypeOK, StoreOK
  <2>2. Cardinality(PaidBy(o)) \in Nat /\ Cardinality(HeldOn(o)) \in Nat
    <3>1. PaidBy(o) \subseteq Keys /\ HeldOn(o) \subseteq Clients
      BY DEF PaidBy, HeldOn
    <3>. QED
      BY <3>1, FiniteAssumption, FS_Subset, FS_CardinalityType
  <2>3. o \in Accounts /\ leaked[o] = 0 /\ excess[o] = 0
    BY AccountAssumption DEF Faithful
  <2>4. net[o] = Cardinality(PaidBy(o)) + Cardinality(HeldOn(o)) + leaked[o] - excess[o]
    BY <2>3 DEF Conservation, Balanced
  <2>. QED
    BY <2>1, <2>2, <2>3, <2>4
<1>. QED
  BY <1>1, <1>2, <1>3, TypeCorrect, LedgerConserved, PTL DEF Spec
=============================================================================
