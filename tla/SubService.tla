----------------------------- MODULE SubService -----------------------------
(***************************************************************************)
(* service/service.go: the calls that change subscriptions and the ledger  *)
(* of usage permits kept by the usage service.  A call is a goroutine that *)
(* alternates between the storage and the usage service; every remote call *)
(* is one step, so all interleavings of callers are here, and so are the   *)
(* points where a reply is lost, a release fails or the process dies.      *)
(* The storage is used through the contract of SubRegistry: a creation     *)
(* succeeds only on a free key, a deletion only on a matching live one.    *)
(***************************************************************************)
EXTENDS Integers, FiniteSets

CONSTANTS
    Interests,  \* interest ids, ordered as the storage sorts them
    Urls,       \* subscription urls, ordered; the cursor 0 is before all of them
    Clients,    \* concurrent callers of the service
    Owners,     \* the pairs (group id, user id)
    Accounts,   \* the usage accounts: one per owner, and those of whole groups
    Charged,    \* for every owner, the accounts a permit may be acknowledged on
    Legacy,     \* owner of a record without group and user, and its account
    None,       \* no owner: the key is not subscribed
    NoAccount,  \* no account
    LegacyKeys, \* the records an older version left behind
    Moves,      \* the ownership changes that are requested
    Limit,      \* permits the usage service acknowledges on one account
    PageSizes,  \* the limits page queries run with (see Pages)
    TrimLimits, \* the limits DeleteExtra is called with
    CanFail,    \* whether remote calls fail, replies get lost, processes die
    MaxDrift    \* bound: no call starts once the ledger drifted that far

Keys == Interests \X Urls

ASSUME OrderAssumption == Interests \subseteq Nat /\ Urls \subseteq Nat \ {0}
ASSUME FiniteAssumption == IsFiniteSet(Keys) /\ IsFiniteSet(Clients)
ASSUME AccountAssumption ==
    /\ Owners \subseteq Accounts
    /\ Legacy \in Accounts \ Owners
    /\ NoAccount \notin Accounts
    /\ None \notin Owners \cup {Legacy}
    /\ Charged \in [Owners -> SUBSET Accounts]
ASSUME BoundsAssumption ==
    /\ LegacyKeys \subseteq Keys
    /\ Moves \subseteq Owners \X Owners
    /\ Limit \in Nat
    /\ PageSizes \subseteq Nat \ {0}
    /\ TrimLimits \subseteq Nat
    /\ CanFail \in BOOLEAN
    /\ MaxDrift \in Nat

VARIABLES
    store,      \* the owner of every live subscription
    net,        \* per account: permits acknowledged minus permits released
    call,       \* what every caller is doing
    paid,       \* history: the account charged for a live subscription
    leaked,     \* history: permits that nothing stands for any more
    excess,     \* history: permits released for something that is still there
    untold,     \* history: interests with changes that a living call knows of, made
                \* since a notification last started
    resub       \* history: keys (re)subscribed or reassigned during a sweep

ledger == <<net, paid, leaked, excess>>
vars == <<store, ledger, call, untold, resub>>

Items == [key : Keys, owner : Owners \cup {Legacy}]

Ops == {"none", "Subscribe", "Unsubscribe", "UnsubscribeByInterest", "DeleteExtra"}

Steps == {"idle", "Request", "Create", "Release", "Delete", "List"}

Idle == [op |-> "none", at |-> "idle", work |-> {}, acct |-> NoAccount,
         arg |-> 0, cursor |-> 0]

Before(j, k) == j[1] < k[1] \/ (j[1] = k[1] /\ j[2] < k[2])

(* The n first keys of a set, in the order of the storage. *)
FirstOf(S, n) == {k \in S : Cardinality({j \in S : Before(j, k)}) < n}

(* What a page query for S may return.  ListByInterest and ListByUser set their *)
(* limit on options they share without a lock (optsReadPage), so that a query   *)
(* runs with its own limit or with that of any other query under way.           *)
Pages(S) == {FirstOf(S, n) : n \in PageSizes}

Live == {k \in Keys : store[k] # None}

PaidBy(a) == {k \in Keys : paid[k] = a}

HeldOn(a) == {c \in Clients : call[c].acct = a}

Plus(f, a) == [f EXCEPT ![a] = @ + 1]

Drifted == \E a \in Accounts : leaked[a] + excess[a] > MaxDrift

-----------------------------------------------------------------------------

Idles(c) == call' = [call EXCEPT ![c] = Idle]

(* Mutant of Goto: the permit is forgotten. *)
GotoForgets(c, at, acct) == call' = [call EXCEPT ![c].at = at]

(* The call of c goes on at another step, with or without a permit in hand. *)
Goto(c, at, acct) == call' = [call EXCEPT ![c] = [@ EXCEPT !.at = at, !.acct = acct]]

(* The item of the call's work that is its turn. *)
IsTurn(c, w) ==
    w \in call[c].work /\ \A v \in call[c].work : ~Before(v.key, w.key)

(* Mutant of Advance: a sweep leaves its page after the first item. *)
AdvanceDropsRest(c, w) ==
    call' = [call EXCEPT ![c] =
        IF @.op = "UnsubscribeByInterest"
        THEN [@ EXCEPT !.at = "List", !.work = {}, !.acct = NoAccount]
        ELSE Idle]

(* The item w is dealt with and the loop goes on. *)
Advance(c, w) ==
    LET rest == call[c].work \ {w} IN
    call' = [call EXCEPT ![c] =
        IF rest # {} THEN [@ EXCEPT !.at = "Delete", !.work = rest, !.acct = NoAccount]
        ELSE IF @.op = "UnsubscribeByInterest"
             THEN [@ EXCEPT !.at = "List", !.work = {}, !.acct = NoAccount]
             ELSE Idle]

(* An error of item w ends the call; a sweep still starts its notification.   *)
Abort(c, w) ==
    /\ Idles(c)
    /\ untold' = IF call[c].op = "UnsubscribeByInterest" THEN untold \ {w.key[1]} ELSE untold

(* The call cl is on its way to start a notification of interest i: every sweep of *)
(* it is, and a call that releases the permit of a subscription it deleted.        *)
Tells(cl, i) ==
    \/ cl.op = "UnsubscribeByInterest" /\ cl.arg = i
    \/ /\ cl.op \in {"Unsubscribe", "DeleteExtra"}
       /\ cl.at = "Release"
       /\ \E w \in cl.work : w.key[1] = i /\ \A v \in cl.work : ~Before(v.key, w.key)

Start(c, op, at, work, arg) ==
    /\ call[c].at = "idle"
    /\ ~Drifted
    /\ call' = [call EXCEPT ![c] = [Idle EXCEPT !.op = op, !.at = at,
                                                !.work = work, !.arg = arg]]
    /\ resub' = [resub EXCEPT ![c] = {}]
    /\ UNCHANGED <<store, ledger, untold>>

Subscribe(c) ==
    \E w \in [key : Keys, owner : Owners] : Start(c, "Subscribe", "Request", {w}, 0)

Unsubscribe(c) ==
    \E w \in [key : Keys, owner : Owners] : Start(c, "Unsubscribe", "Delete", {w}, 0)

UnsubscribeByInterest(c) ==
    \E i \in Interests : Start(c, "UnsubscribeByInterest", "List", {}, i)

(* Mutant of Request: a permit of count 0 is taken for a granted one. *)
RequestIgnoresCount(c) ==
    /\ call[c].at = "Request"
    /\ \E w \in call[c].work, a \in Accounts :
          /\ a \in Charged[w.owner]
          /\ net' = IF net[a] < Limit THEN Plus(net, a) ELSE net
          /\ Goto(c, "Create", a)
    /\ UNCHANGED <<store, paid, leaked, excess, untold, resub>>

(* Subscribe: svcPermits.Request. *)
Request(c) ==
    /\ call[c].at = "Request"
    /\ \E w \in call[c].work, a \in Accounts :
          /\ a \in Charged[w.owner]
          /\ \/ /\ net[a] < Limit       \* acknowledged
                /\ net' = Plus(net, a)
                /\ Goto(c, "Create", a)
                /\ UNCHANGED leaked
             \/ /\ net[a] < Limit       \* acknowledged, but the reply is lost
                /\ CanFail
                /\ net' = Plus(net, a)
                /\ leaked' = Plus(leaked, a)
                /\ Idles(c)
             \/ /\ net[a] >= Limit \/ CanFail   \* ErrPermitExhausted, or failed
                /\ Idles(c)
                /\ UNCHANGED <<net, leaked>>
    /\ UNCHANGED <<store, paid, excess, untold, resub>>

(* A key that a sweep may meet again: subscribed or reassigned since it began. *)
Renew(ks) == resub' = [d \in Clients |->
    IF call[d].op = "UnsubscribeByInterest" THEN resub[d] \cup ks ELSE resub[d]]

(* Subscribe: stor.Create succeeded; the goroutine of the notification starts. *)
Created(c) ==
    /\ call[c].at = "Create"
    /\ \E w \in call[c].work :
          /\ store[w.key] = None
          /\ store' = [store EXCEPT ![w.key] = w.owner]
          /\ paid' = [paid EXCEPT ![w.key] = call[c].acct]
          /\ untold' = untold \ {w.key[1]}
          /\ Renew({w.key})
    /\ Idles(c)
    /\ UNCHANGED <<net, leaked, excess>>

(* Subscribe: stor.Create created the record, but its reply was lost. *)
CreatedUnseen(c) ==
    /\ CanFail
    /\ call[c].at = "Create"
    /\ \E w \in call[c].work :
          /\ store[w.key] = None
          /\ store' = [store EXCEPT ![w.key] = w.owner]
          /\ paid' = [paid EXCEPT ![w.key] = call[c].acct]
          /\ excess' = Plus(excess, call[c].acct)
          /\ Renew({w.key})
    /\ Goto(c, "Release", call[c].acct)
    /\ UNCHANGED <<net, leaked, untold>>

(* Mutant of NotCreated: a refused creation keeps its permit. *)
NotCreatedKeeps(c) ==
    /\ call[c].at = "Create"
    /\ Idles(c)
    /\ UNCHANGED <<store, ledger, untold, resub>>

(* Subscribe: stor.Create refused, with a conflict or another error.  The *)
(* contract of the storage lets it do so even if the key is free.         *)
NotCreated(c) ==
    /\ call[c].at = "Create"
    /\ Goto(c, "Release", call[c].acct)
    /\ UNCHANGED <<store, ledger, untold, resub>>

(* Mutant of AfterRelease: nothing is notified of if the release failed. *)
AfterReleaseOnSuccess(c, err) ==
    \E w \in call[c].work :
        /\ IsTurn(c, w)
        /\ IF err THEN Idles(c) ELSE Advance(c, w)
        /\ untold' = IF ~err /\ call[c].op \in {"Unsubscribe", "DeleteExtra"}
                     THEN untold \ {w.key[1]} ELSE untold

(* svcPermits.Release of one permit.  What follows depends on the call: Subscribe    *)
(* ends, Unsubscribe starts its notification whatever the outcome, the loops go  *)
(* on unless it failed, and a sweep that ends starts its notification.           *)
AfterRelease(c, err) ==
    \E w \in call[c].work :
        /\ IsTurn(c, w)
        /\ IF err THEN Idles(c) ELSE Advance(c, w)
        /\ untold' = IF \/ call[c].op \in {"Unsubscribe", "DeleteExtra"}
                        \/ err /\ call[c].op = "UnsubscribeByInterest"
                     THEN untold \ {w.key[1]} ELSE untold

Release(c) ==
    /\ call[c].at = "Release"
    /\ \/ /\ net' = [net EXCEPT ![call[c].acct] = @ - 1]
          /\ UNCHANGED leaked
          /\ \E err \in BOOLEAN : (err => CanFail) /\ AfterRelease(c, err)
       \/ /\ CanFail
          /\ leaked' = Plus(leaked, call[c].acct)
          /\ UNCHANGED net
          /\ AfterRelease(c, TRUE)
    /\ UNCHANGED <<store, paid, excess, resub>>

(* stor.Delete of the item whose turn it is matched a live record.  The permit *)
(* is released on the account of the user named by the request (Unsubscribe)   *)
(* or by the page (UnsubscribeByInterest), whoever was charged.                *)
Deleted(c) ==
    /\ call[c].at = "Delete"
    /\ \E w \in call[c].work :
          LET payer == paid[w.key] IN
          /\ IsTurn(c, w)
          /\ store[w.key] \in {w.owner, Legacy}
          /\ store' = [store EXCEPT ![w.key] = None]
          /\ paid' = [paid EXCEPT ![w.key] = NoAccount]
          /\ \/ /\ Goto(c, "Release", w.owner)
                /\ leaked' = IF payer \in Accounts \ {w.owner} THEN Plus(leaked, payer) ELSE leaked
                /\ excess' = IF payer # w.owner THEN Plus(excess, w.owner) ELSE excess
                /\ untold' = untold \cup {w.key[1]}
             \/ /\ CanFail              \* deleted, but the reply was lost
                /\ leaked' = IF payer \in Accounts THEN Plus(leaked, payer) ELSE leaked
                /\ Abort(c, w)
                /\ UNCHANGED excess
    /\ UNCHANGED <<net, resub>>

(* Mutant of NotDeleted: the permit of what was not found is released, too. *)
NotDeletedReleases(c) ==
    /\ call[c].at = "Delete"
    /\ \E w \in call[c].work :
          /\ IsTurn(c, w)
          /\ store[w.key] \notin {w.owner, Legacy}
          /\ Goto(c, "Release", w.owner)
    /\ UNCHANGED <<store, ledger, untold, resub>>

(* Mutant of NotDeleted: a sweep goes on after any error of a deletion. *)
NotDeletedGoesOn(c) ==
    /\ call[c].at = "Delete"
    /\ \E w \in call[c].work :
          /\ IsTurn(c, w)
          /\ store[w.key] \notin {w.owner, Legacy} \/ CanFail
          /\ IF call[c].op = "UnsubscribeByInterest"
             THEN Advance(c, w) /\ UNCHANGED untold
             ELSE Abort(c, w)
    /\ UNCHANGED <<store, ledger, resub>>

(* stor.Delete found no matching live record, or failed. *)
NotDeleted(c) ==
    /\ call[c].at = "Delete"
    /\ \E w \in call[c].work :
          /\ IsTurn(c, w)
          /\ \/ /\ store[w.key] \notin {w.owner, Legacy}
                /\ IF call[c].op = "UnsubscribeByInterest"
                   THEN Advance(c, w) /\ UNCHANGED untold
                   ELSE Abort(c, w)
             \/ CanFail /\ Abort(c, w)
    /\ UNCHANGED <<store, ledger, resub>>

(* Mutant of List: the cursor stays where it was. *)
ListFromStart(c) ==
    LET i == call[c].arg
        found == {k \in Live : k[1] = i} IN
    /\ call[c].at = "List"
    /\ \/ /\ \E page \in Pages(found) :
                /\ page # {}
                /\ call' = [call EXCEPT ![c] =
                      [@ EXCEPT !.at = "Delete",
                                !.work = {[key |-> k, owner |-> store[k]] : k \in page}]]
          /\ UNCHANGED untold
       \/ /\ found = {} \/ CanFail
          /\ Idles(c)
          /\ untold' = untold \ {i}
    /\ UNCHANGED <<store, ledger, resub>>

(* Mutant of List: an empty page does not end the sweep. *)
ListUntilError(c) ==
    LET i == call[c].arg
        found == {k \in Live : k[1] = i /\ k[2] > call[c].cursor} IN
    /\ call[c].at = "List"
    /\ \/ /\ \E page \in Pages(found) : \E last \in page :
                /\ \A k \in page : k[2] <= last[2]
                /\ call' = [call EXCEPT ![c] =
                      [@ EXCEPT !.at = "Delete", !.cursor = last[2],
                                !.work = {[key |-> k, owner |-> store[k]] : k \in page}]]
          /\ UNCHANGED untold
       \/ found = {} /\ UNCHANGED <<call, untold>>
       \/ CanFail /\ Idles(c) /\ untold' = untold \ {i}
    /\ UNCHANGED <<store, ledger, resub>>

(* UnsubscribeByInterest: the next page; an empty page or an error ends the sweep. *)
List(c) ==
    LET i == call[c].arg
        found == {k \in Live : k[1] = i /\ k[2] > call[c].cursor} IN
    /\ call[c].at = "List"
    /\ \/ /\ \E page \in Pages(found) : \E last \in page :
                /\ \A k \in page : k[2] <= last[2]
                /\ call' = [call EXCEPT ![c] =
                      [@ EXCEPT !.at = "Delete", !.cursor = last[2],
                                !.work = {[key |-> k, owner |-> store[k]] : k \in page}]]
          /\ UNCHANGED untold
       \/ /\ found = {} \/ CanFail
          /\ Idles(c)
          /\ untold' = untold \ {i}
    /\ UNCHANGED <<store, ledger, resub>>

(* DeleteExtra: the last list of the loop that enlarges its limit, and what of  *)
(* it exceeds the limit.  The list is complete, unless the query ran with a     *)
(* smaller limit, that of another query.                                        *)
DeleteExtra(c) ==
    \E o \in Owners, n \in TrimLimits :
        LET mine == {k \in Keys : store[k] = o} IN
        \E page \in {mine} \cup Pages(mine) :
            /\ page \ FirstOf(page, n) # {}
            /\ Start(c, "DeleteExtra", "Delete",
                     {[key |-> k, owner |-> o] : k \in page \ FirstOf(page, n)}, 0)

(* ChangeOwner: the records move, the permits stay where they were charged. *)
ChangeOwner ==
    \E m \in Moves :
        /\ store' = [k \in Keys |-> IF store[k] = m[1] THEN m[2] ELSE store[k]]
        /\ Renew({k \in Keys : store[k] = m[1]})
        /\ UNCHANGED <<ledger, call, untold>>

(* The process of a caller dies between two remote calls, and with it the notification *)
(* that the call was going to start.                                                   *)
Crash(c) ==
    /\ CanFail
    /\ call[c].at # "idle"
    /\ Idles(c)
    /\ leaked' = IF call[c].acct = NoAccount THEN leaked ELSE Plus(leaked, call[c].acct)
    /\ untold' = {i \in untold : ~Tells(call[c], i)}
    /\ UNCHANGED <<store, net, paid, excess, resub>>

-----------------------------------------------------------------------------

Init ==
    /\ store = [k \in Keys |-> IF k \in LegacyKeys THEN Legacy ELSE None]
    /\ net = [a \in Accounts |-> 0]
    /\ call = [c \in Clients |-> Idle]
    /\ paid = [k \in Keys |-> NoAccount]
    /\ leaked = [a \in Accounts |-> 0]
    /\ excess = [a \in Accounts |-> 0]
    /\ untold = {}
    /\ resub = [c \in Clients |-> {}]

Serve(c) ==
    \/ Request(c) \/ Created(c) \/ NotCreated(c) \/ Release(c)
    \/ Deleted(c) \/ NotDeleted(c) \/ List(c)

Next ==
    \/ \E c \in Clients :
          \/ Subscribe(c) \/ Unsubscribe(c) \/ UnsubscribeByInterest(c) \/ DeleteExtra(c)
          \/ Serve(c) \/ CreatedUnseen(c) \/ Crash(c)
    \/ ChangeOwner

Spec == Init /\ [][Next]_vars

(* A call that runs keeps running: its goroutine is scheduled and remote calls end. *)
FairSpec == Spec /\ \A c \in Clients : WF_vars(Serve(c))

-----------------------------------------------------------------------------

StoreOK ==
    /\ store \in [Keys -> Owners \cup {Legacy, None}]
    /\ paid \in [Keys -> Accounts \cup {NoAccount}]
    /\ \A k \in Keys : store[k] \in {Legacy, None} => paid[k] = NoAccount

LedgerOK ==
    /\ net \in [Accounts -> Int]
    /\ leaked \in [Accounts -> Nat]
    /\ excess \in [Accounts -> Nat]

Calls == [op : Ops, at : Steps, work : SUBSET Items,
          acct : Accounts \cup {NoAccount},
          arg : Interests \cup {0}, cursor : Urls \cup {0}]

CallFits(r) ==
    /\ r.acct \in Accounts <=> r.at \in {"Create", "Release"}
    /\ r.at \in {"Request", "Create"} => \A w \in r.work : w.owner \in Owners
    /\ r.at = "List" => r.op = "UnsubscribeByInterest"
    /\ r.op = "UnsubscribeByInterest" => r.arg \in Interests

CallsOK == call \in [Clients -> Calls] /\ \A c \in Clients : CallFits(call[c])

HistoryOK ==
    /\ untold \subseteq Interests
    /\ resub \in [Clients -> SUBSET Keys]

(* Every variable stays in its set; a call stands between its permit's grant *)
(* and what becomes of it exactly while it is at Create or at Release.       *)
TypeOK == StoreOK /\ LedgerOK /\ CallsOK /\ HistoryOK

(* The ledger of one account balances. *)
Balanced(a) ==
    net[a] = Cardinality(PaidBy(a)) + Cardinality(HeldOn(a)) + leaked[a] - excess[a]

(* Every permit acknowledged and not released stands for a live subscription, a  *)
(* call in progress or a leak that has a cause (a lost reply, a failed release,  *)
(* a crash, a release on another account), less the releases of what is still    *)
(* there (service.go Subscribe, Unsubscribe, UnsubscribeByInterest).             *)
Conservation == \A a \in Accounts : Balanced(a)

(* Nobody has more live subscriptions on an account than its limit, except by as *)
(* many as permits were released there for somebody else's or a surviving record.*)
QuotaKept == \A a \in Accounts : Cardinality(PaidBy(a)) <= Limit + excess[a]

(* Where nothing fails, permits are granted per user and owners do not change,   *)
(* the usage service counts exactly the live subscriptions of every owner, plus  *)
(* those being created or deleted right now (service.go).                        *)
LedgerExact ==
    \A o \in Owners :
        net[o] = Cardinality({k \in Keys : store[k] = o}) + Cardinality(HeldOn(o))

(* A sweep leaves nothing behind its cursor but what was subscribed or reassigned *)
(* while it ran, whatever the callers in between (UnsubscribeByInterest).         *)
SweepComplete ==
    \A c \in Clients :
        call[c].op = "UnsubscribeByInterest" =>
            \A k \in Live :
                k[1] = call[c].arg /\ k[2] <= call[c].cursor =>
                    k \in resub[c] \/ \E w \in call[c].work : w.key = k

(* A change that a call knows it made is followed by a notification of its interest, *)
(* that of another call included: until one starts, some call in progress is to start *)
(* it, on every path, also when the release of the permit or a later deletion fails;  *)
(* only the death of the process loses it (service.go Unsubscribe,                    *)
(* UnsubscribeByInterest, DeleteExtra).                                               *)
ChangesTold == \A i \in untold : \E c \in Clients : Tells(call[c], i)

IsSweep(cl) == cl.op = "UnsubscribeByInterest"

(* What the sweep of call c is going to list. *)
Ahead(c) == {k \in Live : k[1] = call[c].arg /\ k[2] > call[c].cursor}

(* What it has not dealt with: the rest of its page, and what is ahead of the cursor. *)
Remaining(c) == {w.key : w \in call[c].work} \cup Ahead(c)

StepsLeft(at) == CASE at = "List" -> 2 [] at = "Delete" -> 1 [] at = "Release" -> 0

(* The step creates a subscription ahead of the cursor of the sweep of call c. *)
CreatedAhead(c) ==
    /\ IsSweep(call[c])
    /\ \E k \in Keys : /\ store[k] = None /\ store'[k] # None
                       /\ k[1] = call[c].arg /\ k[2] > call[c].cursor

(* What bounds the loop of UnsubscribeByInterest, which lists until a page is empty and  *)
(* so takes what is created ahead of its cursor while it runs: every step of a sweep     *)
(* that does not end it deals with a subscription for good, or is the next one of the    *)
(* round, and none takes up again what was dealt with, deleted or not, not even if it is *)
(* subscribed once more.                                                                 *)
SweepDescends ==
    [][\A c \in Clients :
          IsSweep(call[c]) /\ IsSweep(call'[c]) /\ call'[c] # call[c] =>
              /\ Remaining(c)' \subseteq Remaining(c)
              /\ \/ Remaining(c)' # Remaining(c)
                 \/ StepsLeft(call'[c].at) < StepsLeft(call[c].at)]_vars

(* Every call ends, a sweep unless subscriptions are created ahead of its cursor again *)
(* and again (service.go:115).  The urls of an instance being finitely many, no sweep  *)
(* of an instance meets more than it has; that none needs more steps than there are    *)
(* subscriptions, however many those are, is what SweepDescends says.                  *)
CallsEnd ==
    \A c \in Clients :
        \/ call[c].at # "idle" ~> call[c].at = "idle"
        \/ []<><<CreatedAhead(c)>>_vars

(* What permits.Service demands of a release: the account it names is the one the *)
(* permit was granted on.                                                         *)
ReleaseNamesPayer ==
    [][\A c \in Clients :
          (call[c].at = "Delete" /\ call'[c].at = "Release") =>
              \E w \in call[c].work : store'[w.key] # store[w.key]
                                      /\ call'[c].acct = paid[w.key]]_vars
=============================================================================
