---------------------------- MODULE PageCacheProofs ----------------------------
(***************************************************************************)
(* Theorems of PageCache for any replicas, urls, page limits and calls:    *)
(* its type, the completeness of sweeps over cached pages, and why pages   *)
(* are stale.                                                              *)
(***************************************************************************)
EXTENDS PageCache, FiniteSetTheorems, WellFoundedInduction, TLAPS

-----------------------------------------------------------------------------
(* The least and the greatest of a set of numbers *)

LEMMA LeastOf ==
    ASSUME NEW S \in SUBSET Nat, S # {}
    PROVE  \E x \in S : \A y \in S : x =< y
<1> DEFINE less == {p \in Nat \X Nat : p[1] < p[2]}
<1>1. OpToRel(<, Nat) = less
  BY DEF OpToRel
<1>2. PICK x \in S : \A y \in S : <<y, x>> \notin less
  BY <1>1, WFMin, NatLessThanWellFounded
<1>3. ASSUME NEW y \in S
      PROVE  x =< y
  <2> DEFINE p == <<y, x>>
  <2>1. p \in Nat \X Nat /\ p[1] = y /\ p[2] = x
    OBVIOUS
  <2>2. p \notin less
    BY <1>2
  <2>. HIDE DEF p
  <2>3. ~ (p[1] < p[2])
    BY <2>1, <2>2
  <2>. QED
    BY <2>1, <2>3
<1>. QED
  BY <1>3

LEMMA MinIn ==
    ASSUME NEW S \in SUBSET Nat, S # {}
    PROVE  Min(S) \in S /\ \A y \in S : Min(S) =< y
BY LeastOf DEF Min

(* The greatest is the one with the fewest elements above it. *)
LEMMA MaxIn ==
    ASSUME NEW S \in SUBSET Nat, S # {}, IsFiniteSet(S)
    PROVE  Max(S) \in S /\ \A y \in S : y =< Max(S)
<1> DEFINE above(x) == {y \in S : y > x}
           sizes == {Cardinality(above(x)) : x \in S}
<1>1. ASSUME NEW x \in S PROVE IsFiniteSet(above(x)) /\ Cardinality(above(x)) \in Nat
  <2>1. above(x) \in SUBSET S
    OBVIOUS
  <2>. HIDE DEF above
  <2>. QED
    BY <2>1, FS_Subset, FS_CardinalityType
<1>2. sizes \in SUBSET Nat /\ sizes # {}
  BY <1>1
<1>3. PICK x \in S : \A y \in S : Cardinality(above(x)) =< Cardinality(above(y))
  <2>1. PICK n \in sizes : \A m \in sizes : n =< m
    <3>. HIDE DEF sizes
    <3>. QED
      BY <1>2, LeastOf
  <2>2. PICK x \in S : n = Cardinality(above(x))
    OBVIOUS
  <2>3. \A y \in S : Cardinality(above(y)) \in sizes
    OBVIOUS
  <2>. HIDE DEF sizes, above
  <2>. QED
    BY <2>1, <2>2, <2>3
<1>4. ASSUME NEW y \in S, y > x PROVE FALSE
  <2>1. above(y) \subseteq above(x) /\ y \in above(x) /\ y \notin above(y)
    <3>1. x \in Nat /\ y \in Nat /\ \A z \in S : z \in Nat
      OBVIOUS
    <3>2. ASSUME NEW z \in above(y) PROVE z \in above(x)
      BY <1>4, <3>1
    <3>3. y \in above(x) /\ y \notin above(y)
      BY <1>4, <3>1
    <3>. QED
      BY <3>2, <3>3
  <2>2. above(y) \in SUBSET above(x) /\ above(x) # above(y)
    BY <2>1
  <2>3. IsFiniteSet(above(x)) /\ Cardinality(above(x)) \in Nat /\ Cardinality(above(y)) \in Nat
    BY <1>1
  <2>4. Cardinality(above(x)) =< Cardinality(above(y))
    BY <1>3
  <2>. HIDE DEF above
  <2>. QED
    BY <2>2, <2>3, <2>4, FS_Subset
<1>5. \A y \in S : x >= y
  BY <1>4
<1>6. Max(S) \in S /\ \A y \in S : Max(S) >= y
  BY <1>5 DEF Max
<1>. QED
  BY <1>6

-----------------------------------------------------------------------------
(* Pages *)

LEMMA CursorType == \A c \in Cursors : c \in Nat
BY PageAssumption DEF Cursors, First

(* The last url of a page that is not empty is one of its urls. *)
LEMMA LastOfPage ==
    ASSUME NEW page \in PagesOfUrls, page # NoPage
    PROVE  /\ LastUrl(page) \in DOMAIN page
           /\ \A u \in DOMAIN page : u =< LastUrl(page)
           /\ LastUrl(page) \in Cursors
<1>1. PICK s \in SUBSET Urls : page \in [s -> Contents]
  BY DEF PagesOfUrls
<1>2. DOMAIN page = s
  BY <1>1
<1>3. s # {}
  <2>1. ASSUME s = {} PROVE page = NoPage
    BY <1>1, <2>1 DEF NoPage
  <2>. QED
    BY <2>1
<1>4. s \in SUBSET Nat /\ IsFiniteSet(s)
  BY PageAssumption, FS_Subset
<1>. QED
  BY <1>2, <1>3, <1>4, MaxIn DEF LastUrl, Cursors

LEMMA PageUrls ==
    ASSUME NEW page \in PagesOfUrls
    PROVE  DOMAIN page \in SUBSET Urls /\ \A u \in DOMAIN page : page[u] \in Contents
BY DEF PagesOfUrls

StorageOK == stored \in [Urls -> {Absent} \cup Contents]

LEMMA PageAfterType ==
    ASSUME StorageOK, NEW c, NEW limit
    PROVE  /\ PageAfter(c, limit) \in PagesOfUrls
           /\ \A u \in DOMAIN PageAfter(c, limit) : u > c
<1> DEFINE after == {u \in Live : u > c}
           s == {v \in after : Cardinality({w \in after : w \leq v}) \leq limit}
<1>1. s \in SUBSET Urls /\ s \subseteq Live /\ \A u \in s : u > c
  BY DEF Live
<1>2. PageAfter(c, limit) = [u \in s |-> stored[u]]
  BY DEF PageAfter
<1>. HIDE DEF s
<1>3. [u \in s |-> stored[u]] \in [s -> Contents]
  BY <1>1 DEF StorageOK, Live
<1>. QED
  BY <1>1, <1>2, <1>3 DEF PagesOfUrls

(* A live url that a page leaves out follows its last url, and the page is not empty: *)
(* what a page leaves out is on a later one.                                          *)
LEMMA LeftForLater ==
    ASSUME StorageOK, NEW c \in Cursors, NEW limit \in Limits, NEW u \in Live, u > c,
           u \notin DOMAIN PageAfter(c, limit)
    PROVE  PageAfter(c, limit) # NoPage /\ u > LastUrl(PageAfter(c, limit))
<1> DEFINE page == PageAfter(c, limit)
           after == {v \in Live : v > c}
           upto(v) == {w \in after : w \leq v}
           s == {v \in after : Cardinality(upto(v)) \leq limit}
<1>1. page \in PagesOfUrls /\ DOMAIN page = s
  BY PageAfterType DEF PageAfter
<1>2. limit \in Nat /\ limit >= 1
  BY PageAssumption
<1>3. after \in SUBSET Urls /\ u \in after
  BY DEF Live
<1>4. after \in SUBSET Nat /\ IsFiniteSet(after) /\ after # {}
  BY <1>3, PageAssumption, FS_Subset
<1>5. ASSUME NEW v \in after PROVE IsFiniteSet(upto(v)) /\ Cardinality(upto(v)) \in Nat
  <2>1. upto(v) \in SUBSET after
    OBVIOUS
  <2>. HIDE DEF upto, after
  <2>. QED
    BY <1>4, <2>1, FS_Subset, FS_CardinalityType
<1>6. PICK m \in after : \A y \in after : m =< y
  BY <1>4, LeastOf
<1>7. m \in s
  <2>. HIDE DEF after
  <2>1. upto(m) = {m}
    <3>1. ASSUME NEW w \in after, w =< m PROVE w = m
      <4>1. w \in Nat /\ m \in Nat /\ m =< w
        BY <1>4, <1>6
      <4>. QED
        BY <3>1, <4>1
    <3>2. m \in Nat
      BY <1>4
    <3>3. \A w : w \in upto(m) <=> w = m
      BY <1>6, <3>1, <3>2
    <3>. HIDE DEF upto
    <3>. QED
      BY <3>3
  <2>2. Cardinality(upto(m)) = 1
    BY <2>1, FS_Singleton
  <2>. QED
    BY <1>2, <2>2
<1>8. page # NoPage
  <2>1. DOMAIN NoPage = {}
    BY DEF NoPage
  <2>. HIDE DEF page, s
  <2>. QED
    BY <1>1, <1>7, <2>1
<1>9. ASSUME NEW v \in s PROVE v < u
  <2>1. v \in after /\ Cardinality(upto(v)) =< limit
    OBVIOUS
  <2>2. ~(Cardinality(upto(u)) =< limit)
    BY <1>1, <1>3
  <2>3. ASSUME u =< v PROVE FALSE
    <3>1. upto(u) \in SUBSET upto(v)
      <4>1. ASSUME NEW w \in after, w =< u PROVE w =< v
        <5>1. w \in Nat /\ u \in Nat /\ v \in Nat
          BY <1>3, <1>4, <2>1
        <5>. QED
          BY <2>3, <4>1, <5>1
      <4>. HIDE DEF after
      <4>. QED
        BY <4>1
    <3>2. IsFiniteSet(upto(v)) /\ Cardinality(upto(v)) \in Nat /\ Cardinality(upto(u)) \in Nat
      BY <1>3, <1>5, <2>1
    <3>. HIDE DEF upto
    <3>3. Cardinality(upto(u)) =< Cardinality(upto(v))
      BY <3>1, <3>2, FS_Subset
    <3>. QED
      BY <1>2, <2>1, <2>2, <3>2, <3>3
  <2>4. u \in Nat /\ v \in Nat
    BY <1>3, <1>4, <2>1
  <2>. QED
    BY <2>3, <2>4
<1>10. LastUrl(page) \in s
  BY <1>1, <1>8, LastOfPage
<1>11. LastUrl(page) < u
  BY <1>9, <1>10
<1>. QED
  BY <1>3, <1>4, <1>8, <1>10, <1>11

-----------------------------------------------------------------------------
(* The inductive invariant *)

Reading == {"redis", "copy", "load", "fill", "setnx"}
Steps == Reading \cup {"idle", "walk", "keep", "drop", "dropRedis", "delete", "fallback", "swept"}
Entries == PagesOfUrls \cup {Miss, Empty}

CallRecords ==
    [op : {"none", "list", "write", "sweep"}, at : Steps, home : Caches,
     cursor : Cursors, limit : Limits, page : Entries,
     from : Cursors, todo : PagesOfUrls, kept : SUBSET Urls, misled : BOOLEAN]

(* A page has what follows its cursor. *)
Follows(e, c) == IsPage(e) => \A u \in DOMAIN e : u > c

(* What a call has in hand fits the step that it is at. *)
CallFits(cl) ==
    /\ Follows(cl.page, cl.cursor)
    /\ cl.at \in {"copy", "fill", "setnx"} => cl.page # Miss
    /\ cl.at = "keep" => cl.page # Miss
    /\ cl.at \in {"drop", "dropRedis"} => IsPage(cl.page) /\ cl.page # NoPage
    /\ cl.at = "delete" => cl.page = Miss
    /\ cl.at \in Reading \cup {"fallback"} => cl.todo = NoPage

(* A sweep that is not misled has everything that it is to delete before it. *)
Ahead(cl) ==
    cl.op = "sweep" /\ ~cl.misled =>
        \A u \in cl.kept : u \in DOMAIN cl.todo \/ (u > cl.from /\ cl.at # "swept")

CallOK(cl) == cl \in CallRecords /\ CallFits(cl) /\ Ahead(cl)

SharedOK ==
    /\ StorageOK
    /\ since \in [Urls -> Contents]
    /\ ver \in Contents /\ begun \in 0 .. MaxCalls /\ events \in 0 .. MaxEvents
    /\ excused \subseteq Places

EntriesOK ==
    /\ entry \in [Caches -> [Cursors -> Entries]]
    /\ \A x \in Caches, c \in Cursors : Follows(entry[x][c], c)

CallsOK ==
    /\ call \in [Calls -> CallRecords]
    /\ \A p \in Calls : CallOK(call[p]) /\ call[p].kept \subseteq Live

IInv == SharedOK /\ EntriesOK /\ CallsOK

-----------------------------------------------------------------------------
(* Steps, whatever the action *)

LEMMA NoPageType ==
    /\ NoPage \in PagesOfUrls /\ DOMAIN NoPage = {}
    /\ NoPage # Miss /\ NoPage # Empty
<1>1. NoPage \in [{} -> Contents] /\ DOMAIN NoPage = {}
  BY DEF NoPage
<1>2. {} \in SUBSET Urls
  OBVIOUS
<1>3. NoPage \in PagesOfUrls
  BY <1>1, <1>2 DEF PagesOfUrls
<1>. QED
  BY <1>1, <1>3, EntryAssumption

LEMMA ReturnedFits == CallOK(Returned) /\ Returned.kept = {} /\ Returned.at = "idle"
BY NoPageType, PageAssumption
   DEF CallOK, Returned, CallRecords, CallFits, Ahead, Follows, IsPage, Steps, Reading,
       Caches, Cursors, Entries, First

(* One call takes a step, and the storage none. *)
LEMMA CallStep ==
    ASSUME CallsOK, UNCHANGED stored, NEW p \in Calls, NEW r, CallOK(r), r.kept \subseteq Live,
           call' = [call EXCEPT ![p] = r]
    PROVE  CallsOK'
<1>1. Live' = Live
  BY DEF Live
<1>2. r \in CallRecords
  BY DEF CallOK
<1>3. \A q \in Calls : CallOK(call'[q]) /\ call'[q].kept \subseteq Live
  BY DEF CallsOK
<1>4. (\A q \in Calls : CallOK(call[q]) /\ call[q].kept \subseteq Live)'
  BY <1>1, <1>3
<1>. QED
  BY <1>2, <1>4 DEF CallsOK

LEMMA ReturnStep ==
    ASSUME CallsOK, UNCHANGED stored, NEW p \in Calls, call' = [call EXCEPT ![p] = Returned]
    PROVE  CallsOK'
BY CallStep, ReturnedFits

LEMMA SameCalls == ASSUME CallsOK, UNCHANGED <<stored, call>> PROVE CallsOK'
BY DEF CallsOK, Live

(* One entry is written. *)
LEMMA EntryStep ==
    ASSUME EntriesOK, NEW x \in Caches, NEW c \in Cursors, NEW e \in Entries, Follows(e, c),
           entry' = [entry EXCEPT ![x][c] = e]
    PROVE  EntriesOK'
<1>1. entry' \in [Caches -> [Cursors -> Entries]]
  BY DEF EntriesOK
<1>2. \A y \in Caches, d \in Cursors : Follows(entry'[y][d], d)
  BY DEF EntriesOK
<1>3. (\A y \in Caches, d \in Cursors : Follows(entry[y][d], d))'
  BY <1>2
<1>. QED
  BY <1>1, <1>3 DEF EntriesOK

LEMMA SameEntries == ASSUME EntriesOK, UNCHANGED entry PROVE EntriesOK'
BY DEF EntriesOK

LEMMA Explained == ASSUME NEW ps, NEW reasons, Explain(ps, reasons) PROVE excused' \subseteq Places
BY DEF Explain

LEMMA EventCounts == ASSUME SharedOK, Event PROVE events' \in 0 .. MaxEvents
BY PageAssumption DEF SharedOK, Event

(* A step that leaves the storage alone. *)
LEMMA QuietStep ==
    ASSUME SharedOK, UNCHANGED <<stored, since, ver>>,
           UNCHANGED begun \/ (begun < MaxCalls /\ begun' = begun + 1),
           UNCHANGED events \/ Event,
           UNCHANGED excused \/ excused' \subseteq Places
    PROVE  SharedOK'
BY EventCounts, PageAssumption DEF SharedOK, StorageOK

(* The walk of a call ends. *)
LEMMA WalkedStep ==
    ASSUME CallsOK, UNCHANGED stored, NEW p \in Calls, Walked(p), call[p].at # "swept"
    PROVE  CallsOK'
<1> DEFINE cl == call[p]
           r == [cl EXCEPT !.at = "delete", !.page = Miss, !.cursor = First]
<1>1. CASE cl.op = "sweep"
  <2>1. CallOK(cl) /\ cl.kept \subseteq Live /\ cl \in CallRecords
    BY DEF CallsOK, CallOK
  <2>2. /\ r.op = cl.op /\ r.at = "delete" /\ r.page = Miss /\ r.cursor = First
        /\ r.kept = cl.kept /\ r.todo = cl.todo /\ r.from = cl.from /\ r.misled = cl.misled
    BY <2>1 DEF CallRecords
  <2>3. r \in CallRecords
    BY <2>1 DEF CallRecords, Steps, Cursors, Entries
  <2>4. call' = [call EXCEPT ![p] = r]
    BY <1>1 DEF Walked, CallsOK
  <2>. HIDE DEF r
  <2>5. CallOK(r)
    BY <2>1, <2>2, <2>3 DEF CallOK, CallFits, Ahead, Follows, IsPage, Reading
  <2>. QED
    BY <2>1, <2>2, <2>4, <2>5, CallStep
<1>2. CASE cl.op # "sweep"
  BY <1>2, ReturnStep DEF Walked
<1>. QED
  BY <1>1, <1>2

(* What a sweep is not misled by has every live url that follows the cursor, or ends *)
(* before it.                                                                        *)
LEMMA NothingSkipped ==
    ASSUME StorageOK, NEW e \in PagesOfUrls, NEW c \in Cursors, ~Stale(e, c),
           NEW u \in Live, u > c
    PROVE  u \in DOMAIN e \/ (e # NoPage /\ u > LastUrl(e))
<1>1. IsPage(e)
  BY EntryAssumption DEF IsPage
<1>2. PICK limit \in Limits : e = PageAfter(c, limit)
  BY <1>1 DEF Stale
<1>. QED
  BY <1>2, LeftForLater

(* A call that was reading is answered an entry. *)
LEMMA AnswerStep ==
    ASSUME SharedOK, CallsOK, UNCHANGED stored, NEW p \in Calls, NEW e \in PagesOfUrls \cup {Empty},
           call[p].todo = NoPage, call[p].at # "swept", Answer(p, e)
    PROVE  CallsOK'
<1> DEFINE cl == call[p]
           reads == [cl EXCEPT !.page = Miss, !.cursor = First]
           wrong == cl.misled \/ Stale(e, cl.from)
           taken == [reads EXCEPT !.todo = e, !.misled = wrong]
<1>1. CallOK(cl) /\ cl.kept \subseteq Live /\ cl \in CallRecords
  BY DEF CallsOK, CallOK
<1>2. wrong \in BOOLEAN
  BY <1>1 DEF CallRecords, Stale
<1>3. CASE call' = [call EXCEPT ![p] = Returned]
  BY <1>3, ReturnStep
<1>4. CASE call' = [call EXCEPT ![p] = [reads EXCEPT !.at = "fallback"]]
  <2> DEFINE r == [reads EXCEPT !.at = "fallback"]
  <2>1. /\ r.op = cl.op /\ r.at = "fallback" /\ r.page = Miss /\ r.cursor = First
        /\ r.kept = cl.kept /\ r.todo = cl.todo /\ r.from = cl.from /\ r.misled = cl.misled
    BY <1>1 DEF CallRecords
  <2>2. r \in CallRecords
    BY <1>1 DEF CallRecords, Steps, Cursors, Entries
  <2>. HIDE DEF r
  <2>3. CallOK(r)
    BY <1>1, <2>1, <2>2 DEF CallOK, CallFits, Ahead, Follows, IsPage, Reading
  <2>4. call' = [call EXCEPT ![p] = r]
    BY <1>4 DEF r
  <2>. QED
    BY <1>1, <2>1, <2>3, <2>4, CallStep
<1>5. ASSUME cl.op = "sweep", ~wrong, NEW u \in cl.kept, e \in PagesOfUrls
      PROVE  u \in DOMAIN e \/ (e # NoPage /\ u > LastUrl(e))
  <2>1. u \in Live
    BY <1>1
  <2>2. u > cl.from
    <3>1. u \in DOMAIN cl.todo \/ u > cl.from
      BY <1>1, <1>5 DEF CallOK, Ahead
    <3>. QED
      BY <3>1, NoPageType
  <2>3. cl.from \in Cursors
    BY <1>1 DEF CallRecords
  <2>. QED
    BY <1>5, <2>1, <2>2, <2>3, NothingSkipped DEF SharedOK
<1>6. CASE cl.op = "sweep" /\ e = NoPage /\ call' = [call EXCEPT ![p] = [taken EXCEPT !.at = "swept"]]
  <2> DEFINE r == [taken EXCEPT !.at = "swept"]
  <2>. HIDE DEF wrong
  <2>1. /\ r.op = cl.op /\ r.at = "swept" /\ r.page = Miss /\ r.cursor = First
        /\ r.kept = cl.kept /\ r.todo = e /\ r.from = cl.from /\ r.misled = wrong
    BY <1>1 DEF CallRecords
  <2>2. r \in CallRecords
    BY <1>1, <1>2, <1>6, NoPageType DEF CallRecords, Steps, Cursors, Entries
  <2>. HIDE DEF r
  <2>3. Ahead(r)
    BY <1>5, <1>6, <2>1, NoPageType DEF Ahead
  <2>4. CallOK(r)
    BY <2>1, <2>2, <2>3 DEF CallOK, CallFits, Follows, IsPage, Reading
  <2>5. call' = [call EXCEPT ![p] = r]
    BY <1>6 DEF r
  <2>. QED
    BY <1>1, <2>1, <2>4, <2>5, CallStep
<1>7. CASE /\ cl.op = "sweep" /\ e \notin {Empty, NoPage}
           /\ call' = [call EXCEPT ![p] = [taken EXCEPT !.at = "delete", !.from = LastUrl(e)]]
  <2> DEFINE r == [taken EXCEPT !.at = "delete", !.from = LastUrl(e)]
  <2>. HIDE DEF wrong
  <2>1. /\ r.op = cl.op /\ r.at = "delete" /\ r.page = Miss /\ r.cursor = First
        /\ r.kept = cl.kept /\ r.todo = e /\ r.from = LastUrl(e) /\ r.misled = wrong
    BY <1>1 DEF CallRecords
  <2>2. e \in PagesOfUrls /\ LastUrl(e) \in Cursors
    BY <1>7, LastOfPage
  <2>3. r \in CallRecords
    BY <1>1, <1>2, <2>2 DEF CallRecords, Steps, Cursors, Entries
  <2>. HIDE DEF r
  <2>4. Ahead(r)
    BY <1>5, <1>7, <2>1, <2>2 DEF Ahead
  <2>5. CallOK(r)
    BY <2>1, <2>3, <2>4 DEF CallOK, CallFits, Follows, IsPage, Reading
  <2>6. call' = [call EXCEPT ![p] = r]
    BY <1>7 DEF r
  <2>. QED
    BY <1>1, <2>1, <2>5, <2>6, CallStep
<1>. QED
  BY <1>3, <1>4, <1>6, <1>7 DEF Answer

-----------------------------------------------------------------------------
(* ListByInterest *)

LEMMA ListKeeps ==
    ASSUME IInv, NEW p \in Calls, NEW r \in Replicas, NEW c \in Cursors, NEW limit \in Limits,
           List(p, r, c, limit)
    PROVE  IInv'
<1>0. SharedOK /\ EntriesOK /\ CallsOK
  BY DEF IInv
<1> DEFINE n == [Returned EXCEPT !.op = "list", !.at = "redis", !.home = r, !.cursor = c, !.limit = limit]
<1>1. /\ n.op = "list" /\ n.at = "redis" /\ n.home = r /\ n.cursor = c /\ n.limit = limit
      /\ n.page = Miss /\ n.todo = NoPage /\ n.kept = {}
  BY DEF Returned
<1>2. n \in CallRecords
  <2>1. Returned \in CallRecords
    BY ReturnedFits DEF CallOK
  <2>. QED
    BY <2>1 DEF CallRecords, Steps, Reading, Caches
<1>3. call' = [call EXCEPT ![p] = n] /\ UNCHANGED stored
  BY DEF List
<1>. HIDE DEF n
<1>4. CallOK(n)
  BY <1>1, <1>2 DEF CallOK, CallFits, Ahead, Follows, IsPage, Reading
<1>5. CallsOK'
  BY <1>0, <1>1, <1>3, <1>4, CallStep
<1>6. SharedOK' /\ EntriesOK'
  BY <1>0, QuietStep, SameEntries DEF List, Begins
<1>. QED
  BY <1>5, <1>6 DEF IInv

(* A call goes to another step of its reading, with the entry e in hand. *)
LEMMA ReadStep ==
    ASSUME CallsOK, UNCHANGED stored, NEW p \in Calls, NEW at \in Reading, NEW e \in Entries,
           call[p].at \in Reading, Follows(e, call[p].cursor),
           at \in {"copy", "fill", "setnx"} => e # Miss,
           call' = [call EXCEPT ![p] = [call[p] EXCEPT !.at = at, !.page = e]]
    PROVE  CallsOK'
<1> DEFINE cl == call[p]
           r == [cl EXCEPT !.at = at, !.page = e]
<1>1. CallOK(cl) /\ cl.kept \subseteq Live /\ cl \in CallRecords
  BY DEF CallsOK, CallOK
<1>2. /\ r.op = cl.op /\ r.at = at /\ r.page = e /\ r.cursor = cl.cursor
      /\ r.kept = cl.kept /\ r.todo = cl.todo /\ r.from = cl.from /\ r.misled = cl.misled
  BY <1>1 DEF CallRecords
<1>3. r \in CallRecords
  BY <1>1 DEF CallRecords, Steps
<1>. HIDE DEF r
<1>4. CallOK(r)
  BY <1>1, <1>2, <1>3 DEF CallOK, CallFits, Ahead, Reading
<1>5. call' = [call EXCEPT ![p] = r]
  BY DEF r
<1>. QED
  BY <1>1, <1>2, <1>4, <1>5, CallStep

LEMMA GetRedisKeeps == ASSUME IInv, NEW p \in Calls, GetRedis(p) PROVE IInv'
<1>0. SharedOK /\ EntriesOK /\ CallsOK
  BY DEF IInv
<1> DEFINE e == entry[Redis][call[p].cursor]
<1>1. call[p] \in CallRecords /\ call[p].at = "redis" /\ call[p].cursor \in Cursors
  BY <1>0 DEF CallsOK, CallRecords, GetRedis, At
<1>2. e \in Entries /\ Follows(e, call[p].cursor) /\ call[p].page \in Entries
  BY <1>0, <1>1 DEF EntriesOK, Caches, CallRecords
<1>3. Follows(call[p].page, call[p].cursor)
  BY <1>0 DEF CallsOK, CallOK, CallFits
<1>4. CASE e # Miss /\ call' = [call EXCEPT ![p].at = "copy", ![p].page = e]
  <2>1. call' = [call EXCEPT ![p] = [call[p] EXCEPT !.at = "copy", !.page = e]]
    BY <1>0, <1>4 DEF CallsOK
  <2>2. CallsOK'
    BY <1>0, <1>1, <1>2, <1>4, <2>1, ReadStep DEF GetRedis, Reading
  <2>. QED
    BY <1>0, <2>2, QuietStep, SameEntries DEF GetRedis, IInv
<1>5. CASE Goto(p, "load")
  <2>1. call' = [call EXCEPT ![p] = [call[p] EXCEPT !.at = "load", !.page = call[p].page]]
    BY <1>0, <1>1, <1>5 DEF CallsOK, CallRecords, Goto
  <2>2. CallsOK'
    BY <1>0, <1>1, <1>2, <1>3, <2>1, ReadStep DEF GetRedis, Reading
  <2>. QED
    BY <1>0, <2>2, QuietStep, SameEntries DEF GetRedis, IInv
<1>. QED
  BY <1>4, <1>5 DEF GetRedis

LEMMA LoadKeeps == ASSUME IInv, NEW p \in Calls, Load(p) PROVE IInv'
<1>0. SharedOK /\ EntriesOK /\ CallsOK
  BY DEF IInv
<1>1. PICK v \in {PageAfter(call[p].cursor, call[p].limit), Empty} :
         /\ call' = [call EXCEPT ![p].at = "fill", ![p].page = v]
         /\ IF v = Empty THEN Event ELSE UNCHANGED events
  BY DEF Load
<1>2. v \in Entries /\ v # Miss /\ Follows(v, call[p].cursor)
  BY <1>0, PageAfterType, EntryAssumption DEF SharedOK, Entries, Follows, IsPage
<1>3. call' = [call EXCEPT ![p] = [call[p] EXCEPT !.at = "fill", !.page = v]]
  BY <1>0, <1>1 DEF CallsOK
<1>4. CallsOK'
  BY <1>0, <1>2, <1>3, ReadStep DEF Load, At, Reading
<1>. QED
  BY <1>0, <1>1, <1>4, QuietStep, SameEntries DEF Load, IInv

LEMMA FillKeeps == ASSUME IInv, NEW p \in Calls, Fill(p) PROVE IInv'
<1>0. SharedOK /\ EntriesOK /\ CallsOK
  BY DEF IInv
<1> DEFINE cl == call[p]
<1>1. /\ cl \in CallRecords /\ cl.at \in {"copy", "fill"} /\ cl.page \in PagesOfUrls \cup {Empty}
      /\ cl.home \in Caches /\ cl.cursor \in Cursors /\ cl.todo = NoPage /\ Follows(cl.page, cl.cursor)
  BY <1>0 DEF CallsOK, CallOK, CallFits, CallRecords, Entries, Fill, Reading
<1>2. EntriesOK'
  BY <1>0, <1>1, EntryStep DEF Fill, Entries
<1>3. CallsOK'
  <2>1. CASE Goto(p, "setnx")
    <3>1. call' = [call EXCEPT ![p] = [cl EXCEPT !.at = "setnx", !.page = cl.page]]
      BY <1>0, <1>1, <2>1 DEF CallsOK, CallRecords, Goto
    <3>. QED
      BY <1>0, <1>1, <3>1, EntryAssumption, ReadStep DEF Fill, Reading, Entries
  <2>2. CASE Answer(p, cl.page)
    BY <1>0, <1>1, <2>2, AnswerStep DEF Fill
  <2>. QED
    BY <2>1, <2>2 DEF Fill
<1>4. SharedOK'
  BY <1>0, QuietStep, Explained DEF Fill
<1>. QED
  BY <1>2, <1>3, <1>4 DEF IInv

LEMMA SetNXKeeps == ASSUME IInv, NEW p \in Calls, SetNX(p) PROVE IInv'
<1>0. SharedOK /\ EntriesOK /\ CallsOK
  BY DEF IInv
<1> DEFINE cl == call[p]
<1>1. /\ cl \in CallRecords /\ cl.at = "setnx" /\ cl.page \in PagesOfUrls \cup {Empty}
      /\ cl.cursor \in Cursors /\ cl.todo = NoPage /\ Follows(cl.page, cl.cursor)
  BY <1>0 DEF CallsOK, CallOK, CallFits, CallRecords, Entries, SetNX, At, Reading
<1>2. EntriesOK'
  <2>1. \/ entry' = [entry EXCEPT ![Redis][cl.cursor] = cl.page]
        \/ UNCHANGED entry
    <3>1. CASE entry[Redis][cl.cursor] = Miss
      BY <3>1 DEF SetNX
    <3>2. CASE entry[Redis][cl.cursor] # Miss
      BY <1>0, <1>1, <3>2 DEF SetNX, EntriesOK, Caches
    <3>. QED
      BY <3>1, <3>2
  <2>. QED
    BY <1>0, <1>1, <2>1, EntryStep, SameEntries DEF Entries, Caches
<1>3. CallsOK'
  BY <1>0, <1>1, AnswerStep DEF SetNX
<1>4. SharedOK'
  BY <1>0, QuietStep, Explained DEF SetNX
<1>. QED
  BY <1>2, <1>3, <1>4 DEF IInv

-----------------------------------------------------------------------------
(* Writes *)

Gone(u, v) == IF v = Absent THEN {u} ELSE {}
Without(cl, urls) == [cl EXCEPT !.kept = cl.kept \ urls]

LEMMA WithoutIs ==
    ASSUME NEW cl \in CallRecords, NEW urls
    PROVE  LET r == Without(cl, urls)
           IN /\ r \in CallRecords /\ r.op = cl.op /\ r.at = cl.at /\ r.home = cl.home
              /\ r.cursor = cl.cursor /\ r.limit = cl.limit /\ r.page = cl.page /\ r.from = cl.from
              /\ r.todo = cl.todo /\ r.kept = cl.kept \ urls /\ r.misled = cl.misled
BY DEF Without, CallRecords

(* A sweep that counts on no more, and is no nearer to its end, has all before it. *)
LEMMA SameAhead ==
    ASSUME NEW cl, Ahead(cl), NEW r, r.op = cl.op, r.misled = cl.misled, r.from = cl.from,
           r.todo = cl.todo, r.kept \subseteq cl.kept, r.at = "swept" => cl.at = "swept"
    PROVE  Ahead(r)
<1>1. ASSUME r.op = "sweep", ~r.misled, NEW u \in r.kept
      PROVE  u \in DOMAIN r.todo \/ (u > r.from /\ r.at # "swept")
  <2>1. cl.op = "sweep" /\ ~cl.misled /\ u \in cl.kept
    BY <1>1
  <2>2. u \in DOMAIN cl.todo \/ (u > cl.from /\ cl.at # "swept")
    BY <2>1 DEF Ahead
  <2>. QED
    BY <2>2
<1>. QED
  BY <1>1 DEF Ahead

LEMMA WithoutFits == ASSUME NEW cl, CallOK(cl), NEW urls PROVE CallOK(Without(cl, urls))
<1> DEFINE r == Without(cl, urls)
<1>1. cl \in CallRecords
  BY DEF CallOK
<1>2. /\ r \in CallRecords /\ r.op = cl.op /\ r.at = cl.at /\ r.home = cl.home
      /\ r.cursor = cl.cursor /\ r.limit = cl.limit /\ r.page = cl.page /\ r.from = cl.from
      /\ r.todo = cl.todo /\ r.kept = cl.kept \ urls /\ r.misled = cl.misled
  BY <1>1, WithoutIs
<1>. HIDE DEF r
<1>3. CallFits(r)
  BY <1>2 DEF CallOK, CallFits
<1>4. Ahead(r)
  BY <1>2, SameAhead DEF CallOK
<1>5. CallOK(r)
  BY <1>2, <1>3, <1>4 DEF CallOK
<1>. QED
  BY <1>5 DEF r

(* The storage takes a write of p: what is no longer live, no sweep counts on. *)
LEMMA StoreStep ==
    ASSUME IInv, NEW p \in Calls, NEW r, NEW u \in Urls, NEW v \in {Absent} \cup Contents,
           NEW started \in CallRecords, CallOK(Without(started, Gone(u, v))),
           started.kept \subseteq Live, Store(p, r, u, v, started)
    PROVE  /\ StorageOK' /\ ver' \in Contents /\ events' \in 0 .. MaxEvents
           /\ excused' \subseteq Places /\ EntriesOK' /\ CallsOK'
<1>0. SharedOK /\ EntriesOK /\ CallsOK
  BY DEF IInv
<1> DEFINE gone == Gone(u, v)
<1>1. StorageOK' /\ ver' \in Contents
  BY <1>0 DEF Store, SharedOK, StorageOK
<1>2. events' \in 0 .. MaxEvents
  BY <1>0, EventCounts DEF Store, SharedOK
<1>3. excused' \subseteq Places
  BY Explained DEF Store
<1>4. EntriesOK'
  BY <1>0, SameEntries DEF Store
<1>5. Live \ gone \subseteq Live'
  <2>1. stored' = [stored EXCEPT ![u] = v]
    BY DEF Store
  <2>2. ASSUME NEW w \in Live \ gone PROVE stored'[w] # Absent /\ w \in Urls
    BY <1>0, <2>1, <2>2 DEF Live, SharedOK, StorageOK, Gone
  <2>3. ASSUME NEW w \in Urls, stored'[w] # Absent PROVE w \in Live'
    BY <2>3 DEF Live
  <2>. QED
    BY <2>2, <2>3
<1>6. PICK n \in {started, Returned} : call' = Forget([call EXCEPT ![p] = n], gone)
  BY DEF Store, Gone
<1>7. CallOK(Without(n, gone)) /\ n \in CallRecords /\ n.kept \subseteq Live
  BY ReturnedFits, WithoutFits DEF CallOK
<1> DEFINE cls == [call EXCEPT ![p] = n]
<1>8. /\ cls \in [Calls -> CallRecords]
      /\ \A q \in Calls : CallOK(Without(cls[q], gone)) /\ cls[q].kept \subseteq Live
  BY <1>0, <1>7, WithoutFits DEF CallsOK
<1>9. call' = [q \in Calls |-> Without(cls[q], gone)]
  BY <1>6 DEF Forget, Without
<1>. HIDE DEF cls, gone
<1>10. \A q \in Calls : CallOK(call'[q]) /\ call'[q].kept \subseteq Live'
  <2> TAKE q \in Calls
  <2>1. call'[q] = Without(cls[q], gone)
    BY <1>9
  <2>2. Without(cls[q], gone).kept = cls[q].kept \ gone
    BY <1>8, WithoutIs
  <2>. QED
    BY <1>5, <1>8, <2>1, <2>2
<1>11. call' \in [Calls -> CallRecords]
  BY <1>8, <1>9, WithoutIs
<1>12. (\A q \in Calls : CallOK(call[q]) /\ call[q].kept \subseteq Live)'
  BY <1>10
<1>13. CallsOK'
  BY <1>11, <1>12 DEF CallsOK
<1>. QED
  BY <1>1, <1>2, <1>3, <1>4, <1>13

(* A walk begins. *)
LEMMA WalkingFits ==
    ASSUME NEW cl \in CallRecords, Ahead(cl), cl.at # "swept"
    PROVE  CallOK(Walking(cl)) /\ Walking(cl).kept = cl.kept
<1> DEFINE r == Walking(cl)
<1>1. /\ r.op = cl.op /\ r.at = "walk" /\ r.page = Miss /\ r.cursor = First
      /\ r.kept = cl.kept /\ r.todo = cl.todo /\ r.from = cl.from /\ r.misled = cl.misled
  BY DEF Walking, CallRecords
<1>2. r \in CallRecords
  BY DEF Walking, CallRecords, Steps, Cursors, Entries
<1>. HIDE DEF r
<1>3. CallFits(r)
  BY <1>1 DEF CallFits, Follows, IsPage, Reading
<1>4. Ahead(r)
  BY <1>1, SameAhead
<1>5. CallOK(r)
  BY <1>2, <1>3, <1>4 DEF CallOK
<1>. QED
  BY <1>1, <1>5 DEF r

LEMMA WriteKeeps ==
    ASSUME IInv, NEW p \in Calls, NEW r \in Replicas, NEW u \in Urls, Write(p, r, u)
    PROVE  IInv'
<1>0. SharedOK /\ EntriesOK /\ CallsOK
  BY DEF IInv
<1> DEFINE n == [Returned EXCEPT !.op = "write", !.home = r]
           started == Walking(n)
<1>1. n \in CallRecords /\ Ahead(n) /\ n.at = "idle" /\ n.kept = {}
  <2>1. Returned \in CallRecords
    BY ReturnedFits DEF CallOK
  <2>2. n \in CallRecords /\ n.op = "write" /\ n.at = Returned.at /\ n.kept = Returned.kept
    BY <2>1 DEF CallRecords, Caches
  <2>. QED
    BY <2>2, ReturnedFits DEF Ahead
<1>2. CallOK(started) /\ started.kept = {} /\ started \in CallRecords
  BY <1>1, WalkingFits DEF CallOK
<1>3. since' \in [Urls -> Contents] /\ begun' \in 0 .. MaxCalls
  <2>1. begun' \in 0 .. MaxCalls
    BY <1>0, PageAssumption DEF Write, Begins, SharedOK
  <2>2. ver < MaxWrites => ver + 1 \in Contents
    BY <1>0, PageAssumption DEF SharedOK, Contents
  <2>3. since \in [Urls -> Contents] /\ since[u] \in Contents
    BY <1>0 DEF SharedOK
  <2>4. \/ since' = since
        \/ ver < MaxWrites /\ \E s \in {since[u], ver + 1} : since' = [since EXCEPT ![u] = s]
    BY DEF Write
  <2>. QED
    BY <2>1, <2>2, <2>3, <2>4
<1>4. PICK v \in {Absent} \cup Contents : Store(p, r, u, v, started)
  <2>1. ver < MaxWrites => ver + 1 \in Contents
    BY <1>0, PageAssumption DEF SharedOK, Contents
  <2>. QED
    BY <2>1 DEF Write
<1>. HIDE DEF started
<1>5. CallOK(Without(started, Gone(u, v)))
  BY <1>2, WithoutFits
<1>. QED
  BY <1>2, <1>3, <1>4, <1>5, StoreStep DEF IInv, SharedOK

(* A walk goes on, with the entry e in hand. *)
LEMMA WalkStep ==
    ASSUME CallsOK, UNCHANGED stored, NEW p \in Calls,
           call[p].at \in {"walk", "keep", "drop", "dropRedis"},
           NEW at \in {"walk", "keep", "drop", "dropRedis"}, NEW c \in Cursors, NEW e \in Entries,
           Follows(e, c),
           at # "walk" => e # Miss,
           at \in {"drop", "dropRedis"} => e \notin {Empty, NoPage},
           call' = [call EXCEPT ![p] = [call[p] EXCEPT !.at = at, !.cursor = c, !.page = e]]
    PROVE  CallsOK'
<1> DEFINE cl == call[p]
           r == [cl EXCEPT !.at = at, !.cursor = c, !.page = e]
<1>1. CallOK(cl) /\ cl.kept \subseteq Live /\ cl \in CallRecords
  BY DEF CallsOK, CallOK
<1>2. /\ r.op = cl.op /\ r.at = at /\ r.page = e /\ r.cursor = c
      /\ r.kept = cl.kept /\ r.todo = cl.todo /\ r.from = cl.from /\ r.misled = cl.misled
  BY <1>1 DEF CallRecords
<1>3. r \in CallRecords
  BY <1>1 DEF CallRecords, Steps
<1>. HIDE DEF r
<1>4. CallOK(r)
  BY <1>1, <1>2, <1>3 DEF CallOK, CallFits, Ahead, Reading, IsPage
<1>5. call' = [call EXCEPT ![p] = r]
  BY DEF r
<1>. QED
  BY <1>1, <1>2, <1>4, <1>5, CallStep

LEMMA WalkKeeps == ASSUME IInv, NEW p \in Calls, Walk(p) PROVE IInv'
<1>0. SharedOK /\ EntriesOK /\ CallsOK
  BY DEF IInv
<1> DEFINE cl == call[p]
           local == entry[cl.home][cl.cursor]
           redis == entry[Redis][cl.cursor]
<1>1. cl \in CallRecords /\ cl.at = "walk" /\ cl.home \in Caches /\ cl.cursor \in Cursors
  BY <1>0 DEF CallsOK, CallRecords, Walk, At
<1>2. /\ local \in Entries /\ Follows(local, cl.cursor)
      /\ redis \in Entries /\ Follows(redis, cl.cursor)
  BY <1>0, <1>1 DEF EntriesOK, Caches
<1>3. SharedOK'
  BY <1>0, QuietStep, Explained DEF Walk
<1>4. EntriesOK'
  BY <1>0, SameEntries DEF Walk
<1>5. CASE local \notin {Miss, Empty, NoPage} /\ call' = [call EXCEPT ![p].at = "drop", ![p].page = local]
  <2>. HIDE DEF local
  <2>1. call' = [call EXCEPT ![p] = [cl EXCEPT !.at = "drop", !.cursor = cl.cursor, !.page = local]]
    BY <1>0, <1>1, <1>5 DEF CallsOK, CallRecords
  <2>2. CallsOK'
    BY <1>0, <1>1, <1>2, <1>5, <2>1, WalkStep DEF Walk
  <2>. QED
    BY <1>3, <1>4, <2>2 DEF IInv
<1>6. CASE redis # Miss /\ call' = [call EXCEPT ![p].at = "keep", ![p].page = redis]
  <2>. HIDE DEF redis
  <2>1. call' = [call EXCEPT ![p] = [cl EXCEPT !.at = "keep", !.cursor = cl.cursor, !.page = redis]]
    BY <1>0, <1>1, <1>6 DEF CallsOK, CallRecords
  <2>2. CallsOK'
    BY <1>0, <1>1, <1>2, <1>6, <2>1, WalkStep DEF Walk
  <2>. QED
    BY <1>3, <1>4, <2>2 DEF IInv
<1>7. CASE Walked(p)
  BY <1>0, <1>1, <1>3, <1>4, <1>7, WalkedStep DEF Walk, IInv
<1>. QED
  BY <1>5, <1>6, <1>7 DEF Walk

LEMMA KeepKeeps == ASSUME IInv, NEW p \in Calls, Keep(p) PROVE IInv'
<1>0. SharedOK /\ EntriesOK /\ CallsOK
  BY DEF IInv
<1> DEFINE cl == call[p]
<1>1. /\ cl \in CallRecords /\ cl.at = "keep" /\ cl.page \in Entries /\ cl.page # Miss
      /\ cl.home \in Caches /\ cl.cursor \in Cursors /\ Follows(cl.page, cl.cursor)
  BY <1>0 DEF CallsOK, CallOK, CallFits, CallRecords, Keep, At
<1>2. EntriesOK'
  BY <1>0, <1>1, EntryStep DEF Keep
<1>3. CallsOK'
  <2>1. CASE cl.page \notin {Empty, NoPage} /\ Goto(p, "drop")
    <3>1. call' = [call EXCEPT ![p] = [cl EXCEPT !.at = "drop", !.cursor = cl.cursor, !.page = cl.page]]
      BY <1>0, <1>1, <2>1 DEF CallsOK, CallRecords, Goto
    <3>. QED
      BY <1>0, <1>1, <2>1, <3>1, WalkStep DEF Keep
  <2>2. CASE Walked(p)
    BY <1>0, <1>1, <2>2, WalkedStep DEF Keep
  <2>. QED
    BY <2>1, <2>2 DEF Keep
<1>4. SharedOK'
  BY <1>0, QuietStep, Explained DEF Keep
<1>. QED
  BY <1>2, <1>3, <1>4 DEF IInv

LEMMA MissFollows == ASSUME NEW c PROVE Follows(Miss, c) /\ Miss \in Entries
BY DEF Follows, IsPage, Entries

LEMMA DropKeeps == ASSUME IInv, NEW p \in Calls, Drop(p) PROVE IInv'
<1>0. SharedOK /\ EntriesOK /\ CallsOK
  BY DEF IInv
<1> DEFINE cl == call[p]
<1>1. /\ cl \in CallRecords /\ cl.at = "drop" /\ cl.page \in Entries
      /\ cl.page \notin {Miss, Empty, NoPage}
      /\ cl.home \in Caches /\ cl.cursor \in Cursors /\ Follows(cl.page, cl.cursor)
  BY <1>0 DEF CallsOK, CallOK, CallFits, CallRecords, Drop, At, IsPage
<1>2. EntriesOK'
  BY <1>0, <1>1, MissFollows, EntryStep DEF Drop
<1>3. call' = [call EXCEPT ![p] = [cl EXCEPT !.at = "dropRedis", !.cursor = cl.cursor, !.page = cl.page]]
  BY <1>0, <1>1 DEF CallsOK, CallRecords, Goto, Drop
<1>4. CallsOK'
  BY <1>0, <1>1, <1>3, WalkStep DEF Drop
<1>5. SharedOK'
  BY <1>0, QuietStep, Explained DEF Drop
<1>. QED
  BY <1>2, <1>4, <1>5 DEF IInv

LEMMA DropRedisKeeps == ASSUME IInv, NEW p \in Calls, DropRedis(p) PROVE IInv'
<1>0. SharedOK /\ EntriesOK /\ CallsOK
  BY DEF IInv
<1> DEFINE cl == call[p]
<1>1. /\ cl \in CallRecords /\ cl.at = "dropRedis" /\ cl.page \in Entries
      /\ cl.page \notin {Miss, Empty, NoPage} /\ cl.cursor \in Cursors
  BY <1>0 DEF CallsOK, CallOK, CallFits, CallRecords, DropRedis, At, IsPage
<1>2. SharedOK'
  BY <1>0, QuietStep, Explained DEF DropRedis
<1>3. CASE /\ entry' = [entry EXCEPT ![Redis][cl.cursor] = Miss]
           /\ call' = [call EXCEPT ![p].at = "walk", ![p].cursor = LastUrl(cl.page), ![p].page = Miss]
  <2>1. EntriesOK'
    BY <1>0, <1>1, <1>3, MissFollows, EntryStep DEF Caches
  <2>2. LastUrl(cl.page) \in Cursors
    BY <1>1, LastOfPage DEF Entries
  <2>3. call' = [call EXCEPT ![p] = [cl EXCEPT !.at = "walk", !.cursor = LastUrl(cl.page), !.page = Miss]]
    BY <1>0, <1>1, <1>3 DEF CallsOK, CallRecords
  <2>4. CallsOK'
    BY <1>0, <1>1, <2>2, <2>3, MissFollows, WalkStep DEF DropRedis
  <2>. QED
    BY <1>2, <2>1, <2>4 DEF IInv
<1>4. CASE UNCHANGED entry /\ Walked(p)
  BY <1>0, <1>1, <1>2, <1>4, WalkedStep, SameEntries DEF DropRedis, IInv
<1>. QED
  BY <1>3, <1>4 DEF DropRedis

LEMMA ChangeOwnerKeeps == ASSUME IInv, ChangeOwner PROVE IInv'
<1>0. SharedOK /\ EntriesOK /\ CallsOK
  BY DEF IInv
<1>1. PICK s \in (SUBSET Live) \ {{}} :
          /\ stored' = [u \in Urls |-> IF u \in s THEN ver + 1 ELSE stored[u]]
          /\ since' = [u \in Urls |-> IF u \in s THEN ver + 1 ELSE since[u]]
  BY DEF ChangeOwner
<1>2. ver + 1 \in Contents /\ ver + 1 # Absent
  BY <1>0, PageAssumption DEF SharedOK, Contents, ChangeOwner, Absent
<1>3. StorageOK' /\ since' \in [Urls -> Contents]
  BY <1>0, <1>1, <1>2 DEF SharedOK, StorageOK
<1>4. events' \in 0 .. MaxEvents /\ excused' \subseteq Places
  BY <1>0, EventCounts, Explained DEF ChangeOwner
<1>5. SharedOK'
  BY <1>0, <1>2, <1>3, <1>4 DEF SharedOK, ChangeOwner
<1>6. Live' = Live
  <2>1. \A u \in Urls : stored'[u] # Absent <=> stored[u] # Absent
    BY <1>1, <1>2 DEF Live
  <2>. QED
    BY <2>1 DEF Live
<1>7. CallsOK'
  BY <1>0, <1>6 DEF CallsOK, ChangeOwner
<1>. QED
  BY <1>0, <1>5, <1>7, SameEntries DEF IInv, ChangeOwner

-----------------------------------------------------------------------------
(* UnsubscribeByInterest *)

LEMMA SweepKeeps == ASSUME IInv, NEW p \in Calls, NEW r \in Replicas, Sweep(p, r) PROVE IInv'
<1>0. SharedOK /\ EntriesOK /\ CallsOK
  BY DEF IInv
<1> DEFINE n == [Returned EXCEPT !.op = "sweep", !.at = "delete", !.home = r, !.kept = Live]
<1>1. /\ n.op = "sweep" /\ n.at = "delete" /\ n.kept = Live /\ n.from = First
      /\ n.cursor = First /\ n.page = Miss /\ n.todo = NoPage
  BY DEF Returned
<1>2. n \in CallRecords
  <2>1. Returned \in CallRecords
    BY ReturnedFits DEF CallOK
  <2>2. Live \in SUBSET Urls /\ r \in Caches
    BY DEF Live, Caches
  <2>. QED
    BY <2>1, <2>2 DEF CallRecords, Steps
<1>3. call' = [call EXCEPT ![p] = n] /\ UNCHANGED stored
  BY DEF Sweep
<1>. HIDE DEF n
<1>4. \A u \in Live : u > First
  BY PageAssumption DEF Live, First
<1>5. CallOK(n)
  BY <1>1, <1>2, <1>4 DEF CallOK, CallFits, Ahead, Follows, IsPage, Reading
<1>6. CallsOK'
  BY <1>0, <1>1, <1>3, <1>5, CallStep
<1>7. SharedOK' /\ EntriesOK'
  BY <1>0, QuietStep, SameEntries DEF Sweep, Begins
<1>. QED
  BY <1>6, <1>7 DEF IInv

LEMMA SweepListKeeps == ASSUME IInv, NEW p \in Calls, SweepList(p) PROVE IInv'
<1>0. SharedOK /\ EntriesOK /\ CallsOK
  BY DEF IInv
<1> DEFINE cl == call[p]
           e == entry[cl.home][cl.from]
<1>1. /\ cl \in CallRecords /\ CallOK(cl) /\ cl.kept \subseteq Live /\ cl.at = "delete"
      /\ cl.todo = NoPage /\ cl.page = Miss /\ cl.home \in Caches /\ cl.from \in Cursors
  BY <1>0 DEF CallsOK, CallOK, CallFits, CallRecords, SweepList, At
<1>2. CASE e # Miss /\ Answer(p, e)
  <2>1. e \in PagesOfUrls \cup {Empty}
    BY <1>0, <1>1, <1>2 DEF EntriesOK, Entries
  <2>2. CallsOK'
    BY <1>0, <1>1, <1>2, <2>1, AnswerStep DEF SweepList
  <2>. QED
    BY <1>0, <2>2, QuietStep, SameEntries DEF SweepList, IInv
<1>3. CASE call' = [call EXCEPT ![p].at = "redis", ![p].cursor = cl.from]
  <2> DEFINE r == [cl EXCEPT !.at = "redis", !.cursor = cl.from]
  <2>1. /\ r.op = cl.op /\ r.at = "redis" /\ r.page = Miss /\ r.cursor = cl.from
        /\ r.kept = cl.kept /\ r.todo = cl.todo /\ r.from = cl.from /\ r.misled = cl.misled
    BY <1>1 DEF CallRecords
  <2>2. r \in CallRecords
    BY <1>1 DEF CallRecords, Steps, Reading
  <2>3. call' = [call EXCEPT ![p] = r]
    BY <1>0, <1>1, <1>3 DEF CallsOK, CallRecords
  <2>. HIDE DEF r
  <2>4. CallFits(r)
    BY <1>1, <2>1 DEF CallFits, Follows, IsPage, Reading
  <2>5. Ahead(r)
    BY <1>1, <2>1, SameAhead DEF CallOK
  <2>6. CallOK(r)
    BY <2>2, <2>4, <2>5 DEF CallOK
  <2>7. CallsOK'
    BY <1>0, <1>1, <2>1, <2>3, <2>6, CallStep DEF SweepList
  <2>. QED
    BY <1>0, <2>7, QuietStep, SameEntries DEF SweepList, IInv
<1>. QED
  BY <1>2, <1>3 DEF SweepList

LEMMA SweepFallbackKeeps == ASSUME IInv, NEW p \in Calls, SweepFallback(p) PROVE IInv'
<1>0. SharedOK /\ EntriesOK /\ CallsOK
  BY DEF IInv
<1>1. call[p].at = "fallback" /\ call[p].todo = NoPage
  BY <1>0 DEF CallsOK, CallOK, CallFits, SweepFallback, At
<1>2. CallsOK'
  <2>1. CASE Answer(p, PageAfter(call[p].from, SweepLimit))
    BY <1>0, <1>1, <2>1, PageAfterType, AnswerStep DEF SweepFallback, SharedOK
  <2>2. CASE call' = [call EXCEPT ![p] = Returned]
    BY <1>0, <2>2, ReturnStep DEF SweepFallback
  <2>. QED
    BY <2>1, <2>2 DEF SweepFallback
<1>. QED
  BY <1>0, <1>2, QuietStep, SameEntries DEF SweepFallback, IInv

(* A page without one of its urls. *)
LEMMA RestOfPage ==
    ASSUME NEW page \in PagesOfUrls, NEW u
    PROVE  LET rest == [v \in (DOMAIN page) \ {u} |-> page[v]]
           IN rest \in PagesOfUrls /\ DOMAIN rest = (DOMAIN page) \ {u}
<1> DEFINE s == (DOMAIN page) \ {u}
           rest == [v \in s |-> page[v]]
<1>1. s \in SUBSET Urls /\ \A v \in s : page[v] \in Contents
  BY PageUrls
<1>. HIDE DEF s
<1>2. rest \in [s -> Contents] /\ DOMAIN rest = s
  BY <1>1
<1>3. rest \in PagesOfUrls
  BY <1>1, <1>2 DEF PagesOfUrls
<1>. QED
  BY <1>2, <1>3 DEF s

LEMMA SweepDeleteKeeps == ASSUME IInv, NEW p \in Calls, SweepDelete(p) PROVE IInv'
<1>0. SharedOK /\ EntriesOK /\ CallsOK
  BY DEF IInv
<1> DEFINE cl == call[p]
           u == Min(DOMAIN cl.todo)
           rest == [v \in (DOMAIN cl.todo) \ {u} |-> cl.todo[v]]
           found == u \in Live /\ cl.todo[u] \geq since[u]
           wrong == cl.misled \/ u \in Live
           less == [cl EXCEPT !.todo = rest]
<1>1. /\ cl \in CallRecords /\ CallOK(cl) /\ cl.kept \subseteq Live /\ cl.at = "delete"
      /\ cl.todo \in PagesOfUrls /\ cl.todo # NoPage /\ cl.page = Miss
  BY <1>0 DEF CallsOK, CallOK, CallFits, CallRecords, SweepDelete, At
<1>2. u \in DOMAIN cl.todo /\ u \in Urls
  <2>1. DOMAIN cl.todo \in SUBSET Urls
    BY <1>1, PageUrls
  <2>2. DOMAIN cl.todo \in SUBSET Nat
    BY <2>1, PageAssumption
  <2>3. DOMAIN cl.todo # {}
    BY <1>1, LastOfPage
  <2>. QED
    BY <2>1, <2>2, <2>3, MinIn
<1>3. rest \in PagesOfUrls /\ DOMAIN rest = (DOMAIN cl.todo) \ {u}
  BY <1>1, RestOfPage
<1>. HIDE DEF u, rest
<1>4. /\ less \in CallRecords /\ less.op = cl.op /\ less.at = cl.at /\ less.page = cl.page
      /\ less.cursor = cl.cursor /\ less.kept = cl.kept /\ less.todo = rest /\ less.from = cl.from
      /\ less.misled = cl.misled
  BY <1>1, <1>3 DEF CallRecords
<1>5. CASE found /\ Store(p, cl.home, u, Absent, Walking(less))
  <2> DEFINE started == Walking(less)
             r == Without(started, Gone(u, Absent))
  <2>1. /\ started.op = cl.op /\ started.at = "walk" /\ started.page = Miss /\ started.cursor = First
        /\ started.kept = cl.kept /\ started.todo = rest /\ started.from = cl.from
        /\ started.misled = cl.misled
    <3>. HIDE DEF less
    <3>. QED
      BY <1>4 DEF Walking, CallRecords
  <2>2. started \in CallRecords
    <3>. HIDE DEF less
    <3>. QED
      BY <1>4 DEF Walking, CallRecords, Steps, Cursors, Entries
  <2>. HIDE DEF started
  <2>3. /\ r \in CallRecords /\ r.op = cl.op /\ r.at = "walk" /\ r.page = Miss /\ r.cursor = First
        /\ r.kept = cl.kept \ {u} /\ r.todo = rest /\ r.from = cl.from /\ r.misled = cl.misled
    BY <2>1, <2>2, WithoutIs DEF Gone
  <2>4. Store(p, cl.home, u, Absent, started)
    BY <1>5 DEF started
  <2>5. CallOK(r)
    <3>. HIDE DEF r
    <3>1. CallFits(r)
      BY <2>3 DEF CallFits, Follows, IsPage, Reading
    <3>2. ASSUME r.op = "sweep", ~r.misled, NEW w \in r.kept
          PROVE  w \in DOMAIN r.todo \/ (w > r.from /\ r.at # "swept")
      <4>1. cl.op = "sweep" /\ ~cl.misled /\ w \in cl.kept /\ w # u
        BY <2>3, <3>2
      <4>2. w \in DOMAIN cl.todo \/ w > cl.from
        BY <1>1, <4>1 DEF CallOK, Ahead
      <4>. QED
        BY <1>3, <2>3, <4>1, <4>2
    <3>. QED
      BY <2>3, <3>1, <3>2 DEF CallOK, Ahead
  <2>. HIDE DEF r
  <2>6. CallOK(Without(started, Gone(u, Absent)))
    BY <2>5 DEF r
  <2>7. started.kept \subseteq Live
    BY <1>1, <2>1
  <2>8. /\ StorageOK' /\ ver' \in Contents /\ events' \in 0 .. MaxEvents
        /\ excused' \subseteq Places /\ EntriesOK' /\ CallsOK'
    BY <1>2, <2>2, <2>4, <2>6, <2>7, StoreStep
  <2>. QED
    BY <1>0, <2>8 DEF SweepDelete, IInv, SharedOK
<1>6. CASE /\ ~found
           /\ call' = [call EXCEPT ![p].todo = rest, ![p].misled = wrong]
           /\ UNCHANGED <<stored, ver, entry, events, excused>>
  <2> DEFINE r == [cl EXCEPT !.todo = rest, !.misled = wrong]
  <2>1. wrong \in BOOLEAN
    BY <1>1 DEF CallRecords
  <2>2. wrong = (cl.misled \/ u \in Live)
    OBVIOUS
  <2>. HIDE DEF wrong
  <2>3. /\ r.op = cl.op /\ r.at = "delete" /\ r.page = Miss /\ r.cursor = cl.cursor
        /\ r.kept = cl.kept /\ r.todo = rest /\ r.from = cl.from /\ r.misled = wrong
    BY <1>1 DEF CallRecords
  <2>4. r \in CallRecords
    BY <1>1, <1>3, <2>1 DEF CallRecords
  <2>5. call' = [call EXCEPT ![p] = r]
    BY <1>0, <1>6 DEF CallsOK, CallRecords
  <2>. HIDE DEF r
  <2>6. ASSUME r.op = "sweep", ~r.misled, NEW w \in r.kept
        PROVE  w \in DOMAIN r.todo \/ (w > r.from /\ r.at # "swept")
    <3>1. cl.op = "sweep" /\ ~wrong /\ w \in cl.kept
      BY <2>3, <2>6
    <3>2. ~cl.misled /\ u \notin Live
      BY <2>2, <3>1
    <3>3. w # u
      BY <1>1, <3>1, <3>2
    <3>4. w \in DOMAIN cl.todo \/ w > cl.from
      BY <1>1, <3>1, <3>2 DEF CallOK, Ahead
    <3>. QED
      BY <1>3, <2>3, <3>3, <3>4
  <2>7. CallFits(r)
    BY <2>3 DEF CallFits, Follows, IsPage, Reading
  <2>8. CallOK(r)
    BY <2>4, <2>6, <2>7 DEF CallOK, Ahead
  <2>9. CallsOK'
    BY <1>0, <1>1, <1>6, <2>3, <2>5, <2>8, CallStep
  <2>. QED
    BY <1>0, <1>6, <2>9, QuietStep, SameEntries DEF SweepDelete, IInv
<1>7. CASE /\ Event
           /\ call' = [call EXCEPT ![p] = Returned]
           /\ UNCHANGED <<stored, ver, entry, excused>>
  <2>1. CallsOK'
    BY <1>0, <1>7, ReturnStep
  <2>. QED
    BY <1>0, <1>7, <2>1, QuietStep, SameEntries DEF SweepDelete, IInv
<1>. QED
  BY <1>5, <1>6, <1>7 DEF SweepDelete, u, rest

LEMMA SweepEndsKeeps == ASSUME IInv, NEW p \in Calls, SweepEnds(p) PROVE IInv'
<1>0. SharedOK /\ EntriesOK /\ CallsOK
  BY DEF IInv
<1>1. CallsOK'
  BY <1>0, ReturnStep DEF SweepEnds
<1>. QED
  BY <1>0, <1>1, QuietStep, SameEntries DEF SweepEnds, IInv

-----------------------------------------------------------------------------
(* The environment, and the start *)

LEMMA ExpireKeeps ==
    ASSUME IInv, NEW x \in Caches, NEW c \in Cursors, Expire(x, c)
    PROVE  IInv'
<1>0. SharedOK /\ EntriesOK /\ CallsOK
  BY DEF IInv
<1>1. EntriesOK'
  BY <1>0, MissFollows, EntryStep DEF Expire
<1>2. CallsOK'
  BY <1>0, SameCalls DEF Expire
<1>3. SharedOK'
  BY <1>0, QuietStep, Explained DEF Expire
<1>. QED
  BY <1>1, <1>2, <1>3 DEF IInv

LEMMA CrashKeeps == ASSUME IInv, NEW r \in Replicas, Crash(r) PROVE IInv'
<1>0. SharedOK /\ EntriesOK /\ CallsOK
  BY DEF IInv
<1>1. EntriesOK'
  <2>1. entry' \in [Caches -> [Cursors -> Entries]]
    BY <1>0, MissFollows DEF EntriesOK, Crash
  <2>2. \A y \in Caches, d \in Cursors : Follows(entry'[y][d], d)
    BY <1>0, MissFollows DEF EntriesOK, Crash
  <2>3. (\A y \in Caches, d \in Cursors : Follows(entry[y][d], d))'
    BY <2>2
  <2>. QED
    BY <2>1, <2>3 DEF EntriesOK
<1>2. CallsOK'
  <2>1. Live' = Live
    BY DEF Live, Crash
  <2>2. call' = [q \in Calls |-> IF call[q].home = r THEN Returned ELSE call[q]]
    BY DEF Crash
  <2>3. \A q \in Calls : CallOK(call'[q]) /\ call'[q].kept \subseteq Live'
    BY <1>0, <2>1, <2>2, ReturnedFits DEF CallsOK
  <2>4. (\A q \in Calls : CallOK(call[q]) /\ call[q].kept \subseteq Live)'
    BY <2>3
  <2>5. call' \in [Calls -> CallRecords]
    BY <1>0, <2>2, ReturnedFits DEF CallsOK, CallOK
  <2>. QED
    BY <2>4, <2>5 DEF CallsOK
<1>3. SharedOK'
  BY <1>0, QuietStep, Explained DEF Crash
<1>. QED
  BY <1>1, <1>2, <1>3 DEF IInv

LEMMA InitKeeps == Init => IInv
<1> SUFFICES ASSUME Init PROVE IInv
  OBVIOUS
<1>1. SharedOK
  BY PageAssumption DEF Init, SharedOK, StorageOK, Contents
<1>2. EntriesOK
  <2>1. PICK limit \in Limits, cached \in SUBSET Cursors :
            entry = [x \in Caches |-> [c \in Cursors |->
                IF x = Redis /\ c \in cached THEN PageAfter(c, limit) ELSE Miss]]
    BY DEF Init
  <2>2. \A x \in Caches, c \in Cursors : entry[x][c] \in {PageAfter(c, limit), Miss}
    BY <2>1
  <2>3. \A c \in Cursors : PageAfter(c, limit) \in Entries /\ Follows(PageAfter(c, limit), c)
    BY <1>1, PageAfterType DEF SharedOK, Entries, Follows
  <2>4. \A x \in Caches, c \in Cursors : entry[x][c] \in Entries /\ Follows(entry[x][c], c)
    BY <2>2, <2>3, MissFollows
  <2>5. entry \in [Caches -> [Cursors -> Entries]]
    BY <2>1, <2>3, MissFollows
  <2>. QED
    BY <2>4, <2>5 DEF EntriesOK
<1>3. CallsOK
  BY ReturnedFits DEF Init, CallsOK, CallOK
<1>. QED
  BY <1>1, <1>2, <1>3 DEF IInv

LEMMA NextKeeps == IInv /\ [Next]_vars => IInv'
<1> SUFFICES ASSUME IInv, [Next]_vars PROVE IInv'
  OBVIOUS
<1>1. CASE UNCHANGED vars
  <2>1. SharedOK /\ EntriesOK /\ CallsOK
    BY DEF IInv
  <2>. QED
    BY <1>1, <2>1, QuietStep, SameEntries, SameCalls DEF vars, IInv
<1>2. ASSUME NEW p \in Calls, GoOn(p) PROVE IInv'
  BY <1>2, GetRedisKeeps, LoadKeeps, FillKeeps, SetNXKeeps, WalkKeeps, KeepKeeps, DropKeeps,
     DropRedisKeeps, SweepListKeeps, SweepFallbackKeeps, SweepDeleteKeeps, SweepEndsKeeps DEF GoOn
<1>3. ASSUME NEW p \in Calls, NEW r \in Replicas, Sweep(p, r) PROVE IInv'
  BY <1>3, SweepKeeps
<1>4. ASSUME NEW p \in Calls, NEW r \in Replicas, NEW u \in Urls, Write(p, r, u) PROVE IInv'
  BY <1>4, WriteKeeps
<1>5. ASSUME NEW p \in Calls, NEW r \in Replicas, NEW c \in Cursors, NEW limit \in Limits,
             List(p, r, c, limit)
      PROVE  IInv'
  BY <1>5, ListKeeps
<1>6. ASSUME NEW x \in Caches, NEW c \in Cursors, Expire(x, c) PROVE IInv'
  BY <1>6, ExpireKeeps
<1>7. ASSUME NEW r \in Replicas, Crash(r) PROVE IInv'
  BY <1>7, CrashKeeps
<1>8. CASE ChangeOwner
  BY <1>8, ChangeOwnerKeeps
<1>. QED
  BY <1>1, <1>2, <1>3, <1>4, <1>5, <1>6, <1>7, <1>8 DEF Next

(* The inductive invariant: besides the types, what a call has in hand fits its step, *)
(* and a sweep that is not misled has what it counts on before it.                    *)
THEOREM Invariance == Spec => []IInv
BY InitKeeps, NextKeeps, PTL DEF Spec

LEMMA IInvTypes == IInv => TypeOK
<1> SUFFICES ASSUME IInv PROVE TypeOK
  OBVIOUS
<1>0. SharedOK /\ EntriesOK /\ CallsOK
  BY DEF IInv
<1>1. \A x \in Caches, c \in Cursors : entry[x][c] \in Entries /\ Follows(entry[x][c], c)
  BY <1>0 DEF EntriesOK
<1>2. \A p \in Calls : call[p] \in CallRecords /\ call[p].kept \subseteq Live
  BY <1>0 DEF CallsOK, CallOK
<1>3. ASSUME NEW p \in Calls
      PROVE  /\ call[p].home \in Caches /\ call[p].cursor \in Cursors /\ call[p].from \in Cursors
             /\ call[p].page \in Entries /\ call[p].todo \in PagesOfUrls
  BY <1>2 DEF CallRecords
<1>. QED
  BY <1>0, <1>1, <1>2, <1>3 DEF TypeOK, SharedOK, StorageOK, Follows, Entries

(* Every variable stays in its set, and a cached page has only what follows its cursor. *)
THEOREM TypeCorrect == Spec => []TypeOK
BY Invariance, IInvTypes, PTL

(* UnsubscribeByInterest over cached pages passes over a subscription that was live all *)
(* the time only when a page misled it.                                                 *)
THEOREM SweepsComplete == Spec => []CachedSweepComplete
<1>1. IInv => CachedSweepComplete
  <2> SUFFICES ASSUME IInv, NEW p \in Calls, call[p].op = "sweep", ~call[p].misled,
                      NEW u \in call[p].kept
               PROVE  \/ u > call[p].from /\ ~At(p, "swept")
                      \/ u \in DOMAIN call[p].todo
    BY DEF CachedSweepComplete
  <2>1. Ahead(call[p])
    BY DEF IInv, CallsOK, CallOK
  <2>. QED
    BY <2>1 DEF Ahead, At
<1>. QED
  BY <1>1, Invariance, PTL

-----------------------------------------------------------------------------
(* The chain of pages that a walk drops.  Pages lead to greater cursors only, so that *)
(* the recursion ends, and what is before a cursor does not matter to its chain.      *)

CachesOK(e) ==
    /\ e \in [Caches -> [Cursors -> Entries]]
    /\ \A x \in Caches, c \in Cursors : Follows(e[x][c], c)

Seen(e, r, c) == IF e[r][c] # Miss THEN e[r][c] ELSE e[Redis][c]
Links(e, r, c) == IsPage(Seen(e, r, c)) /\ Seen(e, r, c) # NoPage
NextCursor(e, r, c) == LastUrl(Seen(e, r, c))
ChainStep(e, r, f, c) == IF Links(e, r, c) THEN {c} \cup f[NextCursor(e, r, c)] ELSE {}

LEMMA CursorsFinite == Cursors \in SUBSET Nat /\ Cursors # {} /\ IsFiniteSet(Cursors)
<1>1. IsFiniteSet({First} \cup Urls)
  BY PageAssumption, FS_Singleton, FS_Union
<1>. QED
  BY <1>1, CursorType DEF Cursors

LEMMA NextIsGreater ==
    ASSUME NEW e, CachesOK(e), NEW r \in Caches, NEW c \in Cursors, Links(e, r, c)
    PROVE  NextCursor(e, r, c) \in Cursors /\ NextCursor(e, r, c) > c
<1> DEFINE page == Seen(e, r, c)
<1>1. page \in Entries /\ Follows(page, c)
  BY DEF CachesOK, Seen, Caches
<1>2. page \in PagesOfUrls /\ page # NoPage /\ IsPage(page)
  BY <1>1 DEF Links, Entries, IsPage
<1>. HIDE DEF page
<1>3. LastUrl(page) \in DOMAIN page /\ LastUrl(page) \in Cursors
  BY <1>2, LastOfPage
<1>4. LastUrl(page) > c
  BY <1>1, <1>2, <1>3 DEF Follows
<1>. QED
  BY <1>3, <1>4 DEF NextCursor, page

LEMMA ChainFunction ==
    ASSUME NEW e, CachesOK(e), NEW r \in Caches
    PROVE  \E f : f = [c \in Cursors |-> ChainStep(e, r, f, c)]
<1> DEFINE From(n, f) == \A c \in Cursors : c >= n => f[c] = ChainStep(e, r, f, c)
           good == {n \in Nat : \E f : f = [c \in Cursors |-> f[c]] /\ From(n, f)}
<1>1. good # {}
  <2>1. \A c \in Cursors : c =< Max(Cursors)
    BY CursorsFinite, MaxIn
  <2>2. Max(Cursors) \in Nat
    BY CursorsFinite, MaxIn
  <2> DEFINE n == Max(Cursors) + 1
             f == [c \in Cursors |-> {}]
  <2>3. n \in Nat /\ \A c \in Cursors : ~(c >= n)
    BY <2>1, <2>2, CursorType
  <2>. HIDE DEF n
  <2>4. From(n, f)
    BY <2>3
  <2>5. f = [c \in Cursors |-> f[c]]
    OBVIOUS
  <2>. QED
    BY <2>3, <2>4, <2>5
<1>2. PICK m \in good : \A n \in good : m =< n
  <2>1. good \in SUBSET Nat
    OBVIOUS
  <2>. HIDE DEF good
  <2>. QED
    BY <1>1, <2>1, LeastOf
<1>3. PICK f : f = [c \in Cursors |-> f[c]] /\ From(m, f)
  OBVIOUS
<1>4. CASE m = 0
  <2>1. \A c \in Cursors : f[c] = ChainStep(e, r, f, c)
    BY <1>3, <1>4, CursorType
  <2>2. f = [c \in Cursors |-> ChainStep(e, r, f, c)]
    BY <1>3, <2>1
  <2>. QED
    BY <2>2
<1>5. CASE m # 0
  <2> DEFINE n == m - 1
             g == [c \in Cursors |-> IF c = n THEN ChainStep(e, r, f, c) ELSE f[c]]
  <2>1. m \in Nat /\ n \in Nat /\ n < m
    BY <1>5
  <2>2. ASSUME NEW c \in Cursors, c >= n PROVE g[c] = ChainStep(e, r, f, c)
    <3>1. c = n \/ c >= m
      BY <2>1, <2>2, CursorType
    <3>. QED
      BY <1>3, <3>1
  <2>3. ASSUME NEW c \in Cursors, c >= n PROVE ChainStep(e, r, f, c) = ChainStep(e, r, g, c)
    <3>1. CASE Links(e, r, c)
      <4>1. NextCursor(e, r, c) \in Cursors /\ NextCursor(e, r, c) > c
        BY <3>1, NextIsGreater
      <4>2. NextCursor(e, r, c) # n
        BY <2>1, <2>3, <4>1, CursorType
      <4>3. g[NextCursor(e, r, c)] = f[NextCursor(e, r, c)]
        BY <4>1, <4>2
      <4>. QED
        BY <4>3 DEF ChainStep
    <3>2. CASE ~Links(e, r, c)
      BY <3>2 DEF ChainStep
    <3>. QED
      BY <3>1, <3>2
  <2>4. g = [c \in Cursors |-> g[c]]
    OBVIOUS
  <2>. HIDE DEF g, n
  <2>5. From(n, g)
    BY <2>2, <2>3
  <2>6. n \in good
    BY <2>1, <2>4, <2>5
  <2>. QED
    BY <1>2, <2>1, <2>6
<1>. QED
  BY <1>4, <1>5

LEMMA ChainUnfold ==
    ASSUME NEW e, CachesOK(e), NEW r \in Caches, NEW c \in Cursors
    PROVE  Chain(e, r, c) = IF Links(e, r, c) THEN {c} \cup Chain(e, r, NextCursor(e, r, c)) ELSE {}
<1> DEFINE chain == CHOOSE f : f = [d \in Cursors |-> ChainStep(e, r, f, d)]
<1>1. chain = [d \in Cursors |-> ChainStep(e, r, chain, d)]
  BY ChainFunction
<1>2. \A d : Chain(e, r, d) = chain[d]
  BY DEF Chain, ChainStep, Links, NextCursor, Seen
<1>. HIDE DEF chain
<1>3. chain[c] = ChainStep(e, r, chain, c)
  BY <1>1
<1>. QED
  BY <1>2, <1>3 DEF ChainStep

LEMMA ChainFrame ==
    ASSUME NEW e, CachesOK(e), NEW g, CachesOK(g), NEW r \in Caches, NEW c \in Cursors,
           \A d \in Cursors : d >= c => Seen(g, r, d) = Seen(e, r, d)
    PROVE  Chain(g, r, c) = Chain(e, r, c)
<1> DEFINE differ == {d \in Cursors : d >= c /\ Chain(g, r, d) # Chain(e, r, d)}
<1>1. ASSUME differ # {} PROVE FALSE
  <2>1. differ \in SUBSET Nat /\ IsFiniteSet(differ)
    <3>1. differ \in SUBSET Cursors
      OBVIOUS
    <3>. HIDE DEF differ
    <3>. QED
      BY <3>1, CursorsFinite, FS_Subset
  <2>2. PICK d \in differ : \A x \in differ : x =< d
    <3>. HIDE DEF differ
    <3>. QED
      BY <1>1, <2>1, MaxIn
  <2>3. d \in Cursors /\ d >= c /\ Seen(g, r, d) = Seen(e, r, d)
    OBVIOUS
  <2>4. Links(g, r, d) <=> Links(e, r, d)
    BY <2>3 DEF Links
  <2>5. NextCursor(g, r, d) = NextCursor(e, r, d)
    BY <2>3 DEF NextCursor
  <2>6. CASE Links(e, r, d)
    <3> DEFINE n == NextCursor(e, r, d)
    <3>1. n \in Cursors /\ n > d
      BY <2>3, <2>6, NextIsGreater
    <3>. HIDE DEF n
    <3>2. n \in Nat /\ d \in Nat /\ c \in Nat
      BY <2>3, <3>1, CursorType
    <3>3. n \notin differ /\ n >= c
      BY <2>2, <2>3, <3>1, <3>2
    <3>4. Chain(g, r, n) = Chain(e, r, n)
      BY <3>1, <3>3
    <3>5. Chain(g, r, d) = {d} \cup Chain(g, r, n)
      BY <2>3, <2>4, <2>5, <2>6, ChainUnfold DEF n
    <3>6. Chain(e, r, d) = {d} \cup Chain(e, r, n)
      BY <2>3, <2>6, ChainUnfold DEF n
    <3>. QED
      BY <3>4, <3>5, <3>6
  <2>7. CASE ~Links(e, r, d)
    BY <2>3, <2>4, <2>7, ChainUnfold
  <2>. QED
    BY <2>6, <2>7
<1>2. c >= c
  BY CursorType
<1>. QED
  BY <1>1, <1>2

-----------------------------------------------------------------------------
(* Why pages are stale: the steps of the readers and the writers *)

(* Only walks drop pages. *)
LEMMA NothingDoomed ==
    ASSUME NEW e, NEW cl, cl.at \notin {"walk", "keep", "drop", "dropRedis"}
    PROVE  Doomed(e, cl) = {}
BY DEF Doomed

LEMMA MissNotStale == ASSUME NEW c PROVE ~Stale(Miss, c)
BY DEF Stale, IsPage

LEMMA SameStale ==
    ASSUME UNCHANGED stored, NEW x, NEW c, entry'[x][c] = entry[x][c]
    PROVE  Stale(entry[x][c], c)' <=> Stale(entry[x][c], c)
BY DEF Stale, PageAfter, Live

(* A step that leaves the storage, the caches and excused alone, after which a walk *)
(* is not further than before.                                                      *)
LEMMA IdleStep ==
    ASSUME StalePageExplained, UNCHANGED <<stored, entry, excused>>,
           \A q \in Calls : Doomed(entry, call[q]) \subseteq Doomed(entry, call'[q])
    PROVE  StalePageExplained'
<1>1. ASSUME NEW x \in Caches, NEW c \in Cursors, Stale(entry[x][c], c)'
      PROVE  <<x, c>> \in excused' \cup DoomedBy(entry', call', Calls)
  <2>1. Stale(entry[x][c], c)
    BY <1>1, SameStale
  <2>2. <<x, c>> \in excused \cup DoomedBy(entry, call, Calls)
    BY <2>1 DEF StalePageExplained
  <2>3. DoomedBy(entry, call, Calls) \subseteq DoomedBy(entry', call', Calls)
    BY DEF DoomedBy
  <2>. QED
    BY <2>2, <2>3
<1>. QED
  BY <1>1 DEF StalePageExplained

(* The step of a call that was not walking. *)
LEMMA ReaderStep ==
    ASSUME StalePageExplained, CallsOK, UNCHANGED <<stored, entry, excused>>, NEW p \in Calls,
           call[p].at \notin {"walk", "keep", "drop", "dropRedis"},
           NEW r, call' = [call EXCEPT ![p] = r]
    PROVE  StalePageExplained'
<1>1. ASSUME NEW q \in Calls PROVE Doomed(entry, call[q]) \subseteq Doomed(entry, call'[q])
  <2>1. CASE q = p
    BY <2>1, NothingDoomed
  <2>2. CASE q # p
    BY <2>2 DEF CallsOK
  <2>. QED
    BY <2>1, <2>2
<1>. QED
  BY <1>1, IdleStep

(* A step that leaves the storage alone and is explained. *)
LEMMA ExplainStep ==
    ASSUME StalePageExplained, UNCHANGED stored, NEW ps \in SUBSET Calls, NEW reasons,
           Explain(ps, reasons),
           \A p \in ps, x \in Caches, c \in Cursors :
               <<x, c>> \in Doomed(entry, call[p]) /\ entry'[x][c] = entry[x][c] /\ entry[x][c] # Miss
                   => <<x, c>> \in reasons \cup Doomed(entry', call'[p])
    PROVE  StalePageExplained'
<1>1. ASSUME NEW x \in Caches, NEW c \in Cursors, Stale(entry[x][c], c)', <<x, c>> \notin excused'
      PROVE  <<x, c>> \in DoomedBy(entry', call', Calls)
  <2> DEFINE e == <<x, c>>
             cut == DoomedBy(entry, call, Calls \ ps) \ DoomedBy(entry', call', Calls)
  <2>1. e \in Places /\ e[1] = x /\ e[2] = c
    BY DEF Places
  <2>2. /\ entry'[x][c] = entry[x][c]
        /\ e \notin excused /\ e \notin cut /\ e \notin reasons
    <3>. HIDE DEF e
    <3>. QED
      BY <1>1, <2>1 DEF Explain, e
  <2>3. Stale(entry[x][c], c) /\ entry[x][c] # Miss
    BY <1>1, <2>2, SameStale, MissNotStale
  <2>4. e \in DoomedBy(entry, call, Calls)
    BY <2>2, <2>3 DEF StalePageExplained
  <2>5. CASE e \in DoomedBy(entry, call, Calls \ ps)
    BY <2>2, <2>5
  <2>6. CASE \E p \in ps : e \in Doomed(entry, call[p])
    <3>1. PICK p \in ps : e \in Doomed(entry, call[p])
      BY <2>6
    <3>2. e \in Doomed(entry', call'[p])
      BY <2>2, <2>3, <3>1
    <3>. QED
      BY <3>2 DEF DoomedBy
  <2>7. DoomedBy(entry, call, Calls) \subseteq DoomedBy(entry, call, Calls \ ps) \cup UNION {Doomed(entry, call[p]) : p \in ps}
    BY DEF DoomedBy
  <2>. QED
    BY <2>4, <2>5, <2>6, <2>7
<1>. QED
  BY <1>1 DEF StalePageExplained

LEMMA ListExplains ==
    ASSUME IInv, StalePageExplained, NEW p \in Calls, NEW r \in Replicas, NEW c \in Cursors,
           NEW limit \in Limits, List(p, r, c, limit)
    PROVE  StalePageExplained'
BY ReaderStep DEF IInv, List, Begins, Idle, At

LEMMA GetRedisExplains ==
    ASSUME IInv, StalePageExplained, NEW p \in Calls, GetRedis(p)
    PROVE  StalePageExplained'
<1>1. PICK r : call' = [call EXCEPT ![p] = r]
  BY DEF IInv, CallsOK, GetRedis, Goto
<1>. QED
  BY <1>1, ReaderStep DEF IInv, GetRedis, At

LEMMA LoadExplains == ASSUME IInv, StalePageExplained, NEW p \in Calls, Load(p) PROVE StalePageExplained'
<1>1. PICK r : call' = [call EXCEPT ![p] = r]
  BY DEF IInv, CallsOK, Load
<1>. QED
  BY <1>1, ReaderStep DEF IInv, Load, At

LEMMA FillExplains == ASSUME IInv, StalePageExplained, NEW p \in Calls, Fill(p) PROVE StalePageExplained'
<1>1. Doomed(entry, call[p]) = {}
  BY NothingDoomed DEF Fill
<1>. QED
  BY <1>1, ExplainStep DEF Fill

LEMMA SetNXExplains == ASSUME IInv, StalePageExplained, NEW p \in Calls, SetNX(p) PROVE StalePageExplained'
<1>1. Doomed(entry, call[p]) = {}
  BY NothingDoomed DEF SetNX, At
<1>. QED
  BY <1>1, ExplainStep DEF SetNX

(* A write makes pages stale: those that its walk is not going to reach are excused. *)
LEMMA StoreExplains ==
    ASSUME IInv, NEW p \in Calls, NEW r \in Caches, NEW u, NEW v, NEW started \in CallRecords,
           started.at = "walk", started.cursor = First, started.home = r,
           Store(p, r, u, v, started)
    PROVE  StalePageExplained'
<1> DEFINE gone == Gone(u, v)
<1>1. CASE Explain({p}, Places)
  <2>1. ASSUME NEW x \in Caches, NEW c \in Cursors, Stale(entry[x][c], c)'
        PROVE  <<x, c>> \in excused'
    <3> DEFINE e == <<x, c>>
    <3>1. e \in Places /\ e[1] = x /\ e[2] = c
      BY DEF Places
    <3>. HIDE DEF e
    <3>2. e \in excused'
      BY <1>1, <2>1, <3>1 DEF Explain
    <3>. QED
      BY <3>2 DEF e
  <2>. QED
    BY <2>1 DEF StalePageExplained
<1>2. CASE Explain({p}, Unreached(r)) /\ call' = Forget([call EXCEPT ![p] = started], gone)
  <2>1. ASSUME NEW x \in Caches, NEW c \in Cursors, Stale(entry[x][c], c)', <<x, c>> \notin excused'
        PROVE  <<x, c>> \in DoomedBy(entry', call', Calls)
    <3> DEFINE e == <<x, c>>
    <3>1. e \in Places /\ e[1] = x /\ e[2] = c
      BY DEF Places
    <3>2. e \notin Unreached(r)
      <4>. HIDE DEF e
      <4>. QED
        BY <1>2, <2>1, <3>1 DEF Explain, e
    <3>3. x \in {r, Redis} /\ c \in Chain(entry, r, First)
      <4>. HIDE DEF e
      <4>. QED
        BY <3>1, <3>2 DEF Unreached
    <3>4. call'[p] = Without(started, gone)
      BY <1>2 DEF Forget, Without, IInv, CallsOK
    <3>5. call'[p].at = "walk" /\ call'[p].home = r /\ call'[p].cursor = First
      BY <3>4, WithoutIs
    <3>6. Doomed(entry, call'[p]) = {r, Redis} \X Chain(entry, r, First)
      BY <3>5 DEF Doomed
    <3>7. entry' = entry
      BY DEF Store
    <3>8. e \in Doomed(entry', call'[p])
      BY <3>3, <3>6, <3>7
    <3>. QED
      BY <3>8 DEF DoomedBy
  <2>. QED
    BY <2>1 DEF StalePageExplained
<1>. QED
  BY <1>1, <1>2 DEF Store, Gone

LEMMA WalkingIs ==
    ASSUME NEW cl \in CallRecords
    PROVE  /\ Walking(cl) \in CallRecords /\ Walking(cl).at = "walk"
           /\ Walking(cl).cursor = First /\ Walking(cl).home = cl.home
BY DEF Walking, CallRecords, Steps, Cursors, Entries

LEMMA WriteExplains ==
    ASSUME IInv, NEW p \in Calls, NEW r \in Replicas, NEW u \in Urls, Write(p, r, u)
    PROVE  StalePageExplained'
<1> DEFINE n == [Returned EXCEPT !.op = "write", !.home = r]
           started == Walking(n)
<1>1. n \in CallRecords /\ n.home = r
  BY ReturnedFits DEF CallOK, CallRecords, Caches
<1>2. /\ started \in CallRecords /\ started.at = "walk" /\ started.cursor = First
      /\ started.home = r
  <2>. HIDE DEF n
  <2>. QED
    BY <1>1, WalkingIs
<1>3. PICK v : Store(p, r, u, v, started)
  BY DEF Write
<1>. HIDE DEF started
<1>. QED
  BY <1>2, <1>3, StoreExplains DEF Caches

-----------------------------------------------------------------------------
(* Why pages are stale: the steps of a walk *)

LEMMA EntriesAreCaches == EntriesOK <=> CachesOK(entry)
BY DEF EntriesOK, CachesOK

LEMMA EntriesAreCachesNext == EntriesOK' <=> CachesOK(entry')
BY DEF EntriesOK, CachesOK

(* A walk that reads a page is going to drop it, and what follows it. *)
LEMMA ReadsChain ==
    ASSUME IInv, NEW r \in Caches, NEW c \in Cursors
    PROVE  Chain(entry, r, c) = IF Seen(entry, r, c) \in {Miss, Empty, NoPage}
                                THEN {} ELSE {c} \cup Chain(entry, r, LastUrl(Seen(entry, r, c)))
<1>1. CachesOK(entry)
  BY EntriesAreCaches DEF IInv
<1>2. Chain(entry, r, c) = IF Links(entry, r, c)
                           THEN {c} \cup Chain(entry, r, NextCursor(entry, r, c)) ELSE {}
  BY <1>1, ChainUnfold
<1>3. Links(entry, r, c) <=> Seen(entry, r, c) \notin {Miss, Empty, NoPage}
  BY DEF Links, IsPage
<1>. QED
  BY <1>2, <1>3 DEF NextCursor

(* What follows the page in hand does not depend on the entries up to its cursor. *)
LEMMA RestSame ==
    ASSUME IInv, IInv', NEW p \in Calls, call[p].page \notin {Miss, Empty, NoPage},
           NEW x \in Caches, NEW v, entry' = [entry EXCEPT ![x][call[p].cursor] = v]
    PROVE  Chain(entry', call[p].home, LastUrl(call[p].page)) = Chain(entry, call[p].home, LastUrl(call[p].page))
<1> DEFINE cl == call[p]
           n == LastUrl(cl.page)
<1>1. /\ cl.page \in PagesOfUrls /\ cl.page # NoPage /\ Follows(cl.page, cl.cursor) /\ IsPage(cl.page)
      /\ cl.home \in Caches /\ cl.cursor \in Cursors
  BY DEF IInv, CallsOK, CallOK, CallFits, CallRecords, Entries, IsPage
<1>2. n \in Cursors /\ n \in DOMAIN cl.page
  BY <1>1, LastOfPage
<1>3. n > cl.cursor
  BY <1>1, <1>2 DEF Follows
<1>4. CachesOK(entry) /\ CachesOK(entry')
  BY EntriesAreCaches, EntriesAreCachesNext DEF IInv
<1>. HIDE DEF n, cl
<1>5. ASSUME NEW d \in Cursors, d >= n PROVE Seen(entry', cl.home, d) = Seen(entry, cl.home, d)
  <2>1. d # cl.cursor
    BY <1>1, <1>2, <1>3, <1>5, CursorType
  <2>2. \A y \in Caches : entry'[y][d] = entry[y][d]
    BY <1>4, <2>1 DEF CachesOK, cl
  <2>. QED
    BY <1>1, <2>2 DEF Seen, Caches
<1>6. \A d \in Cursors : d >= n => Seen(entry', cl.home, d) = Seen(entry, cl.home, d)
  BY <1>5
<1>7. Chain(entry', cl.home, n) = Chain(entry, cl.home, n)
  <2>1. CachesOK(entry) /\ CachesOK(entry') /\ cl.home \in Caches /\ n \in Cursors
    BY <1>1, <1>2, <1>4
  <2>. QED
    <3>1. PICK r \in Caches, c \in Cursors : r = cl.home /\ c = n
      BY <2>1
    <3>2. \A d \in Cursors : d >= c => Seen(entry', r, d) = Seen(entry, r, d)
      BY <1>6, <3>1
    <3>3. PICK g : g = entry'
      OBVIOUS
    <3>4. CachesOK(entry) /\ CachesOK(g) /\ \A d \in Cursors : d >= c => Seen(g, r, d) = Seen(entry, r, d)
      BY <2>1, <3>2, <3>3
    <3>5. Chain(g, r, c) = Chain(entry, r, c)
      BY <3>4, ChainFrame
    <3>. QED
      BY <3>1, <3>3, <3>5
<1>. QED
  BY <1>7 DEF n, cl

(* What the walk of p has before it at its four steps. *)
LEMMA DoomedAt ==
    ASSUME NEW e, NEW cl
    PROVE  LET both == {cl.home, Redis}
               rest == Chain(e, cl.home, LastUrl(cl.page))
           IN /\ cl.at = "walk" => Doomed(e, cl) = both \X Chain(e, cl.home, cl.cursor)
              /\ cl.at \in {"keep", "drop"} /\ cl.page \notin {Empty, NoPage} =>
                     Doomed(e, cl) = both \X ({cl.cursor} \cup rest)
              /\ cl.at = "keep" /\ cl.page \in {Empty, NoPage} => Doomed(e, cl) = {}
              /\ cl.at = "dropRedis" => Doomed(e, cl) = (both \X rest) \cup {<<Redis, cl.cursor>>}
BY DEF Doomed

LEMMA WalkExplains == ASSUME IInv, StalePageExplained, NEW p \in Calls, Walk(p) PROVE StalePageExplained'
<1> DEFINE cl == call[p]
           local == entry[cl.home][cl.cursor]
           redis == entry[Redis][cl.cursor]
           page == Seen(entry, cl.home, cl.cursor)
<1>1. /\ cl \in CallRecords /\ cl.at = "walk" /\ cl.home \in Caches /\ cl.cursor \in Cursors
      /\ call \in [Calls -> CallRecords]
  BY DEF IInv, CallsOK, CallRecords, Walk, At
<1>2. /\ Doomed(entry, cl) = {cl.home, Redis} \X Chain(entry, cl.home, cl.cursor)
      /\ Chain(entry, cl.home, cl.cursor) = IF page \in {Miss, Empty, NoPage}
                                THEN {} ELSE {cl.cursor} \cup Chain(entry, cl.home, LastUrl(page))
  <2>1. Doomed(entry, cl) = {cl.home, Redis} \X Chain(entry, cl.home, cl.cursor)
    BY <1>1, DoomedAt
  <2>2. Chain(entry, cl.home, cl.cursor) = IF page \in {Miss, Empty, NoPage}
                                THEN {} ELSE {cl.cursor} \cup Chain(entry, cl.home, LastUrl(page))
    <3>1. PICK r \in Caches, c \in Cursors : r = cl.home /\ c = cl.cursor
      BY <1>1
    <3>2. Chain(entry, r, c) = IF Seen(entry, r, c) \in {Miss, Empty, NoPage}
                               THEN {} ELSE {c} \cup Chain(entry, r, LastUrl(Seen(entry, r, c)))
      BY ReadsChain
    <3>. QED
      BY <3>1, <3>2
  <2>. QED
    BY <2>1, <2>2
<1>3. page = IF local # Miss THEN local ELSE redis
  BY DEF Seen
<1>. HIDE DEF page
<1>4. ASSUME NEW at \in {"drop", "keep"}, page # Miss, at = "drop" => page \notin {Empty, NoPage},
             call' = [call EXCEPT ![p] = [cl EXCEPT !.at = at, !.page = page]], UNCHANGED <<entry, excused>>
      PROVE  StalePageExplained'
  <2> DEFINE r == [cl EXCEPT !.at = at, !.page = page]
  <2>1. r.at = at /\ r.page = page /\ r.home = cl.home /\ r.cursor = cl.cursor
    BY <1>1 DEF CallRecords
  <2>2. call'[p] = r /\ \A q \in Calls : q # p => call'[q] = call[q]
    BY <1>1, <1>4
  <2>. HIDE DEF r
  <2>3. Doomed(entry, cl) \subseteq Doomed(entry, r)
    BY <1>2, <1>4, <2>1, DoomedAt
  <2>4. \A q \in Calls : Doomed(entry, call[q]) \subseteq Doomed(entry, call'[q])
    BY <2>2, <2>3
  <2>. QED
    BY <1>4, <2>4, IdleStep DEF Walk
<1>5. CASE local \notin {Miss, Empty, NoPage} /\ call' = [call EXCEPT ![p].at = "drop", ![p].page = local] /\ UNCHANGED excused
  <2>1. page = local
    BY <1>3, <1>5
  <2>. HIDE DEF local
  <2>2. call' = [call EXCEPT ![p] = [cl EXCEPT !.at = "drop", !.page = page]]
    BY <1>1, <1>5, <2>1
  <2>. QED
    BY <1>4, <1>5, <2>1, <2>2 DEF Walk
<1>6. CASE local = Miss /\ redis # Miss /\ call' = [call EXCEPT ![p].at = "keep", ![p].page = redis] /\ UNCHANGED excused
  <2>1. page = redis
    BY <1>3, <1>6
  <2>. HIDE DEF redis
  <2>2. call' = [call EXCEPT ![p] = [cl EXCEPT !.at = "keep", !.page = page]]
    BY <1>1, <1>6, <2>1
  <2>. QED
    BY <1>4, <1>6, <2>1, <2>2 DEF Walk
<1>7. CASE (local \in {Empty, NoPage} \/ (local = Miss /\ redis = Miss)) /\ Walked(p) /\ UNCHANGED excused
  <2>1. Doomed(entry, cl) = {}
    <3>1. page \in {Miss, Empty, NoPage}
      BY <1>3, <1>7, NoPageType, EntryAssumption
    <3>. QED
      BY <1>2, <3>1
  <2>2. \A q \in Calls : q # p => call'[q] = call[q]
    BY <1>1, <1>7 DEF Walked
  <2>3. \A q \in Calls : Doomed(entry, call[q]) \subseteq Doomed(entry, call'[q])
    BY <2>1, <2>2
  <2>. QED
    BY <1>7, <2>3, IdleStep DEF Walk
<1>8. CASE Explain({p}, Doomed(entry, cl))
  BY <1>8, ExplainStep DEF Walk
<1>. QED
  BY <1>5, <1>6, <1>7, <1>8 DEF Walk

LEMMA KeepExplains ==
    ASSUME IInv, IInv', StalePageExplained, NEW p \in Calls, Keep(p)
    PROVE  StalePageExplained'
<1> DEFINE cl == call[p]
<1>1. /\ cl \in CallRecords /\ cl.at = "keep" /\ cl.home \in Caches /\ cl.cursor \in Cursors
      /\ cl.page # Miss
  BY DEF IInv, CallsOK, CallOK, CallFits, CallRecords, Keep, At
<1>2. CASE cl.page \in {Empty, NoPage}
  <2>1. Doomed(entry, cl) = {}
    BY <1>1, <1>2, DoomedAt
  <2>. QED
    BY <2>1, ExplainStep DEF Keep
<1>3. CASE cl.page \notin {Empty, NoPage}
  <2>1. call'[p] = [cl EXCEPT !.at = "drop"]
    BY <1>3 DEF Keep, Goto, IInv, CallsOK
  <2>2. /\ call'[p].at = "drop" /\ call'[p].page = cl.page /\ call'[p].home = cl.home
        /\ call'[p].cursor = cl.cursor
    BY <1>1, <2>1 DEF CallRecords
  <2>3. Chain(entry', cl.home, LastUrl(cl.page)) = Chain(entry, cl.home, LastUrl(cl.page))
    BY <1>1, <1>3, RestSame DEF Keep
  <2> DEFINE rest == Chain(entry, cl.home, LastUrl(cl.page))
  <2>4. Doomed(entry, cl) = {cl.home, Redis} \X ({cl.cursor} \cup rest)
    BY <1>1, <1>3, DoomedAt
  <2>5. Doomed(entry', call'[p]) = {cl.home, Redis} \X ({cl.cursor} \cup rest)
    <3>1. PICK e, r : e = entry' /\ r = call'[p]
      OBVIOUS
    <3>2. r.at = "drop" /\ r.page \notin {Empty, NoPage}
      BY <1>3, <2>2, <3>1
    <3>3. Doomed(e, r) = {r.home, Redis} \X ({r.cursor} \cup Chain(e, r.home, LastUrl(r.page)))
      BY <3>2, DoomedAt
    <3>. QED
      BY <2>2, <2>3, <3>1, <3>3
  <2>6. Explain({p}, {}) /\ UNCHANGED stored
    BY DEF Keep
  <2>7. \A x \in Caches, c \in Cursors :
            <<x, c>> \in Doomed(entry, cl) => <<x, c>> \in Doomed(entry', call'[p])
    BY <2>4, <2>5
  <2>. QED
    BY <2>6, <2>7, ExplainStep
<1>. QED
  BY <1>2, <1>3

LEMMA DropExplains ==
    ASSUME IInv, IInv', StalePageExplained, NEW p \in Calls, Drop(p)
    PROVE  StalePageExplained'
<1> DEFINE cl == call[p]
           rest == Chain(entry, cl.home, LastUrl(cl.page))
<1>1. /\ cl \in CallRecords /\ cl.at = "drop" /\ cl.home \in Caches /\ cl.cursor \in Cursors
      /\ cl.page \notin {Miss, Empty, NoPage}
  BY DEF IInv, CallsOK, CallOK, CallFits, CallRecords, Drop, At, IsPage
<1>2. call'[p] = [cl EXCEPT !.at = "dropRedis"]
  BY DEF Drop, Goto, IInv, CallsOK
<1>3. /\ call'[p].at = "dropRedis" /\ call'[p].page = cl.page /\ call'[p].home = cl.home
      /\ call'[p].cursor = cl.cursor
  BY <1>1, <1>2 DEF CallRecords
<1>4. Chain(entry', cl.home, LastUrl(cl.page)) = rest
  BY <1>1, RestSame DEF Drop
<1>5. Doomed(entry, cl) = {cl.home, Redis} \X ({cl.cursor} \cup rest)
  BY <1>1, DoomedAt
<1>6. Doomed(entry', call'[p]) = ({cl.home, Redis} \X rest) \cup {<<Redis, cl.cursor>>}
  BY <1>3, <1>4, DoomedAt
<1>7. entry'[cl.home][cl.cursor] = Miss
  BY <1>1 DEF Drop, IInv, EntriesOK
<1>8. ASSUME NEW x \in Caches, NEW c \in Cursors, <<x, c>> \in Doomed(entry, cl),
             entry'[x][c] = entry[x][c], entry[x][c] # Miss
      PROVE  <<x, c>> \in Doomed(entry', call'[p])
  <2>. HIDE DEF cl, rest
  <2>1. x \in {cl.home, Redis} /\ (c = cl.cursor \/ c \in rest)
    BY <1>5, <1>8
  <2>2. ~(x = cl.home /\ c = cl.cursor)
    BY <1>7, <1>8
  <2>. QED
    BY <1>6, <2>1, <2>2
<1>9. Explain({p}, {}) /\ UNCHANGED stored
  BY DEF Drop
<1>10. \A x \in Caches, c \in Cursors :
          <<x, c>> \in Doomed(entry, cl) /\ entry'[x][c] = entry[x][c] /\ entry[x][c] # Miss
              => <<x, c>> \in Doomed(entry', call'[p])
  BY <1>8
<1>. QED
  BY <1>9, <1>10, ExplainStep

LEMMA DropRedisExplains ==
    ASSUME IInv, IInv', StalePageExplained, NEW p \in Calls, DropRedis(p)
    PROVE  StalePageExplained'
<1> DEFINE cl == call[p]
           rest == Chain(entry, cl.home, LastUrl(cl.page))
<1>1. /\ cl \in CallRecords /\ cl.at = "dropRedis" /\ cl.home \in Caches /\ cl.cursor \in Cursors
      /\ cl.page \notin {Miss, Empty, NoPage} /\ Redis \in Caches
  BY DEF IInv, CallsOK, CallOK, CallFits, CallRecords, DropRedis, At, IsPage, Caches
<1>2. CASE /\ entry' = [entry EXCEPT ![Redis][cl.cursor] = Miss]
           /\ call' = [call EXCEPT ![p].at = "walk", ![p].cursor = LastUrl(cl.page), ![p].page = Miss]
           /\ Explain({p}, {})
  <2>1. call'[p] = [cl EXCEPT !.at = "walk", !.cursor = LastUrl(cl.page), !.page = Miss]
    BY <1>2 DEF IInv, CallsOK
  <2>2. call'[p].at = "walk" /\ call'[p].home = cl.home /\ call'[p].cursor = LastUrl(cl.page)
    BY <1>1, <2>1 DEF CallRecords
  <2>3. Chain(entry', cl.home, LastUrl(cl.page)) = rest
    BY <1>1, <1>2, RestSame
  <2>4. Doomed(entry, cl) = ({cl.home, Redis} \X rest) \cup {<<Redis, cl.cursor>>}
    BY <1>1, DoomedAt
  <2>5. Doomed(entry', call'[p]) = {cl.home, Redis} \X rest
    BY <2>2, <2>3, DoomedAt
  <2>6. entry'[Redis][cl.cursor] = Miss
    BY <1>1, <1>2 DEF IInv, EntriesOK
  <2>7. ASSUME NEW x \in Caches, NEW c \in Cursors, <<x, c>> \in Doomed(entry, cl),
               entry'[x][c] = entry[x][c], entry[x][c] # Miss
        PROVE  <<x, c>> \in Doomed(entry', call'[p])
    <3>. HIDE DEF cl, rest
    <3>1. ~(x = Redis /\ c = cl.cursor)
      BY <2>6, <2>7
    <3>. QED
      BY <2>4, <2>5, <2>7, <3>1
  <2>8. Explain({p}, {}) /\ UNCHANGED stored
    BY <1>2 DEF DropRedis
  <2>9. \A x \in Caches, c \in Cursors :
            <<x, c>> \in Doomed(entry, cl) /\ entry'[x][c] = entry[x][c] /\ entry[x][c] # Miss
                => <<x, c>> \in Doomed(entry', call'[p])
    BY <2>7
  <2>. QED
    BY <2>8, <2>9, ExplainStep
<1>3. CASE Explain({p}, Doomed(entry, cl))
  BY <1>3, ExplainStep DEF DropRedis
<1>. QED
  BY <1>2, <1>3 DEF DropRedis

-----------------------------------------------------------------------------
(* Why pages are stale: sweeps, the environment, the start *)

LEMMA SweepExplains ==
    ASSUME IInv, StalePageExplained, NEW p \in Calls, NEW r \in Replicas, Sweep(p, r)
    PROVE  StalePageExplained'
BY ReaderStep DEF IInv, Sweep, Begins, Idle, At

LEMMA AnswerOne ==
    ASSUME CallsOK, NEW p \in Calls, NEW e, Answer(p, e)
    PROVE  \E r : call' = [call EXCEPT ![p] = r]
BY DEF Answer

LEMMA SweepListExplains ==
    ASSUME IInv, StalePageExplained, NEW p \in Calls, SweepList(p)
    PROVE  StalePageExplained'
<1>1. PICK r : call' = [call EXCEPT ![p] = r]
  BY AnswerOne DEF IInv, CallsOK, SweepList
<1>. QED
  BY <1>1, ReaderStep DEF IInv, SweepList, At

LEMMA SweepFallbackExplains ==
    ASSUME IInv, StalePageExplained, NEW p \in Calls, SweepFallback(p)
    PROVE  StalePageExplained'
<1>1. PICK r : call' = [call EXCEPT ![p] = r]
  BY AnswerOne DEF IInv, SweepFallback
<1>. QED
  BY <1>1, ReaderStep DEF IInv, SweepFallback, At

LEMMA SweepEndsExplains ==
    ASSUME IInv, StalePageExplained, NEW p \in Calls, SweepEnds(p)
    PROVE  StalePageExplained'
BY ReaderStep DEF IInv, SweepEnds, At

LEMMA SweepDeleteExplains ==
    ASSUME IInv, StalePageExplained, NEW p \in Calls, SweepDelete(p)
    PROVE  StalePageExplained'
<1> DEFINE cl == call[p]
           u == Min(DOMAIN cl.todo)
           rest == [v \in (DOMAIN cl.todo) \ {u} |-> cl.todo[v]]
           wrong == cl.misled \/ u \in Live
           less == [cl EXCEPT !.todo = rest]
           started == Walking(less)
<1>1. cl \in CallRecords /\ cl.todo \in PagesOfUrls /\ cl.home \in Caches /\ cl.at = "delete"
  BY DEF IInv, CallsOK, CallRecords, SweepDelete, At
<1>2. rest \in PagesOfUrls
  BY <1>1, RestOfPage
<1>. HIDE DEF u, rest
<1>3. less \in CallRecords /\ less.home = cl.home
  BY <1>1, <1>2 DEF CallRecords
<1>4. CASE Store(p, cl.home, u, Absent, started)
  <2>1. /\ started \in CallRecords /\ started.at = "walk" /\ started.cursor = First
        /\ started.home = cl.home
    <3>. HIDE DEF less
    <3>. QED
      BY <1>3, WalkingIs
  <2>. HIDE DEF started
  <2>. QED
    BY <1>1, <1>4, <2>1, StoreExplains
<1>5. CASE /\ call' = [call EXCEPT ![p].todo = rest, ![p].misled = wrong]
           /\ UNCHANGED <<stored, ver, entry, events, excused>>
  <2>. HIDE DEF wrong
  <2>1. PICK r : call' = [call EXCEPT ![p] = r]
    BY <1>5 DEF IInv, CallsOK
  <2>. QED
    BY <1>1, <1>5, <2>1, ReaderStep DEF IInv
<1>6. CASE /\ call' = [call EXCEPT ![p] = Returned]
           /\ UNCHANGED <<stored, ver, entry, excused>>
  BY <1>1, <1>6, ReaderStep DEF IInv
<1>. QED
  BY <1>4, <1>5, <1>6 DEF SweepDelete, u, rest

LEMMA ChangeOwnerExplains == ASSUME ChangeOwner PROVE StalePageExplained'
<1>1. ASSUME NEW x \in Caches, NEW c \in Cursors, Stale(entry[x][c], c)'
      PROVE  <<x, c>> \in excused'
  <2> DEFINE e == <<x, c>>
  <2>1. e \in Places /\ e[1] = x /\ e[2] = c
    BY DEF Places
  <2>. HIDE DEF e
  <2>2. e \in excused'
    BY <1>1, <2>1 DEF ChangeOwner, Explain
  <2>. QED
    BY <2>2 DEF e
<1>. QED
  BY <1>1 DEF StalePageExplained

LEMMA InitExplains == Init => StalePageExplained
<1> SUFFICES ASSUME Init PROVE StalePageExplained
  OBVIOUS
<1>1. PICK limit \in Limits, cached \in SUBSET Cursors :
          entry = [x \in Caches |-> [c \in Cursors |->
              IF x = Redis /\ c \in cached THEN PageAfter(c, limit) ELSE Miss]]
  BY DEF Init
<1>2. ASSUME NEW x \in Caches, NEW c \in Cursors PROVE ~Stale(entry[x][c], c)
  <2>1. entry[x][c] = PageAfter(c, limit) \/ entry[x][c] = Miss
    BY <1>1
  <2>. HIDE <1>1
  <2>. QED
    BY <2>1 DEF Stale, IsPage
<1>. QED
  BY <1>2 DEF StalePageExplained

LEMMA NextExplains == IInv /\ IInv' /\ StalePageExplained /\ [Next]_vars => StalePageExplained'
<1> SUFFICES ASSUME IInv, IInv', StalePageExplained, [Next]_vars PROVE StalePageExplained'
  OBVIOUS
<1>1. CASE UNCHANGED vars
  BY <1>1, IdleStep DEF vars
<1>2. ASSUME NEW p \in Calls, GoOn(p) PROVE StalePageExplained'
  BY <1>2, GetRedisExplains, LoadExplains, FillExplains, SetNXExplains, WalkExplains, KeepExplains,
     DropExplains, DropRedisExplains, SweepListExplains, SweepFallbackExplains, SweepDeleteExplains,
     SweepEndsExplains DEF GoOn
<1>3. ASSUME NEW p \in Calls, NEW r \in Replicas, Sweep(p, r) PROVE StalePageExplained'
  BY <1>3, SweepExplains
<1>4. ASSUME NEW p \in Calls, NEW r \in Replicas, NEW u \in Urls, Write(p, r, u) PROVE StalePageExplained'
  BY <1>4, WriteExplains
<1>5. ASSUME NEW p \in Calls, NEW r \in Replicas, NEW c \in Cursors, NEW limit \in Limits,
             List(p, r, c, limit)
      PROVE  StalePageExplained'
  BY <1>5, ListExplains
<1>6. ASSUME NEW x \in Caches, NEW c \in Cursors, Expire(x, c) PROVE StalePageExplained'
  BY <1>6, ExplainStep DEF Expire
<1>7. ASSUME NEW r \in Replicas, Crash(r) PROVE StalePageExplained'
  BY <1>7, ExplainStep DEF Crash
<1>8. CASE ChangeOwner
  BY <1>8, ChangeOwnerExplains
<1>. QED
  BY <1>1, <1>2, <1>3, <1>4, <1>5, <1>6, <1>7, <1>8 DEF Next

(* invalidatePages drops every page that a write makes stale, or there is one of the *)
(* reasons that StalePageExplained lists.                                                *)
THEOREM StaleHasReason == Spec => []StalePageExplained
BY Invariance, InitExplains, NextExplains, PTL DEF Spec
=============================================================================
