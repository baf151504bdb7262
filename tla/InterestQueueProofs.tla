------------------------ MODULE InterestQueueProofs ------------------------
(***************************************************************************)
(* The consumer of deleted interests loses none of them: TypeOK, NotLost   *)
(* and LastSweepSucceeded hold in every reachable state, for any number of *)
(* replicas, interests and faults and any batch size.                      *)
(***************************************************************************)
EXTENDS InterestQueue, SequenceTheorems, TLAPS

(* The interests of which a sweep was tried to the end. *)
Tried == swept \cup failed

(* What holds of one consumer besides its types: it goes through interests that   *)
(* were deleted, those it went through were tried, so are those it acknowledged,  *)
(* and the error it kept is that of the last one.                                 *)
Steady(r) ==
    /\ ToSet(batch[r]) \subseteq deleted
    /\ acks[r] \subseteq Tried
    /\ at[r] = "consume" => /\ batch[r] # <<>>
                            /\ \A n \in 1 .. done[r] : batch[r][n] \in Tried
                            /\ done[r] = 0 => ~err[r]
                            /\ done[r] > 0 /\ ~err[r] => batch[r][done[r]] \in swept
    /\ at[r] \notin {"consume", "returned"} => ~err[r]
    /\ at[r] = "recv" /\ batch[r] # <<>> => Last(batch[r]) \in swept

(* The inductive invariant. *)
IInv == TypeOK /\ NotLost /\ \A r \in Replicas : Steady(r)

Typed(r) ==
    /\ acks[r] \subseteq deleted
    /\ at[r] \in Places
    /\ batch[r] \in Batches
    /\ done[r] \in 0 .. BatchSize
    /\ done[r] \leq Len(batch[r])
    /\ err[r] \in BOOLEAN

(* The functions of TypeOK have the domain Replicas. *)
Maps ==
    /\ acks = [r \in Replicas |-> acks[r]]
    /\ at = [r \in Replicas |-> at[r]]
    /\ batch = [r \in Replicas |-> batch[r]]
    /\ done = [r \in Replicas |-> done[r]]
    /\ err = [r \in Replicas |-> err[r]]

Shared ==
    /\ held \subseteq deleted
    /\ faults \in 0 .. MaxFaults
    /\ deleted \subseteq Interests
    /\ swept \subseteq deleted
    /\ failed \subseteq deleted

-----------------------------------------------------------------------------

LEMMA BatchIsSequence ==
    ASSUME NEW b \in Batches
    PROVE  /\ b \in Seq(Interests)
           /\ Len(b) \in Nat
           /\ DOMAIN b = 1 .. Len(b)
           /\ \A n \in 1 .. Len(b) : b[n] \in Interests
<1>1. PICK n \in 0 .. BatchSize : b \in [1 .. n -> Interests]
  BY DEF Batches
<1>2. n \in Nat
  BY <1>1, QueueAssumption
<1>3. b \in Seq(Interests)
  BY <1>1, <1>2, SeqDef
<1>. QED
  BY <1>3, LenProperties, ElementOfSeq

LEMMA EmptyBatch == <<>> \in Batches /\ Len(<<>>) = 0 /\ ToSet(<<>>) = {}
<1>1. <<>> \in [1 .. 0 -> Interests] /\ 0 \in 0 .. BatchSize
  BY QueueAssumption
<1>2. IsInjective(<<>>)
  BY DEF IsInjective
<1>. QED
  BY <1>1, <1>2 DEF Batches, ToSet

(* What a consumer went through of its batch at the end of it is the whole batch. *)
LEMMA WholeBatch ==
    ASSUME NEW b \in Batches, NEW S, \A n \in 1 .. Len(b) : b[n] \in S
    PROVE  ToSet(b) \subseteq S
BY BatchIsSequence DEF ToSet

LEMMA LastOfBatch ==
    ASSUME NEW b \in Batches, b # <<>>
    PROVE  Last(b) = b[Len(b)] /\ Len(b) > 0
BY BatchIsSequence, EmptySeq DEF Last

-----------------------------------------------------------------------------

LEMMA TypeParts == ASSUME TypeOK PROVE Shared /\ Maps /\ \A r \in Replicas : Typed(r)
<1>1. Shared
  BY DEF TypeOK, Shared
<1>2. acks = [r \in Replicas |-> acks[r]] /\ at = [r \in Replicas |-> at[r]]
  BY DEF TypeOK
<1>3. batch = [r \in Replicas |-> batch[r]] /\ done = [r \in Replicas |-> done[r]]
  BY DEF TypeOK
<1>4. err = [r \in Replicas |-> err[r]]
  BY DEF TypeOK
<1>5. ASSUME NEW r \in Replicas PROVE Typed(r)
  BY DEF TypeOK, Typed
<1>. QED
  BY <1>1, <1>2, <1>3, <1>4, <1>5 DEF Maps

LEMMA TypesNext ==
    ASSUME Shared', Maps', \A r \in Replicas : Typed(r)'
    PROVE  TypeOK'
<1>1. acks' \in [Replicas -> SUBSET deleted'] /\ at' \in [Replicas -> Places]
  BY DEF Maps, Typed
<1>2. batch' \in [Replicas -> Batches]
  BY DEF Maps, Typed
<1>3. done' \in [Replicas -> 0 .. BatchSize]
  BY DEF Maps, Typed
<1>4. err' \in [Replicas -> BOOLEAN]
  BY DEF Maps, Typed
<1>5. \A r \in Replicas : done'[r] \leq Len(batch'[r])
  BY DEF Typed
<1>. QED
  BY <1>1, <1>2, <1>3, <1>4, <1>5 DEF TypeOK, Shared

(* A step leaves consumer q alone. *)
Same(q) ==
    /\ acks'[q] = acks[q]
    /\ at'[q] = at[q]
    /\ batch'[q] = batch[q]
    /\ done'[q] = done[q]
    /\ err'[q] = err[q]

(* The histories only grow. *)
Grows == deleted \subseteq deleted' /\ swept \subseteq swept' /\ failed \subseteq failed'

LEMMA Bystander ==
    ASSUME NEW q \in Replicas, Typed(q), Steady(q), Same(q), Grows
    PROVE  Typed(q)' /\ Steady(q)'
<1>1. Typed(q)'
  BY DEF Typed, Same, Grows
<1>2. Tried \subseteq Tried'
  BY DEF Tried, Grows
<1>3. Steady(q)'
  BY <1>2 DEF Steady, Same, Grows
<1>. QED
  BY <1>1, <1>3

(* A step of consumer r keeps the invariant if it does for r and for what is shared. *)
LEMMA OneConsumer ==
    ASSUME IInv, NEW r \in Replicas, Grows, Shared', Maps', NotLost',
           \A q \in Replicas \ {r} : Same(q),
           Typed(r)', Steady(r)'
    PROVE  IInv'
<1>1. ASSUME NEW q \in Replicas PROVE Typed(q)' /\ Steady(q)'
  <2>1. Typed(q) /\ Steady(q)
    BY TypeParts DEF IInv
  <2>2. CASE q = r
    BY <2>2
  <2>3. CASE q # r
    BY <2>1, <2>3, Bystander
  <2>. QED
    BY <2>2, <2>3
<1>2. TypeOK'
  BY <1>1, TypesNext
<1>. QED
  BY <1>1, <1>2 DEF IInv

(* What Leave does to the consumers. *)
LEMMA Leaving ==
    ASSUME Maps, NEW r \in Replicas, NEW p \in {"down", "connect", "recv", "returned", "stopped"}, Leave(r, p)
    PROVE  /\ at'[r] = p /\ batch'[r] = <<>> /\ done'[r] = 0 /\ err'[r] = (p = "returned")
           /\ \A q \in Replicas \ {r} : /\ at'[q] = at[q] /\ batch'[q] = batch[q]
                                        /\ done'[q] = done[q] /\ err'[q] = err[q]
           /\ at' = [q \in Replicas |-> at'[q]]
           /\ batch' = [q \in Replicas |-> batch'[q]]
           /\ done' = [q \in Replicas |-> done'[q]]
           /\ err' = [q \in Replicas |-> err'[q]]
BY DEF Maps, Leave

(* A consumer that left is steady again if what it acknowledged was tried. *)
LEMMA LeavesSteady ==
    ASSUME IInv, NEW r \in Replicas, NEW p \in {"down", "connect", "recv", "returned", "stopped"}, Leave(r, p),
           UNCHANGED <<held, deleted, swept, failed>>, faults' \in 0 .. MaxFaults,
           acks' = [acks EXCEPT ![r] = acks'[r]],
           acks'[r] \subseteq Tried, acks'[r] \subseteq deleted
    PROVE  IInv'
<1>1. Maps /\ Shared /\ NotLost
  BY TypeParts DEF IInv
<1>2. Grows /\ Shared' /\ NotLost'
  BY <1>1 DEF Grows, Shared, NotLost
<1>3. Maps' /\ \A q \in Replicas \ {r} : Same(q)
  BY <1>1, Leaving DEF Maps, Same
<1>4. Typed(r)'
  <2>1. at'[r] \in Places /\ done'[r] = 0 /\ err'[r] \in BOOLEAN
    BY <1>1, Leaving DEF Places
  <2>2. batch'[r] \in Batches /\ Len(batch'[r]) = 0
    BY <1>1, Leaving, EmptyBatch
  <2>3. acks'[r] \subseteq deleted'
    OBVIOUS
  <2>4. 0 \in 0 .. BatchSize
    BY QueueAssumption
  <2>. QED
    BY <2>1, <2>2, <2>3, <2>4 DEF Typed
<1>5. Steady(r)'
  BY <1>1, Leaving, EmptyBatch DEF Steady, Tried
<1>. QED
  BY <1>2, <1>3, <1>4, <1>5, OneConsumer

LEMMA FaultCounts == ASSUME Shared, Fault PROVE faults' \in 0 .. MaxFaults
BY QueueAssumption DEF Shared, Fault

(* What the invariant says of one consumer and of the rest. *)
LEMMA Unfold ==
    ASSUME IInv, NEW r \in Replicas
    PROVE  Shared /\ Maps /\ NotLost /\ Typed(r) /\ Steady(r) /\ Tried \subseteq deleted
BY TypeParts DEF IInv, Shared, Tried

LEMMA InitHolds == Init => IInv
<1>. SUFFICES ASSUME Init PROVE IInv
  OBVIOUS
<1>1. TypeOK
  BY EmptyBatch, QueueAssumption DEF Init, TypeOK, Places
<1>2. NotLost
  BY DEF Init, NotLost
<1>3. ASSUME NEW r \in Replicas PROVE Steady(r)
  BY EmptyBatch DEF Init, Steady
<1>. QED
  BY <1>1, <1>2, <1>3 DEF IInv

-----------------------------------------------------------------------------

LEMMA ReportKeeps ==
    ASSUME IInv, NEW i \in Interests, Report(i)
    PROVE  IInv'
<1>1. Grows /\ Shared' /\ NotLost'
  BY DEF IInv, TypeOK, Report, Grows, Shared, NotLost
<1>2. Maps'
  <2>1. Maps
    BY TypeParts DEF IInv
  <2>. QED
    BY <2>1 DEF Maps, Report
<1>3. ASSUME NEW r \in Replicas PROVE Typed(r)' /\ Steady(r)'
  <2>1. Typed(r) /\ Steady(r)
    BY Unfold
  <2>2. Same(r)
    BY DEF Same, Report
  <2>. QED
    BY <1>1, <2>1, <2>2, Bystander
<1>4. TypeOK'
  BY <1>1, <1>2, <1>3, TypesNext
<1>. QED
  BY <1>1, <1>3, <1>4 DEF IInv

(* Connect, ConnectFails, EndOfStream, ReceiveFails, Check, Crash and Restart only leave. *)
LEMMA OnlyLeaves ==
    ASSUME IInv, NEW r \in Replicas, NEW p \in {"down", "connect", "recv", "returned", "stopped"}, Leave(r, p),
           UNCHANGED <<held, acks, deleted, swept, failed>>,
           Fault \/ UNCHANGED faults
    PROVE  IInv'
<1>1. Shared /\ Maps /\ Typed(r) /\ Steady(r)
  BY Unfold
<1>2. faults' \in 0 .. MaxFaults
  BY <1>1, FaultCounts DEF Shared
<1>3. acks' = [acks EXCEPT ![r] = acks'[r]]
  BY <1>1 DEF Maps
<1>4. acks'[r] \subseteq Tried /\ acks'[r] \subseteq deleted
  BY <1>1 DEF Typed, Steady
<1>. QED
  BY <1>2, <1>3, <1>4, LeavesSteady

LEMMA ReceiveKeeps ==
    ASSUME IInv, NEW r \in Replicas, NEW b \in Batches, Receive(r, b)
    PROVE  IInv'
<1>1. Shared /\ Maps /\ NotLost /\ Typed(r) /\ Steady(r)
  BY Unfold
<1>2. Grows /\ Shared' /\ NotLost'
  BY <1>1 DEF Receive, Grows, Shared, NotLost
<1>3. Maps' /\ \A q \in Replicas \ {r} : Same(q)
  BY <1>1 DEF Maps, Same, Receive
<1>4. /\ at'[r] = "consume" /\ batch'[r] = b /\ done'[r] = 0
      /\ err'[r] = err[r] /\ acks'[r] = acks[r]
  BY <1>1 DEF Maps, Receive
<1>5. 0 \in 0 .. BatchSize /\ 0 \leq Len(b)
  BY QueueAssumption, BatchIsSequence
<1>6. Typed(r)'
  BY <1>1, <1>4, <1>5, <1>2 DEF Typed, Places, Grows
<1>7. b # <<>> /\ ToSet(b) \subseteq deleted' /\ ~err[r] /\ acks[r] \subseteq Tried'
  BY <1>1 DEF Receive, Steady, Shared, Tried
<1>8. Steady(r)'
  BY <1>4, <1>7 DEF Steady
<1>. QED
  BY <1>2, <1>3, <1>6, <1>8, OneConsumer

LEMMA SweepKeeps ==
    ASSUME IInv, NEW r \in Replicas, Sweep(r)
    PROVE  IInv'
<1>. DEFINE i == batch[r][done[r] + 1]
<1>1. Shared /\ Maps /\ NotLost /\ Typed(r) /\ Steady(r)
  BY Unfold
<1>2. PICK e \in BOOLEAN :
        /\ err' = [err EXCEPT ![r] = e]
        /\ swept' = IF e THEN swept ELSE swept \cup {i}
        /\ failed' = IF e THEN failed \cup {i} ELSE failed
        /\ Fault \/ UNCHANGED faults
  BY DEF Sweep
<1>3. /\ at[r] = "consume" /\ done[r] < Len(batch[r])
      /\ done' = [done EXCEPT ![r] = done[r] + 1]
      /\ UNCHANGED <<held, acks, at, batch, deleted>>
  BY DEF Sweep
<1>4. /\ batch[r] \in Batches /\ DOMAIN batch[r] = 1 .. Len(batch[r]) /\ Len(batch[r]) \in Nat
      /\ done[r] \in Nat /\ Len(batch[r]) \leq BatchSize
  <2>1. batch[r] \in Batches /\ done[r] \in Nat
    BY <1>1 DEF Typed
  <2>2. PICK n \in 0 .. BatchSize : batch[r] \in [1 .. n -> Interests]
    BY <2>1 DEF Batches
  <2>3. Len(batch[r]) = n
    BY <2>1, <2>2, QueueAssumption, BatchIsSequence
  <2>. QED
    BY <2>1, <2>2, <2>3, BatchIsSequence, QueueAssumption
<1>5. i \in deleted
  BY <1>1, <1>3, <1>4 DEF Steady, ToSet
<1>6. Grows /\ Shared' /\ NotLost'
  <2>1. faults' \in 0 .. MaxFaults
    BY <1>1, <1>2, FaultCounts DEF Shared
  <2>2. Grows
    BY <1>2, <1>3 DEF Grows
  <2>3. Shared'
    BY <1>1, <1>2, <1>3, <1>5, <2>1 DEF Shared
  <2>4. NotLost'
    BY <1>1, <1>3, <2>2 DEF NotLost, Grows
  <2>. QED
    BY <2>2, <2>3, <2>4
<1>7. Maps' /\ \A q \in Replicas \ {r} : Same(q)
  BY <1>1, <1>2, <1>3 DEF Maps, Same
<1>8. /\ at'[r] = "consume" /\ batch'[r] = batch[r] /\ done'[r] = done[r] + 1
      /\ err'[r] = e /\ acks'[r] = acks[r]
  BY <1>1, <1>2, <1>3 DEF Maps
<1>9. Typed(r)'
  BY <1>1, <1>3, <1>4, <1>8, QueueAssumption DEF Typed
<1>10. Steady(r)'
  <2>1. i \in Tried' /\ Tried \subseteq Tried' /\ (e \/ i \in swept')
    BY <1>2 DEF Tried
  <2>2. \A n \in 1 .. done[r] : batch[r][n] \in Tried
    BY <1>1, <1>3 DEF Steady
  <2>3. \A n \in 1 .. done[r] + 1 : batch[r][n] \in Tried'
    BY <1>4, <2>1, <2>2
  <2>4. batch[r] # <<>> /\ ToSet(batch[r]) \subseteq deleted /\ acks[r] \subseteq Tried
    BY <1>1, <1>3 DEF Steady
  <2>5. done[r] + 1 > 0
    BY <1>4
  <2>. QED
    BY <1>3, <1>8, <2>1, <2>3, <2>4, <2>5 DEF Steady
<1>. QED
  BY <1>6, <1>7, <1>9, <1>10, OneConsumer

LEMMA AcknowledgeKeeps ==
    ASSUME IInv, NEW r \in Replicas, Acknowledge(r)
    PROVE  IInv'
<1>1. Shared /\ Maps /\ NotLost /\ Typed(r) /\ Steady(r) /\ Tried \subseteq deleted
  BY Unfold
<1>2. /\ at[r] = "consume" /\ done[r] = Len(batch[r])
      /\ UNCHANGED <<held, deleted, swept, failed>>
  BY DEF Acknowledge
<1>3. batch[r] \in Batches /\ batch[r] # <<>> /\ acks[r] \subseteq Tried
  BY <1>1, <1>2 DEF Typed, Steady
<1>4. ToSet(batch[r]) \subseteq Tried
  <2>1. \A n \in 1 .. Len(batch[r]) : batch[r][n] \in Tried
    BY <1>1, <1>2 DEF Steady
  <2>. QED
    BY <1>3, <2>1, WholeBatch
<1>5. faults' \in 0 .. MaxFaults
  BY <1>1, FaultCounts DEF Acknowledge, Shared
<1>6. CASE /\ acks' = [acks EXCEPT ![r] = @ \cup ToSet(batch[r])]
           /\ UNCHANGED faults
           /\ ~err[r] /\ at' = [at EXCEPT ![r] = "recv"] /\ UNCHANGED <<batch, done, err>>
  <2>1. Grows /\ Shared' /\ NotLost'
    BY <1>1, <1>2, <1>6 DEF Grows, Shared, NotLost
  <2>2. Maps' /\ \A q \in Replicas \ {r} : Same(q)
    BY <1>1, <1>6 DEF Maps, Same
  <2>3. /\ at'[r] = "recv" /\ batch'[r] = batch[r] /\ done'[r] = done[r]
        /\ err'[r] = err[r] /\ acks'[r] = acks[r] \cup ToSet(batch[r])
    BY <1>1, <1>6 DEF Maps
  <2>4. Typed(r)'
    BY <1>1, <1>2, <1>3, <1>4, <2>3 DEF Typed, Places
  <2>5. Last(batch[r]) \in swept
    <3>1. Last(batch[r]) = batch[r][Len(batch[r])] /\ Len(batch[r]) > 0
      BY <1>3, LastOfBatch
    <3>. QED
      BY <1>1, <1>2, <1>6, <3>1 DEF Steady
  <2>6. acks[r] \cup ToSet(batch[r]) \subseteq Tried' /\ ToSet(batch[r]) \subseteq deleted'
    BY <1>1, <1>2, <1>3, <1>4 DEF Tried
  <2>7. Steady(r)'
    BY <1>2, <1>6, <2>3, <2>5, <2>6 DEF Steady
  <2>. QED
    BY <2>1, <2>2, <2>4, <2>7, OneConsumer
<1>7. CASE /\ acks' = [acks EXCEPT ![r] = @ \cup ToSet(batch[r])]
           /\ Leave(r, "returned")
  <2>1. /\ acks' = [acks EXCEPT ![r] = acks'[r]]
        /\ acks'[r] = acks[r] \cup ToSet(batch[r])
    BY <1>1, <1>7 DEF Maps
  <2>2. acks'[r] \subseteq Tried /\ acks'[r] \subseteq deleted
    BY <1>1, <1>3, <1>4, <2>1
  <2>. QED
    BY <1>2, <1>5, <1>7, <2>1, <2>2, LeavesSteady
<1>8. CASE Fault /\ Leave(r, "returned") /\ UNCHANGED acks
  BY <1>2, <1>8, OnlyLeaves
<1>. QED
  BY <1>6, <1>7, <1>8 DEF Acknowledge

(* AckArrives and AckLost take the acknowledgements of r. *)
LEMMA AcksTaken ==
    ASSUME IInv, NEW r \in Replicas, AckArrives(r) \/ AckLost(r)
    PROVE  IInv'
<1>1. Shared /\ Maps /\ NotLost /\ Typed(r) /\ Steady(r)
  BY Unfold
<1>2. /\ acks' = [acks EXCEPT ![r] = {}]
      /\ UNCHANGED <<at, batch, done, err, deleted, swept, failed>>
      /\ held' \subseteq held /\ held \ acks[r] \subseteq held'
      /\ Fault \/ UNCHANGED faults
  BY DEF AckArrives, AckLost
<1>3. Grows /\ Shared'
  <2>1. faults' \in 0 .. MaxFaults
    BY <1>1, <1>2, FaultCounts DEF Shared
  <2>. QED
    BY <1>1, <1>2, <2>1 DEF Grows, Shared
<1>4. NotLost'
  <2>1. acks[r] \subseteq swept \cup failed
    BY <1>1 DEF Steady, Tried
  <2>. QED
    BY <1>1, <1>2, <2>1 DEF NotLost
<1>5. Maps' /\ \A q \in Replicas \ {r} : Same(q)
  BY <1>1, <1>2 DEF Maps, Same
<1>6. acks'[r] = {}
  BY <1>1, <1>2 DEF Maps
<1>7. Typed(r)'
  BY <1>1, <1>2, <1>6 DEF Typed
<1>8. Steady(r)'
  BY <1>1, <1>2, <1>6 DEF Steady, Tried
<1>. QED
  BY <1>3, <1>4, <1>5, <1>7, <1>8, OneConsumer

LEMMA CheckKeeps == ASSUME IInv, NEW r \in Replicas, Check(r) PROVE IInv'
BY OnlyLeaves DEF Check

(* The gauge changes the error of a consumer of which nothing is asked any more. *)
LEMMA ScrapeKeeps ==
    ASSUME IInv, NEW r \in Replicas, Scrape(r)
    PROVE  IInv'
<1>1. Shared /\ Maps /\ NotLost /\ Typed(r) /\ Steady(r)
  BY Unfold
<1>2. PICK e \in BOOLEAN : err' = [err EXCEPT ![r] = e]
  BY DEF Scrape
<1>3. /\ at[r] = "returned"
      /\ UNCHANGED <<held, acks, at, batch, done, faults, deleted, swept, failed>>
  BY DEF Scrape
<1>4. Grows /\ Shared' /\ NotLost'
  BY <1>1, <1>3 DEF Grows, Shared, NotLost
<1>5. Maps' /\ \A q \in Replicas \ {r} : Same(q)
  BY <1>1, <1>2, <1>3 DEF Maps, Same
<1>6. err'[r] = e
  BY <1>1, <1>2 DEF Maps
<1>7. Typed(r)'
  BY <1>1, <1>3, <1>6 DEF Typed
<1>8. Steady(r)'
  BY <1>1, <1>3 DEF Steady, Tried
<1>. QED
  BY <1>4, <1>5, <1>7, <1>8, OneConsumer

(* A start that fails is counted, and nothing else. *)
LEMMA StartFailsKeeps == ASSUME IInv, NEW r \in Replicas, StartFails(r) PROVE IInv'
<1>1. \A q \in Replicas : Steady(q)'
  BY DEF IInv, Steady, Tried, StartFails
<1>2. faults' \in 0 .. MaxFaults
  BY Unfold, FaultCounts DEF StartFails
<1>3. TypeOK' /\ NotLost'
  BY <1>2 DEF IInv, TypeOK, NotLost, StartFails
<1>. QED
  BY <1>1, <1>3 DEF IInv

LEMMA StutterKeeps == ASSUME IInv, UNCHANGED vars PROVE IInv'
<1>1. \A r \in Replicas : Steady(r)'
  BY DEF IInv, Steady, Tried, vars
<1>2. TypeOK' /\ NotLost'
  BY DEF IInv, TypeOK, NotLost, vars
<1>. QED
  BY <1>1, <1>2 DEF IInv

LEMMA StepKeeps == IInv /\ [Next]_vars => IInv'
<1>. SUFFICES ASSUME IInv, [Next]_vars PROVE IInv'
  OBVIOUS
<1>1. CASE \E i \in Interests : Report(i)
  BY <1>1, ReportKeeps
<1>2. ASSUME NEW r \in Replicas, Connect(r) \/ ConnectFails(r) PROVE IInv'
  BY <1>2, OnlyLeaves DEF Connect, ConnectFails
<1>3. ASSUME NEW r \in Replicas, EndOfStream(r) PROVE IInv'
  BY <1>3, OnlyLeaves DEF EndOfStream
<1>4. ASSUME NEW r \in Replicas, ReceiveFails(r) \/ Crash(r) PROVE IInv'
  BY <1>4, OnlyLeaves DEF ReceiveFails, Crash
<1>5. ASSUME NEW r \in Replicas, Restart(r) PROVE IInv'
  BY <1>5, OnlyLeaves DEF Restart
<1>6. ASSUME NEW r \in Replicas, NEW b \in Batches, Receive(r, b) PROVE IInv'
  BY <1>6, ReceiveKeeps
<1>7. ASSUME NEW r \in Replicas, Consume(r) PROVE IInv'
  BY <1>7, SweepKeeps, AcknowledgeKeeps, CheckKeeps DEF Consume
<1>8. ASSUME NEW r \in Replicas, AckArrives(r) \/ AckLost(r) PROVE IInv'
  BY <1>8, AcksTaken
<1>9. ASSUME NEW r \in Replicas, Scrape(r) PROVE IInv'
  BY <1>9, ScrapeKeeps
<1>10. ASSUME NEW r \in Replicas, StartFails(r) PROVE IInv'
  BY <1>10, StartFailsKeeps
<1>11. CASE UNCHANGED vars
  BY <1>11, StutterKeeps
<1>. QED
  BY <1>1, <1>2, <1>3, <1>4, <1>5, <1>6, <1>7, <1>8, <1>9, <1>10, <1>11 DEF Next

THEOREM Invariant == Spec => []IInv
BY InitHolds, StepKeeps, PTL DEF Spec

-----------------------------------------------------------------------------

(* Every variable of the consumers and of the queue stays in its set (TypeOK). *)
THEOREM TypeCorrect == Spec => []TypeOK
<1>1. IInv => TypeOK
  BY DEF IInv
<1>. QED
  BY <1>1, Invariant, PTL

(* However often consumers crash, lose their streams or their acknowledgements, a *)
(* deleted interest is in the queue until a sweep of it was tried to the end      *)
(* (NotLost): ReceiveMessages acknowledges a batch only after consume returned.   *)
THEOREM NothingLost == Spec => []NotLost
<1>1. IInv => NotLost
  BY DEF IInv
<1>. QED
  BY <1>1, Invariant, PTL

(* A consumer that waits for its next batch swept the last interest of the one *)
(* before (LastSweepSucceeded): err of main.go's loop is the last call's.      *)
THEOREM WaitsAfterSuccess == Spec => []LastSweepSucceeded
<1>1. IInv => LastSweepSucceeded
  BY DEF IInv, Steady, LastSweepSucceeded
<1>. QED
  BY <1>1, Invariant, PTL
=============================================================================
