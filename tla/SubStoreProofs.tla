--------------------------- MODULE SubStoreProofs ---------------------------
(***************************************************************************)
(* Theorems of SubStore for any sets of keys, callers and owners.          *)
(***************************************************************************)
EXTENDS SubStore, TLAPS

(* A request names a key, unless it is about all the documents of an owner. *)
LEMMA RequestType ==
    ASSUME NEW r \in Requests
    PROVE  /\ r.op \in {"create", "delete", "update", "changeOwner"}
           /\ r.owner \in Owners
           /\ r.op \in {"create", "delete", "update"} => r.key \in Keys
           /\ r.op = "update" => r.failed \in BOOLEAN
           /\ r.op = "changeOwner" => r.to \in Owners
BY DEF Requests, Registry!Requests

(* Watch keeps the history well typed. *)
LEMMA WatchType ==
    ASSUME SeenOK, Watch
    PROVE  SeenOK'
BY DEF Watch, SeenOK

(* The counter of failed deliveries stays within its bound. *)
LEMMA CountedType ==
    ASSUME NEW e \in 0 .. MaxErrs, NEW f \in BOOLEAN
    PROVE  Registry!Counted(e, f) \in 0 .. MaxErrs
BY MaxErrsAssumption DEF Registry!Counted

(* A key whose document a caller may write holds a document. *)
LEMMA WritableIsDocument ==
    ASSUME CollOK, NEW k \in Keys, NEW o, Writable(coll[k], o)
    PROVE  coll[k] \in Documents
BY DEF CollOK, Writable, IsLive, Absent

(* Moving a creation from one of its driver calls to another keeps the calls well formed. *)
LEMMA ReachFits ==
    ASSUME CallsOK, NEW c \in Clients, UNCHANGED req,
           NEW at \in {"InsertOne", "DeleteOne"}, NEW n \in BOOLEAN,
           call[c].at \in {"InsertOne", "DeleteOne"},
           Reach(c, at, n)
    PROVE  CallsOK'
<1>1. call'[c] = [call[c] EXCEPT !.at = at, !.nested = n]
  BY DEF CallsOK, Reach
<1>2. call'[c] \in Calls /\ call'[c].at = at /\ call'[c].ans = call[c].ans
  BY <1>1 DEF CallsOK, Calls, Steps
<1>3. call' \in [Clients -> Calls]
  BY <1>1, <1>2 DEF CallsOK, Reach
<1>4. CallFits(c)'
  BY <1>2 DEF CallsOK, CallFits
<1>5. \A d \in Clients \ {c} : CallFits(d)'
  BY DEF CallsOK, CallFits, Reach
<1>. QED
  BY <1>3, <1>4, <1>5 DEF CallsOK

(* Answering an open call keeps the calls well formed. *)
LEMMA AnswerFits ==
    ASSUME CallsOK, NEW c \in Clients, UNCHANGED req,
           NEW a \in Registry!Answers, NEW h \in BOOLEAN,
           call[c].at # "idle",
           Answer(c, a, h)
    PROVE  CallsOK'
<1>1. call'[c] = [call[c] EXCEPT !.at = "return", !.ans = a, !.hurt = h]
  BY DEF CallsOK, Answer
<1>2. call'[c] \in Calls /\ call'[c].at = "return" /\ call'[c].ans = a
  BY <1>1 DEF CallsOK, Calls, Steps
<1>3. call' \in [Clients -> Calls]
  BY <1>1, <1>2 DEF CallsOK, Answer
<1>4. CallFits(c)'
  BY <1>2 DEF CallsOK, CallFits
<1>5. \A d \in Clients \ {c} : CallFits(d)'
  BY DEF CallsOK, CallFits, Answer
<1>. QED
  BY <1>3, <1>4, <1>5 DEF CallsOK

(* The acknowledged or lost end of a write keeps the calls well formed. *)
LEMMA AppliedFits ==
    ASSUME CallsOK, NEW c \in Clients, UNCHANGED req, call[c].at # "idle", Applied(c)
    PROVE  CallsOK'
<1>1. PICK lost \in BOOLEAN : Answer(c, IF lost THEN "internal" ELSE "ok", lost)
  BY DEF Applied
<1>2. (IF lost THEN "internal" ELSE "ok") \in Registry!Answers
  BY DEF Registry!Answers
<1>. QED
  BY <1>1, <1>2, AnswerFits

(* Type correctness of the collection and of the calls on it. *)
THEOREM TypeCorrect == Spec => []TypeOK
<1>1. Init => TypeOK
  BY DEF Init, TypeOK, CollOK, CallsOK, SeenOK, Calls, CallFits, Idle, Steps, Registry!Answers
<1>2. TypeOK /\ [Next]_vars => TypeOK'
  <2> SUFFICES ASSUME CollOK, CallsOK, SeenOK, [Next]_vars
               PROVE  CollOK' /\ CallsOK' /\ SeenOK'
    BY DEF TypeOK
  <2>1. ASSUME NEW c \in Clients, Enter(c) PROVE CollOK' /\ CallsOK' /\ SeenOK'
    <3>1. PICK r \in Requests :
             /\ req' = [req EXCEPT ![c] = r]
             /\ call' = [call EXCEPT ![c] =
                   [Idle EXCEPT !.ans = "open",
                                !.at = CASE r.op = "create" -> "InsertOne"
                                         [] r.op \in {"delete", "update"} -> "UpdateOne"
                                         [] r.op = "changeOwner" -> "UpdateMany"]]
      BY <2>1 DEF Enter
    <3>2. req' \in [Clients -> Requests \cup {NoReq}]
      BY <3>1 DEF CallsOK
    <3>3. /\ call'[c].at = CASE r.op = "create" -> "InsertOne"
                             [] r.op \in {"delete", "update"} -> "UpdateOne"
                             [] r.op = "changeOwner" -> "UpdateMany"
          /\ call'[c].ans = "open"
          /\ call'[c].nested = FALSE /\ call'[c].hurt = FALSE
          /\ req'[c] = r
      BY <3>1 DEF CallsOK, Idle
    <3>4. \/ r.op = "create" /\ call'[c].at = "InsertOne"
          \/ r.op \in {"delete", "update"} /\ call'[c].at = "UpdateOne"
          \/ r.op = "changeOwner" /\ call'[c].at = "UpdateMany"
      BY <3>3, RequestType
    <3>5. call'[c] \in Calls
      BY <3>1, <3>3, <3>4 DEF Calls, Steps, Idle, CallsOK
    <3>6. call' \in [Clients -> Calls]
      BY <3>1, <3>5 DEF CallsOK
    <3>7. CallFits(c)'
      BY <3>3, <3>4 DEF CallFits
    <3>8. \A d \in Clients \ {c} : CallFits(d)'
      BY <3>1 DEF CallsOK, CallFits
    <3>. QED
      BY <2>1, <3>2, <3>6, <3>7, <3>8, WatchType DEF Enter, CallsOK, CollOK
  <2>2. ASSUME NEW c \in Clients, InsertOne(c) PROVE CollOK' /\ CallsOK' /\ SeenOK'
    <3>1. req[c] \in Requests /\ req[c].op = "create" /\ req[c].key \in Keys /\ req[c].owner \in Owners
      BY <2>2, RequestType DEF InsertOne, CallsOK, CallFits
    <3>2. CollOK'
      BY <2>2, <3>1, MaxErrsAssumption DEF InsertOne, CollOK, Documents
    <3>3. ASSUME Applied(c) PROVE CallsOK'
      BY <2>2, <3>3, AppliedFits DEF InsertOne
    <3>4. ASSUME Reach(c, "DeleteOne", call[c].nested) PROVE CallsOK'
      <4>1. call[c].nested \in BOOLEAN
        BY DEF CallsOK, Calls
      <4>. QED
        BY <2>2, <3>4, <4>1, ReachFits DEF InsertOne
    <3>. QED
      BY <2>2, <3>2, <3>3, <3>4, WatchType DEF InsertOne
  <2>3. ASSUME NEW c \in Clients, DeleteOne(c) PROVE CollOK' /\ CallsOK' /\ SeenOK'
    <3>1. req[c].key \in Keys
      BY <2>3, RequestType DEF DeleteOne, CallsOK, CallFits
    <3>2. CollOK'
      BY <2>3, <3>1 DEF DeleteOne, CollOK
    <3>3. ASSUME Reach(c, "InsertOne", TRUE) PROVE CallsOK'
      BY <2>3, <3>3, ReachFits DEF DeleteOne
    <3>4. ASSUME Answer(c, "internal", TRUE) \/ Answer(c, ConflictAnswer(c), FALSE)
           PROVE  CallsOK'
      <4>1. ConflictAnswer(c) \in Registry!Answers /\ "internal" \in Registry!Answers
        BY DEF ConflictAnswer, Registry!Answers
      <4>. QED
        BY <2>3, <3>4, <4>1, AnswerFits DEF DeleteOne
    <3>. QED
      BY <2>3, <3>2, <3>3, <3>4, WatchType DEF DeleteOne
  <2>4. ASSUME NEW c \in Clients, Delete(c) PROVE CollOK' /\ CallsOK' /\ SeenOK'
    <3>1. req[c].key \in Keys
      BY <2>4, RequestType DEF Delete, CallsOK, CallFits
    <3>2. CollOK'
      <4>1. CASE ~Writable(coll[req[c].key], req[c].owner)
        BY <2>4, <4>1 DEF Delete, CollOK
      <4>2. CASE Writable(coll[req[c].key], req[c].owner)
        <5>1. [coll[req[c].key] EXCEPT !.kind = "tombstone"] \in Documents
          BY <3>1, <4>2, WritableIsDocument DEF Documents
        <5>. QED
          BY <2>4, <3>1, <4>2, <5>1 DEF Delete, CollOK
      <4>. QED
        BY <4>1, <4>2
    <3>3. "notFound" \in Registry!Answers
      BY DEF Registry!Answers
    <3>. QED
      BY <2>4, <3>2, <3>3, AppliedFits, AnswerFits, WatchType DEF Delete
  <2>5. ASSUME NEW c \in Clients, Update(c) PROVE CollOK' /\ CallsOK' /\ SeenOK'
    <3>1. req[c].key \in Keys /\ req[c].failed \in BOOLEAN
      BY <2>5, RequestType DEF Update, CallsOK, CallFits
    <3>2. CollOK'
      <4>1. CASE ~Writable(coll[req[c].key], req[c].owner)
        BY <2>5, <4>1 DEF Update, CollOK
      <4>2. CASE Writable(coll[req[c].key], req[c].owner)
        <5> DEFINE doc == coll[req[c].key]
        <5>1. [doc EXCEPT !.errs = Registry!Counted(doc.errs, req[c].failed)] \in Documents
          BY <3>1, <4>2, WritableIsDocument, CountedType DEF Documents
        <5>. QED
          BY <2>5, <3>1, <4>2, <5>1 DEF Update, CollOK
      <4>. QED
        BY <4>1, <4>2
    <3>3. "notFound" \in Registry!Answers
      BY DEF Registry!Answers
    <3>. QED
      BY <2>5, <3>2, <3>3, AppliedFits, AnswerFits, WatchType DEF Update
  <2>6. ASSUME NEW c \in Clients, ChangeOwner(c) PROVE CollOK' /\ CallsOK' /\ SeenOK'
    <3>1. req[c].to \in Owners
      BY <2>6, RequestType DEF ChangeOwner, CallsOK, CallFits
    <3>2. CollOK'
      BY <2>6, <3>1 DEF ChangeOwner, CollOK, IsLive, Documents, Absent
    <3>. QED
      BY <2>6, <3>2, AppliedFits, WatchType DEF ChangeOwner
  <2>7. ASSUME NEW c \in Clients, Fail(c) PROVE CollOK' /\ CallsOK' /\ SeenOK'
    <3>1. "internal" \in Registry!Answers
      BY DEF Registry!Answers
    <3>. QED
      BY <2>7, <3>1, AnswerFits, WatchType DEF Fail, CollOK
  <2>8. ASSUME NEW c \in Clients, Return(c) PROVE CollOK' /\ CallsOK' /\ SeenOK'
    <3>1. CallsOK'
      BY <2>8 DEF Return, CallsOK, CallFits, Idle, Calls, Steps
    <3>. QED
      BY <2>8, <3>1, WatchType DEF Return, CollOK
  <2>9. ASSUME NEW k \in Keys, Expire(k) PROVE CollOK' /\ CallsOK' /\ SeenOK'
    BY <2>9, WatchType DEF Expire, CollOK, CallsOK, CallFits
  <2>10. CASE UNCHANGED vars
    BY <2>10 DEF vars, CollOK, CallsOK, SeenOK, CallFits
  <2>. QED
    BY <2>1, <2>2, <2>3, <2>4, <2>5, <2>6, <2>7, <2>8, <2>9, <2>10 DEF Next, Serve
<1>. QED
  BY <1>1, <1>2, PTL DEF Spec

-----------------------------------------------------------------------------

(* Only creations meet conflicts and nest. *)
CreatesOnly(c) ==
    (call[c].ans = "conflict" \/ call[c].nested) => req[c].op = "create"

(* DuplicateExplained, ConflictExplained and InternalExplained of one caller. *)
Explained(c) ==
    /\ CreatesOnly(c)
    /\ call[c].at = "DeleteOne" =>
          IsTombstone(coll[req[c].key]) \/ seen[c] \cap {"live", "unburied"} # {}
    /\ call[c].ans = "conflict" => seen[c] # {}
    /\ call[c].ans = "internal" => call[c].hurt \/ (call[c].nested /\ seen[c] # {})

ExplainedInv == TypeOK /\ \A c \in Clients : Explained(c)

(* What Watch records of a creation that stays open. *)
LEMMA WatchRecords ==
    ASSUME NEW c \in Clients, Watch, call'[c].at # "idle", req'[c].op = "create",
           UNCHANGED req
    PROVE  /\ seen[c] \subseteq seen'[c]
           /\ IsLive(coll'[req[c].key]) => "live" \in seen'[c]
           /\ (/\ call'[c] = call[c]
               /\ IsTombstone(coll[req[c].key])
               /\ ~IsTombstone(coll'[req[c].key])) => "unburied" \in seen'[c]
BY DEF Watch

(* The steps of others leave a caller's call explained. *)
LEMMA Bystander ==
    ASSUME ExplainedInv, Watch, NEW c \in Clients,
           call'[c] = call[c], req'[c] = req[c]
    PROVE  Explained(c)'
<1>1. CASE call[c].at = "idle"
  BY <1>1 DEF ExplainedInv, Explained, TypeOK, CallsOK, CallFits, CreatesOnly, Calls
<1>2. CASE call[c].at # "idle" /\ req[c].op # "create"
  BY <1>2 DEF ExplainedInv, Explained, TypeOK, CallsOK, CallFits, CreatesOnly
<1>3. CASE call[c].at # "idle" /\ req[c].op = "create"
  <2>1. /\ seen[c] \subseteq seen'[c]
        /\ (/\ IsTombstone(coll[req[c].key])
            /\ ~IsTombstone(coll'[req[c].key])) => "unburied" \in seen'[c]
    BY <1>3 DEF Watch
  <2>. QED
    BY <2>1, <1>3 DEF ExplainedInv, Explained, CreatesOnly, TypeOK, SeenOK
<1>. QED
  BY <1>1, <1>2, <1>3

(* Every step keeps every call explained. *)
LEMMA ExplainedStep == ExplainedInv /\ TypeOK' /\ [Next]_vars => \A c \in Clients : Explained(c)'
<1> SUFFICES ASSUME ExplainedInv, TypeOK', [Next]_vars, NEW d \in Clients
             PROVE  Explained(d)'
  OBVIOUS
<1>0. /\ call \in [Clients -> Calls] /\ req \in [Clients -> Requests \cup {NoReq}]
      /\ CallFits(d) /\ CallFits(d)' /\ Explained(d) /\ seen[d] \subseteq {"live", "unburied"}
  BY DEF ExplainedInv, TypeOK, CallsOK, SeenOK
<1>1. ASSUME NEW c \in Clients, Enter(c) PROVE Explained(d)'
  <2>1. CASE d = c
    <3>1. call'[d].ans = "open" /\ call'[d].at # "DeleteOne" /\ ~call'[d].nested
      BY <1>0, <1>1, <2>1, RequestType DEF Enter, Idle
    <3>. QED
      BY <3>1 DEF Explained, CreatesOnly
  <2>2. CASE d # c
    <3>1. call'[d] = call[d] /\ req'[d] = req[d] /\ Watch
      BY <1>0, <1>1, <2>2 DEF Enter
    <3>. QED
      BY <3>1, Bystander
  <2>. QED
    BY <2>1, <2>2
<1>2. ASSUME NEW c \in Clients, InsertOne(c) PROVE Explained(d)'
  <2>1. CASE d = c
    <3>1. /\ call[d].at = "InsertOne" /\ req[d].op = "create" /\ UNCHANGED req /\ Watch
          /\ req[d].key \in Keys
      BY <1>0, <1>2, <2>1, RequestType DEF InsertOne, CallFits
    <3>2. ASSUME Applied(d) PROVE Explained(d)'
      BY <3>1, <3>2, <1>0 DEF Applied, Answer, Explained, CreatesOnly, Calls
    <3>3. ASSUME Reach(d, "DeleteOne", call[d].nested), UNCHANGED coll, coll[req[d].key] # Absent
          PROVE  Explained(d)'
      <4>1. call'[d].at = "DeleteOne" /\ call'[d].ans = "open" /\ call'[d].nested = call[d].nested
        BY <3>1, <3>3, <1>0 DEF Reach, CallFits, Calls
      <4>2. IsLive(coll[req[d].key]) \/ IsTombstone(coll[req[d].key])
        BY <3>1, <3>3 DEF ExplainedInv, TypeOK, CollOK, Documents, IsLive, IsTombstone
      <4>3. IsLive(coll'[req[d].key]) => "live" \in seen'[d]
        BY <3>1, <4>1, WatchRecords
      <4>. QED
        BY <3>1, <3>3, <4>1, <4>2, <4>3, <1>0 DEF Explained, CreatesOnly
    <3>. QED
      BY <1>2, <2>1, <3>2, <3>3 DEF InsertOne
  <2>2. CASE d # c
    <3>1. call'[d] = call[d] /\ req'[d] = req[d] /\ Watch
      BY <1>0, <1>2, <2>2 DEF InsertOne, Applied, Answer, Reach
    <3>. QED
      BY <3>1, Bystander
  <2>. QED
    BY <2>1, <2>2
<1>3. ASSUME NEW c \in Clients, DeleteOne(c) PROVE Explained(d)'
  <2>1. CASE d = c
    <3>1. call[d].at = "DeleteOne" /\ req[d].op = "create" /\ UNCHANGED req /\ Watch
      BY <1>0, <1>3, <2>1 DEF DeleteOne, CallFits
    <3>2. ASSUME Reach(d, "InsertOne", TRUE) PROVE Explained(d)'
      BY <3>1, <3>2, <1>0 DEF Reach, Explained, CreatesOnly, CallFits, Calls
    <3>3. ASSUME Answer(d, "internal", TRUE) PROVE Explained(d)'
      BY <3>1, <3>3, <1>0 DEF Answer, Explained, CreatesOnly, Calls
    <3>4. ASSUME Answer(d, ConflictAnswer(d), FALSE), ~IsTombstone(coll[req[d].key])
          PROVE  Explained(d)'
      <4>1. seen[d] # {}
        BY <3>1, <3>4, <1>0 DEF Explained
      <4>2. call'[d].at = "return" /\ call'[d].nested = call[d].nested /\ call'[d].ans = ConflictAnswer(d)
        BY <3>4, <1>0 DEF Answer, Calls
      <4>3. seen'[d] # {}
        BY <3>1, <4>1, <4>2, WatchRecords
      <4>. QED
        BY <3>1, <4>2, <4>3 DEF Explained, CreatesOnly, ConflictAnswer
    <3>. QED
      BY <1>3, <2>1, <3>2, <3>3, <3>4 DEF DeleteOne
  <2>2. CASE d # c
    <3>1. call'[d] = call[d] /\ req'[d] = req[d] /\ Watch
      BY <1>0, <1>3, <2>2 DEF DeleteOne, Answer, Reach
    <3>. QED
      BY <3>1, Bystander
  <2>. QED
    BY <2>1, <2>2
<1>4. ASSUME NEW c \in Clients, Delete(c) \/ Update(c) \/ ChangeOwner(c)
      PROVE  Explained(d)'
  <2>1. CASE d = c
    <3>1. call[d].at \in {"UpdateOne", "UpdateMany"} /\ req'[d] = req[d]
      BY <1>4, <2>1 DEF Delete, Update, ChangeOwner
    <3>2. ~call[d].nested
      BY <1>0, <3>1 DEF Explained, CreatesOnly, CallFits
    <3>3. Applied(d) \/ Answer(d, "notFound", FALSE)
      BY <1>4, <2>1 DEF Delete, Update, ChangeOwner
    <3>4. PICK a \in {"ok", "internal", "notFound"}, h \in BOOLEAN :
             Answer(d, a, h) /\ (a = "internal" => h)
      BY <3>3 DEF Applied
    <3>5. /\ call'[d].at = "return" /\ call'[d].ans = a /\ call'[d].hurt = h
          /\ call'[d].nested = call[d].nested
      BY <3>4, <1>0 DEF Answer, Calls
    <3>. QED
      BY <3>1, <3>2, <3>4, <3>5 DEF Explained, CreatesOnly
  <2>2. CASE d # c
    <3>1. call'[d] = call[d] /\ req'[d] = req[d] /\ Watch
      BY <1>0, <1>4, <2>2 DEF Delete, Update, ChangeOwner, Applied, Answer
    <3>. QED
      BY <3>1, Bystander
  <2>. QED
    BY <2>1, <2>2
<1>5. ASSUME NEW c \in Clients, Fail(c) PROVE Explained(d)'
  <2>1. CASE d = c
    BY <1>0, <1>5, <2>1 DEF Fail, Explained, CreatesOnly, Answer, Calls
  <2>2. CASE d # c
    <3>1. call'[d] = call[d] /\ req'[d] = req[d] /\ Watch
      BY <1>0, <1>5, <2>2 DEF Fail, Answer
    <3>. QED
      BY <3>1, Bystander
  <2>. QED
    BY <2>1, <2>2
<1>6. ASSUME NEW c \in Clients, Return(c) PROVE Explained(d)'
  <2>1. CASE d = c
    <3>1. call'[d] = Idle
      BY <1>0, <1>6, <2>1 DEF Return
    <3>. QED
      BY <3>1 DEF Idle, Explained, CreatesOnly
  <2>2. CASE d # c
    <3>1. call'[d] = call[d] /\ req'[d] = req[d] /\ Watch
      BY <1>0, <1>6, <2>2 DEF Return
    <3>. QED
      BY <3>1, Bystander
  <2>. QED
    BY <2>1, <2>2
<1>7. ASSUME NEW k \in Keys, Expire(k) PROVE Explained(d)'
  <2>1. call'[d] = call[d] /\ req'[d] = req[d] /\ Watch
    BY <1>7 DEF Expire
  <2>. QED
    BY <2>1, Bystander
<1>8. CASE UNCHANGED vars
  BY <1>0, <1>8 DEF vars, Explained, CreatesOnly
<1>. QED
  BY <1>1, <1>2, <1>3, <1>4, <1>5, <1>6, <1>7, <1>8 DEF Next, Serve

(* What became of the key of a creation is remembered as long as the call needs it:   *)
(* the inductive invariant behind the three theorems that follow, in every reachable  *)
(* state.                                                                             *)
THEOREM AnswersExplained == Spec => []ExplainedInv
<1>1. Init /\ TypeOK => ExplainedInv
  BY DEF Init, ExplainedInv, Explained, CreatesOnly, Idle
<1>2. ExplainedInv /\ TypeOK' /\ [Next]_vars => ExplainedInv'
  BY ExplainedStep DEF ExplainedInv
<1>. QED
  BY <1>1, <1>2, TypeCorrect, PTL DEF Spec

(* DuplicateExplained holds in every reachable state: a creation whose InsertOne met a *)
(* document finds a tombstone to delete, or somebody else subscribed or removed the    *)
(* tombstone in between.                                                               *)
THEOREM DuplicatesExplained == Spec => []DuplicateExplained
<1>1. ExplainedInv => DuplicateExplained
  BY DEF ExplainedInv, Explained, DuplicateExplained
<1>. QED
  BY <1>1, AnswersExplained, PTL

(* ConflictExplained holds in every reachable state: no creation answers ErrConflict on *)
(* a key that was free, or a tombstone, all the time and that nobody else touched.      *)
THEOREM ConflictsExplained == Spec => []ConflictExplained
<1>1. ExplainedInv => ConflictExplained
  BY DEF ExplainedInv, Explained, ConflictExplained
<1>. QED
  BY <1>1, AnswersExplained, PTL

(* InternalExplained holds in every reachable state: an internal failure of Create comes *)
(* from a driver call that failed or from a conflict that the nested creation met.       *)
THEOREM InternalsExplained == Spec => []InternalExplained
<1>1. ExplainedInv => InternalExplained
  BY DEF ExplainedInv, Explained, InternalExplained
<1>. QED
  BY <1>1, AnswersExplained, PTL

-----------------------------------------------------------------------------

AnsView == [c \in Clients |-> call[c].ans]

(* The registry's view of a call that is answered by one step of its caller. *)
LEMMA AnswerView ==
    ASSUME CallsOK, NEW c \in Clients, NEW a, NEW h, Answer(c, a, h)
    PROVE  AnsView' = [AnsView EXCEPT ![c] = a]
BY DEF AnsView, Answer, CallsOK, Calls

LEMMA AppliedView ==
    ASSUME CallsOK, NEW c \in Clients, Applied(c)
    PROVE  AnsView' \in {[AnsView EXCEPT ![c] = a] : a \in {"ok", "internal"}}
BY AnswerView DEF Applied

(* A step that changes neither live documents nor answers is a stutter of the registry. *)
LEMMA ViewOfOneKey ==
    ASSUME CollOK, NEW k \in Keys, NEW doc, coll' = [coll EXCEPT ![k] = doc]
    PROVE  LiveView' = [LiveView EXCEPT ![k] =
                           IF IsLive(doc) THEN [owner |-> doc.owner, errs |-> doc.errs] ELSE Free]
BY DEF CollOK, LiveView

(* A call that matches a document writes a live subscription of the registry. *)
LEMMA WritableMatches ==
    ASSUME CollOK, NEW c \in Clients, req[c].key \in Keys
    PROVE  Registry!Matches(c) <=> Writable(coll[req[c].key], req[c].owner)
<1>0. LiveView[req[c].key] = IF IsLive(coll[req[c].key])
                             THEN [owner |-> coll[req[c].key].owner,
                                   errs |-> coll[req[c].key].errs]
                             ELSE Free
  BY DEF LiveView
<1>1. CASE ~IsLive(coll[req[c].key])
  BY <1>0, <1>1 DEF Registry!Matches, Writable
<1>2. CASE IsLive(coll[req[c].key])
  <2>1. coll[req[c].key] \in Documents
    BY <1>2 DEF CollOK, IsLive, Absent
  <2>2. LiveView[req[c].key] \in Registry!Subs
    BY <1>0, <1>2, <2>1 DEF Documents, Registry!Subs
  <2>. QED
    BY <1>0, <1>2, <2>2, FreeAssumption DEF Registry!Matches, Writable
<1>. QED
  BY <1>1, <1>2

(* The collection with its tombstones, retries and lost replies implements the  *)
(* registry of at most one live subscription per key (ImplementsRegistry).      *)
THEOREM Refinement == Spec => ImplementsRegistry
<1> USE DEF AnsView
<1>1. Init => Registry!AbstractInit
  <2> SUFFICES ASSUME Init PROVE Registry!AbstractInit
    OBVIOUS
  <2>1. LiveView \in [Keys -> Registry!Subs \cup {Free}]
    BY DEF Init, LiveView, Registry!Subs, Documents, IsLive, Absent
  <2>2. AnsView = [c \in Clients |-> "idle"]
    BY DEF Init, Idle
  <2>. QED
    BY <2>1, <2>2 DEF Registry!AbstractInit, Init
<1>2. TypeOK /\ [Next]_vars => [Registry!AbstractNext]_(Registry!abstractVars)
  <2> SUFFICES ASSUME CollOK, CallsOK, [Next]_vars
               PROVE  [Registry!AbstractNext]_(Registry!abstractVars)
    BY DEF TypeOK
  <2>1. ASSUME NEW c \in Clients, Enter(c) PROVE Registry!Open(c)
    <3>1. LiveView' = LiveView
      BY <2>1 DEF Enter, LiveView
    <3>2. AnsView' = [AnsView EXCEPT ![c] = "open"]
      BY <2>1 DEF Enter, Idle, CallsOK
    <3>3. AnsView[c] = "idle"
      BY <2>1 DEF Enter, CallsOK, CallFits
    <3>. QED
      BY <2>1, <3>1, <3>2, <3>3 DEF Enter, Registry!Open, Requests
  <2>2. ASSUME NEW c \in Clients, InsertOne(c)
        PROVE  Registry!Add(c) \/ UNCHANGED Registry!abstractVars
    <3> DEFINE k == req[c].key
    <3>1. k \in Keys /\ req[c].op = "create" /\ AnsView[c] = "open"
      BY <2>2, RequestType DEF InsertOne, CallsOK, CallFits
    <3>2. CASE coll[k] = Absent /\ Applied(c)
               /\ coll' = [coll EXCEPT ![k] = [kind |-> "live", owner |-> req[c].owner, errs |-> 0]]
      <4>1. LiveView' = [LiveView EXCEPT ![k] = [owner |-> req[c].owner, errs |-> 0]]
        BY <3>1, <3>2, ViewOfOneKey DEF IsLive
      <4>2. LiveView[k] = Free
        BY <3>1, <3>2 DEF LiveView, IsLive, Absent
      <4>. QED
        BY <2>2, <3>1, <3>2, <4>1, <4>2, AppliedView
           DEF InsertOne, Registry!Add, Registry!IsOpen, Registry!Acknowledge
    <3>3. CASE UNCHANGED coll /\ Reach(c, "DeleteOne", call[c].nested)
      <4>1. LiveView' = LiveView /\ AnsView' = AnsView
        BY <3>3 DEF LiveView, Reach, CallsOK, Calls
      <4>. QED
        BY <2>2, <4>1 DEF InsertOne, Registry!abstractVars
    <3>. QED
      BY <2>2, <3>2, <3>3 DEF InsertOne
  <2>3. ASSUME NEW c \in Clients, DeleteOne(c)
        PROVE  Registry!Refuse(c) \/ UNCHANGED Registry!abstractVars
    <3>1. req[c].key \in Keys /\ req[c].op = "create" /\ AnsView[c] = "open"
      BY <2>3, RequestType DEF DeleteOne, CallsOK, CallFits
    <3>2. LiveView' = LiveView
      <4>1. CASE coll' = [coll EXCEPT ![req[c].key] = Absent] /\ IsTombstone(coll[req[c].key])
        BY <3>1, <4>1 DEF CollOK, LiveView, IsLive, IsTombstone, Absent
      <4>2. CASE UNCHANGED coll
        BY <4>2 DEF LiveView
      <4>. QED
        BY <2>3, <4>1, <4>2 DEF DeleteOne
    <3>3. CASE Reach(c, "InsertOne", TRUE)
      <4>1. AnsView' = AnsView
        BY <3>3 DEF Reach, CallsOK, Calls
      <4>. QED
        BY <2>3, <3>2, <4>1 DEF DeleteOne, Registry!abstractVars
    <3>4. CASE Answer(c, "internal", TRUE) \/ Answer(c, ConflictAnswer(c), FALSE)
      <4>1. \E a \in {"conflict", "internal"} : AnsView' = [AnsView EXCEPT ![c] = a]
        BY <3>4, AnswerView DEF ConflictAnswer
      <4>. QED
        BY <2>3, <3>1, <3>2, <4>1 DEF DeleteOne, Registry!Refuse
    <3>. QED
      BY <2>3, <3>3, <3>4 DEF DeleteOne
  <2>4. ASSUME NEW c \in Clients, Delete(c) PROVE Registry!Remove(c) \/ Registry!Refuse(c)
    <3> DEFINE k == req[c].key
    <3>1. k \in Keys /\ req[c].op = "delete" /\ AnsView[c] = "open"
      BY <2>4, RequestType DEF Delete, CallsOK, CallFits
    <3>2. CASE Writable(coll[k], req[c].owner)
      <4>1. LiveView' = [LiveView EXCEPT ![k] = Free]
        <5> DEFINE doc == [coll[k] EXCEPT !.kind = "tombstone"]
        <5>1. coll[k] \in Documents
          BY <3>1, <3>2, WritableIsDocument
        <5>2. coll' = [coll EXCEPT ![k] = doc]
          BY <2>4, <3>2 DEF Delete
        <5>3. ~IsLive(doc)
          BY <5>1 DEF IsLive, Documents
        <5>. HIDE DEF doc
        <5>. QED
          BY <3>1, <5>2, <5>3, ViewOfOneKey
      <4>. QED
        BY <2>4, <3>1, <3>2, <4>1, AppliedView, WritableMatches
           DEF Delete, Registry!Remove, Registry!IsOpen, Registry!Acknowledge
    <3>3. CASE ~Writable(coll[k], req[c].owner)
      <4>1. LiveView' = LiveView /\ UNCHANGED req
        BY <2>4, <3>3 DEF Delete, LiveView
      <4>2. AnsView' = [AnsView EXCEPT ![c] = "notFound"]
        BY <2>4, <3>3, AnswerView DEF Delete
      <4>. QED
        BY <3>1, <3>3, <4>1, <4>2, WritableMatches DEF Registry!Refuse
    <3>. QED
      BY <3>2, <3>3
  <2>5. ASSUME NEW c \in Clients, Update(c) PROVE Registry!Touch(c) \/ Registry!Refuse(c)
    <3> DEFINE k == req[c].key
               n == Registry!Counted(coll[k].errs, req[c].failed)
    <3>1. k \in Keys /\ req[c].op = "update" /\ AnsView[c] = "open"
      BY <2>5, RequestType DEF Update, CallsOK, CallFits
    <3>2. CASE Writable(coll[k], req[c].owner)
      <4>1. coll[k] \in Documents /\ IsLive(coll[k])
        BY <3>1, <3>2, WritableIsDocument DEF Writable
      <4>2. coll' = [coll EXCEPT ![k] = [coll[k] EXCEPT !.errs = n]]
        BY <2>5, <3>2 DEF Update
      <4>3. LiveView[k] = [owner |-> coll[k].owner, errs |-> coll[k].errs]
        BY <3>1, <4>1 DEF LiveView
      <4>4. LiveView' = [LiveView EXCEPT ![k] = [owner |-> coll[k].owner, errs |-> n]]
        <5> DEFINE doc == [coll[k] EXCEPT !.errs = n]
        <5>1. IsLive(doc) /\ doc.owner = coll[k].owner /\ doc.errs = n
          BY <4>1 DEF IsLive, Documents
        <5>2. coll' = [coll EXCEPT ![k] = doc]
          BY <4>2
        <5>. HIDE DEF doc
        <5>. QED
          BY <3>1, <5>1, <5>2, ViewOfOneKey
      <4>5. LiveView' = [LiveView EXCEPT ![k] =
                           [owner |-> LiveView[k].owner,
                            errs |-> Registry!Counted(LiveView[k].errs, req[c].failed)]]
        BY <4>3, <4>4
      <4>6. Applied(c) /\ UNCHANGED req
        BY <2>5, <3>2 DEF Update
      <4>. HIDE DEF n
      <4>. QED
        BY <3>1, <3>2, <4>5, <4>6, AppliedView, WritableMatches
           DEF Registry!Touch, Registry!IsOpen, Registry!Acknowledge
    <3>3. CASE ~Writable(coll[k], req[c].owner)
      <4>1. LiveView' = LiveView /\ UNCHANGED req
        BY <2>5, <3>3 DEF Update, LiveView
      <4>2. AnsView' = [AnsView EXCEPT ![c] = "notFound"]
        BY <2>5, <3>3, AnswerView DEF Update
      <4>. QED
        BY <3>1, <3>3, <4>1, <4>2, WritableMatches DEF Registry!Refuse
    <3>. QED
      BY <3>2, <3>3
  <2>6. ASSUME NEW c \in Clients, ChangeOwner(c) PROVE Registry!Reassign(c)
    <3>1. req[c].op = "changeOwner" /\ AnsView[c] = "open"
      BY <2>6 DEF ChangeOwner, CallsOK, CallFits
    <3>2. LiveView' = [k \in Keys |->
                          IF LiveView[k] # Free /\ LiveView[k].owner = req[c].owner
                          THEN [owner |-> req[c].to, errs |-> LiveView[k].errs]
                          ELSE LiveView[k]]
      <4> SUFFICES ASSUME NEW k \in Keys
                   PROVE  LiveView'[k] = IF LiveView[k] # Free /\ LiveView[k].owner = req[c].owner
                                         THEN [owner |-> req[c].to, errs |-> LiveView[k].errs]
                                         ELSE LiveView[k]
        BY DEF LiveView
      <4>1. coll'[k] = IF IsLive(coll[k]) /\ coll[k].owner = req[c].owner
                       THEN [coll[k] EXCEPT !.owner = req[c].to] ELSE coll[k]
        BY <2>6 DEF ChangeOwner
      <4>2. CASE ~IsLive(coll[k])
        BY <4>1, <4>2 DEF LiveView
      <4>3. CASE IsLive(coll[k])
        <5>1. coll[k] \in Documents
          BY <4>3 DEF CollOK, IsLive, Absent
        <5>2. /\ LiveView[k] = [owner |-> coll[k].owner, errs |-> coll[k].errs]
              /\ LiveView[k] # Free
          BY <4>3, <5>1, FreeAssumption DEF LiveView, Registry!Subs, Documents
        <5>. QED
          BY <4>1, <4>3, <5>1, <5>2 DEF LiveView, IsLive, Documents
      <4>. QED
        BY <4>2, <4>3
    <3>. QED
      BY <2>6, <3>1, <3>2, AppliedView
         DEF ChangeOwner, Registry!Reassign, Registry!IsOpen, Registry!Acknowledge
  <2>7. ASSUME NEW c \in Clients, Fail(c) PROVE Registry!Refuse(c)
    <3>1. AnsView[c] = "open" /\ LiveView' = LiveView /\ UNCHANGED req
      BY <2>7 DEF Fail, CallsOK, CallFits, LiveView
    <3>2. AnsView' = [AnsView EXCEPT ![c] = "internal"]
      BY <2>7, AnswerView DEF Fail
    <3>. QED
      BY <3>1, <3>2 DEF Registry!Refuse
  <2>8. ASSUME NEW c \in Clients, Return(c) PROVE Registry!Close(c)
    <3>1. AnsView[c] \in Registry!Answers /\ LiveView' = LiveView
      BY <2>8 DEF Return, CallsOK, CallFits, LiveView
    <3>2. AnsView' = [AnsView EXCEPT ![c] = "idle"]
      BY <2>8 DEF Return, Idle, CallsOK
    <3>. QED
      BY <2>8, <3>1, <3>2 DEF Return, Registry!Close
  <2>9. ASSUME NEW k \in Keys, Expire(k) PROVE UNCHANGED Registry!abstractVars
    <3>1. LiveView' = LiveView
      BY <2>9 DEF Expire, CollOK, LiveView, IsLive, IsTombstone, Absent
    <3>. QED
      BY <2>9, <3>1 DEF Expire, Registry!abstractVars
  <2>10. CASE UNCHANGED vars
    BY <2>10 DEF vars, LiveView, Registry!abstractVars
  <2>. QED
    BY <2>1, <2>2, <2>3, <2>4, <2>5, <2>6, <2>7, <2>8, <2>9, <2>10
       DEF Next, Serve, Registry!AbstractNext
<1>. QED
  BY <1>1, <1>2, TypeCorrect, PTL DEF Spec, ImplementsRegistry, Registry!AbstractSpec
=============================================================================
