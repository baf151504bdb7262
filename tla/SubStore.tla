------------------------------ MODULE SubStore ------------------------------
(***************************************************************************)
(* storage/storage_mongo.go: the subscriptions collection and the calls    *)
(* that write it.  The unique index on (interestId, url) makes the         *)
(* collection a function of that pair.  Each driver call (InsertOne,       *)
(* DeleteOne, UpdateOne, UpdateMany) is one atomic step, may fail before   *)
(* it is applied, and may be applied although the caller sees an error;    *)
(* what runs between two driver calls of a Create can be interleaved with  *)
(* every other caller and with MongoDB's removal of expired tombstones.    *)
(***************************************************************************)
EXTENDS Naturals

CONSTANTS Keys, Clients, Owners, Legacy, Free, NoReq, MaxErrs

ASSUME MaxErrsAssumption == MaxErrs \in Nat

VARIABLES
    coll,       \* the collection: a document, a tombstone or nothing per key
    req,        \* the request a caller is executing
    call,       \* how far it is
    seen        \* history: what became of the key of an open call since it began

vars == <<coll, req, call, seen>>

Absent == [kind |-> "absent"]

Documents ==
    [kind : {"live", "tombstone"}, owner : Owners \cup {Legacy}, errs : 0 .. MaxErrs]

IsLive(doc) == doc.kind = "live"

IsTombstone(doc) == doc.kind = "tombstone"

(* The filter of Update and Delete: live, and owned by the caller or a legacy *)
(* document that has neither group nor user.                                  *)
Writable(doc, owner) == IsLive(doc) /\ doc.owner \in {owner, Legacy}

(* The live documents, seen as the registry this module implements. *)
LiveView ==
    [k \in Keys |-> IF IsLive(coll[k])
                    THEN [owner |-> coll[k].owner, errs |-> coll[k].errs]
                    ELSE Free]

Registry == INSTANCE SubRegistry
              WITH reg <- LiveView, ans <- [c \in Clients |-> call[c].ans]

Requests == Registry!Requests

ASSUME FreeAssumption == Free \notin Registry!Subs
ASSUME NoReqAssumption == NoReq \notin Requests

Steps == {"idle", "InsertOne", "DeleteOne", "UpdateOne", "UpdateMany", "return"}

Idle == [at |-> "idle", ans |-> "idle", nested |-> FALSE, hurt |-> FALSE]

(* What an open creation can learn about its key from the steps of others. *)
Watch ==
    seen' = [c \in Clients |->
        IF call'[c].at = "idle" \/ req'[c].op # "create" THEN {}
        ELSE LET k == req'[c].key IN
             seen[c]
             \cup (IF IsLive(coll'[k]) THEN {"live"} ELSE {})
             \cup (IF /\ call'[c] = call[c]
                      /\ IsTombstone(coll[k])
                      /\ ~IsTombstone(coll'[k]) THEN {"unburied"} ELSE {})]

-----------------------------------------------------------------------------

(* Mutant of Enter: an update is sent as an UpdateMany. *)
EnterUpdateMany(c) ==
    /\ call[c].at = "idle"
    /\ \E r \in Requests :
          /\ req' = [req EXCEPT ![c] = r]
          /\ call' = [call EXCEPT ![c] =
                [Idle EXCEPT !.ans = "open",
                             !.at = CASE r.op = "create" -> "InsertOne"
                                      [] r.op = "delete" -> "UpdateOne"
                                      [] r.op \in {"update", "changeOwner"} -> "UpdateMany"]]
    /\ UNCHANGED coll
    /\ Watch

(* A caller enters Create, Delete, Update or ChangeOwner. *)
Enter(c) ==
    /\ call[c].at = "idle"
    /\ \E r \in Requests :
          /\ req' = [req EXCEPT ![c] = r]
          /\ call' = [call EXCEPT ![c] =
                [Idle EXCEPT !.ans = "open",
                             !.at = CASE r.op = "create" -> "InsertOne"
                                      [] r.op \in {"delete", "update"} -> "UpdateOne"
                                      [] r.op = "changeOwner" -> "UpdateMany"]]
    /\ UNCHANGED coll
    /\ Watch

Reach(c, at, nested) ==
    call' = [call EXCEPT ![c] = [@ EXCEPT !.at = at, !.nested = nested]]

Answer(c, a, hurt) ==
    call' = [call EXCEPT ![c] =
                [@ EXCEPT !.at = "return", !.ans = a, !.hurt = hurt]]

(* The write of the step was applied; its reply arrives or is lost. *)
Applied(c) == \E lost \in BOOLEAN : Answer(c, IF lost THEN "internal" ELSE "ok", lost)

(* Mutant of ConflictAnswer: decodeError does not know duplicate keys. *)
ConflictUnknown(c) == "internal"

(* decodeError of a nested Create rewrites a conflict, already decoded once, *)
(* into an internal failure.                                                 *)
ConflictAnswer(c) == IF call[c].nested THEN "internal" ELSE "conflict"

(* Mutant of InsertOne: every error, not only a duplicate key, sends it to the tombstone. *)
InsertOneAnyError(c) ==
    LET k == req[c].key IN
    /\ call[c].at = "InsertOne"
    /\ \/ /\ coll[k] = Absent
          /\ coll' = [coll EXCEPT ![k] =
                [kind |-> "live", owner |-> req[c].owner, errs |-> 0]]
          /\ Applied(c)
       \/ /\ UNCHANGED coll
          /\ Reach(c, "DeleteOne", call[c].nested)
    /\ UNCHANGED req
    /\ Watch

(* Create: s.coll.InsertOne.  A duplicate key sends it to the tombstone. *)
InsertOne(c) ==
    LET k == req[c].key IN
    /\ call[c].at = "InsertOne"
    /\ \/ /\ coll[k] = Absent
          /\ coll' = [coll EXCEPT ![k] =
                [kind |-> "live", owner |-> req[c].owner, errs |-> 0]]
          /\ Applied(c)
       \/ /\ coll[k] # Absent
          /\ UNCHANGED coll
          /\ Reach(c, "DeleteOne", call[c].nested)
    /\ UNCHANGED req
    /\ Watch

(* Mutant of DeleteOne: the duplicate error stays although a tombstone was deleted. *)
DeleteOneNoRetry(c) ==
    /\ call[c].at = "DeleteOne"
    /\ coll' = [coll EXCEPT ![req[c].key] = IF IsTombstone(@) THEN Absent ELSE @]
    /\ Answer(c, ConflictAnswer(c), FALSE)
    /\ UNCHANGED req
    /\ Watch

(* Mutant of DeleteOne: its filter does not ask for deletedAt. *)
DeleteOneAnyDocument(c) ==
    /\ call[c].at = "DeleteOne"
    /\ coll' = [coll EXCEPT ![req[c].key] = Absent]
    /\ Reach(c, "InsertOne", TRUE)
    /\ UNCHANGED req
    /\ Watch

(* Mutant of DeleteOne: the creation is retried whatever DeletedCount says. *)
DeleteOneAlwaysRetry(c) ==
    /\ call[c].at = "DeleteOne"
    /\ coll' = [coll EXCEPT ![req[c].key] = IF IsTombstone(@) THEN Absent ELSE @]
    /\ Reach(c, "InsertOne", TRUE)
    /\ UNCHANGED req
    /\ Watch

(* Create: s.coll.DeleteOne of the tombstone.  One document deleted: the    *)
(* creation is retried by a nested call; none: the duplicate error stays.   *)
DeleteOne(c) ==
    LET k == req[c].key IN
    /\ call[c].at = "DeleteOne"
    /\ \/ /\ IsTombstone(coll[k])
          /\ coll' = [coll EXCEPT ![k] = Absent]
          /\ \/ Reach(c, "InsertOne", TRUE)
             \/ Answer(c, "internal", TRUE)
       \/ /\ ~IsTombstone(coll[k])
          /\ UNCHANGED coll
          /\ Answer(c, ConflictAnswer(c), FALSE)
    /\ UNCHANGED req
    /\ Watch

(* Delete: s.coll.UpdateOne sets deletedAt. *)
Delete(c) ==
    LET k == req[c].key IN
    /\ call[c].at = "UpdateOne"
    /\ req[c].op = "delete"
    /\ \/ /\ Writable(coll[k], req[c].owner)
          /\ coll' = [coll EXCEPT ![k].kind = "tombstone"]
          /\ Applied(c)
       \/ /\ ~Writable(coll[k], req[c].owner)
          /\ UNCHANGED coll
          /\ Answer(c, "notFound", FALSE)
    /\ UNCHANGED req
    /\ Watch

(* Update: s.coll.UpdateOne counts a failed delivery or resets the counter. *)
Update(c) ==
    LET k == req[c].key IN
    /\ call[c].at = "UpdateOne"
    /\ req[c].op = "update"
    /\ \/ /\ Writable(coll[k], req[c].owner)
          /\ coll' = [coll EXCEPT ![k].errs = Registry!Counted(@, req[c].failed)]
          /\ Applied(c)
       \/ /\ ~Writable(coll[k], req[c].owner)
          /\ UNCHANGED coll
          /\ Answer(c, "notFound", FALSE)
    /\ UNCHANGED req
    /\ Watch

(* ChangeOwner: s.coll.UpdateMany over the live documents of the old owner. *)
ChangeOwner(c) ==
    /\ call[c].at = "UpdateMany"
    /\ coll' = [k \in Keys |->
                  IF IsLive(coll[k]) /\ coll[k].owner = req[c].owner
                  THEN [coll[k] EXCEPT !.owner = req[c].to]
                  ELSE coll[k]]
    /\ Applied(c)
    /\ UNCHANGED req
    /\ Watch

(* A driver call fails before it is applied. *)
Fail(c) ==
    /\ call[c].at \in {"InsertOne", "DeleteOne", "UpdateOne", "UpdateMany"}
    /\ Answer(c, "internal", TRUE)
    /\ UNCHANGED <<coll, req>>
    /\ Watch

Return(c) ==
    /\ call[c].at = "return"
    /\ call' = [call EXCEPT ![c] = Idle]
    /\ req' = [req EXCEPT ![c] = NoReq]
    /\ UNCHANGED coll
    /\ Watch

(* MongoDB's TTL monitor removes a tombstone older than the retention. *)
Expire(k) ==
    /\ IsTombstone(coll[k])
    /\ coll' = [coll EXCEPT ![k] = Absent]
    /\ UNCHANGED <<req, call>>
    /\ Watch

-----------------------------------------------------------------------------

(* A deployment starts on any collection, documents of the version that knew  *)
(* neither group nor user included.                                           *)
Init ==
    /\ coll \in [Keys -> Documents \cup {Absent}]
    /\ req = [c \in Clients |-> NoReq]
    /\ call = [c \in Clients |-> Idle]
    /\ seen = [c \in Clients |-> {}]

(* The steps a caller's goroutine takes by itself once its call is open. *)
Serve(c) ==
    \/ InsertOne(c) \/ DeleteOne(c) \/ Delete(c) \/ Update(c) \/ ChangeOwner(c)
    \/ Return(c)

Next ==
    \/ \E c \in Clients : Enter(c) \/ Serve(c) \/ Fail(c)
    \/ \E k \in Keys : Expire(k)

Spec == Init /\ [][Next]_vars

(* Goroutines are scheduled and the driver's calls end: every open call keeps *)
(* moving.  Nothing makes a caller start a call or MongoDB expire a document. *)
Fairness == \A c \in Clients : WF_vars(Serve(c))

FairSpec == Spec /\ Fairness

-----------------------------------------------------------------------------

CollOK == coll \in [Keys -> Documents \cup {Absent}]

Calls == [at : Steps, ans : Registry!Answers \cup {"idle", "open"},
          nested : BOOLEAN, hurt : BOOLEAN]

(* The step a call stands at, its answer and its request fit each other. *)
CallFits(c) ==
    /\ call[c].at = "idle" => call[c].ans = "idle" /\ req[c] = NoReq
    /\ call[c].at = "return" => call[c].ans \in Registry!Answers
    /\ call[c].at \notin {"idle", "return"} => call[c].ans = "open"
    /\ call[c].at # "idle" => req[c] \in Requests
    /\ call[c].at \in {"InsertOne", "DeleteOne"} => req[c].op = "create"
    /\ call[c].at = "UpdateOne" => req[c].op \in {"delete", "update"}
    /\ call[c].at = "UpdateMany" => req[c].op = "changeOwner"

CallsOK ==
    /\ req \in [Clients -> Requests \cup {NoReq}]
    /\ call \in [Clients -> Calls]
    /\ \A c \in Clients : CallFits(c)

SeenOK == seen \in [Clients -> SUBSET {"live", "unburied"}]

(* Every variable stays in its set, and every call fits its request. *)
TypeOK == CollOK /\ CallsOK /\ SeenOK

(* A creation that stands between its failed InsertOne and its DeleteOne still  *)
(* finds a tombstone, or somebody was subscribed, or somebody else removed the  *)
(* tombstone, since the call began (storage_mongo.go Create).                   *)
DuplicateExplained ==
    \A c \in Clients :
        call[c].at = "DeleteOne" =>
            IsTombstone(coll[req[c].key]) \/ seen[c] \cap {"live", "unburied"} # {}

(* Create answers ErrConflict only if the key was live at some instant of the  *)
(* call, or its tombstone was removed under it by another caller or the TTL    *)
(* monitor (storage_mongo.go Create).                                          *)
ConflictExplained ==
    \A c \in Clients : call[c].ans = "conflict" => seen[c] # {}

(* Create answers an internal failure only if a driver call failed, or if the  *)
(* conflict was met by the nested retry (storage_mongo.go Create, decodeError). *)
InternalExplained ==
    \A c \in Clients :
        call[c].ans = "internal" => call[c].hurt \/ (call[c].nested /\ seen[c] # {})

(* The documented meaning of ErrConflict, "already exists": the key was live at *)
(* some instant of the refused call (storage.go).                              *)
ConflictMeansExists ==
    \A c \in Clients : call[c].ans = "conflict" => "live" \in seen[c]

(* The collection implements the registry: a creation never replaces a live    *)
(* document, nothing but Delete ends one, an update never reaches a tombstone, *)
(* and every answer matches what the call did to the live documents.           *)
ImplementsRegistry == Registry!AbstractSpec

(* Some open call is always answered in the end, however often the retries of  *)
(* concurrent creations and deletions get in each other's way.                 *)
SomeCallIsAnswered ==
    (\E c \in Clients : call[c].at # "idle") ~> (\E c \in Clients : call[c].at = "return")
=============================================================================
