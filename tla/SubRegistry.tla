---------------------------- MODULE SubRegistry ----------------------------
(***************************************************************************)
(* What the storage promises its callers: a registry that maps the pair    *)
(* (interest, url) to at most one live subscription, with calls that take  *)
(* effect at one instant or not at all.  Tombstones, the retry of a        *)
(* creation and the retention of deleted documents are not visible here.   *)
(* SubStore, the MongoDB implementation, is shown to implement it.         *)
(***************************************************************************)
EXTENDS Naturals

CONSTANTS
    Keys,       \* the pairs (interest id, url)
    Clients,    \* concurrent callers of the storage
    Owners,     \* the pairs (group id, user id)
    Legacy,     \* the owner of a record stored without group and user
    Free,       \* a key nobody is subscribed with
    NoReq,      \* the request of a caller that has no open call
    MaxErrs     \* bound on the delivery error counter

VARIABLES
    reg,        \* the live subscriptions
    req,        \* the request of each caller
    ans         \* "idle", "open", or the answer the caller is about to get

abstractVars == <<reg, req, ans>>

Subs == [owner : Owners \cup {Legacy}, errs : 0 .. MaxErrs]

Requests ==
         [op : {"create", "delete"}, key : Keys, owner : Owners]
    \cup [op : {"update"}, key : Keys, owner : Owners, failed : BOOLEAN]
    \cup [op : {"changeOwner"}, owner : Owners, to : Owners]

Answers == {"ok", "conflict", "notFound", "internal"}

(* The delivery error counter after an update. *)
Counted(errs, failed) ==
    IF ~failed THEN 0 ELSE IF errs < MaxErrs THEN errs + 1 ELSE errs

-----------------------------------------------------------------------------

Open(c) ==
    /\ ans[c] = "idle"
    /\ \E r \in Requests : req' = [req EXCEPT ![c] = r]
    /\ ans' = [ans EXCEPT ![c] = "open"]
    /\ UNCHANGED reg

(* An effect is acknowledged, unless the acknowledgement is lost on its way. *)
Acknowledge(c) ==
    /\ ans' \in {[ans EXCEPT ![c] = a] : a \in {"ok", "internal"}}
    /\ UNCHANGED req

IsOpen(c, op) == ans[c] = "open" /\ req[c].op = op

(* The caller's request names a live subscription it may write. *)
Matches(c) ==
    /\ reg[req[c].key] # Free
    /\ reg[req[c].key].owner \in {req[c].owner, Legacy}

Add(c) ==
    /\ IsOpen(c, "create")
    /\ reg[req[c].key] = Free
    /\ reg' = [reg EXCEPT ![req[c].key] = [owner |-> req[c].owner, errs |-> 0]]
    /\ Acknowledge(c)

Remove(c) ==
    /\ IsOpen(c, "delete")
    /\ Matches(c)
    /\ reg' = [reg EXCEPT ![req[c].key] = Free]
    /\ Acknowledge(c)

Touch(c) ==
    /\ IsOpen(c, "update")
    /\ Matches(c)
    /\ reg' = [reg EXCEPT ![req[c].key] =
                  [owner |-> reg[req[c].key].owner,
                   errs |-> Counted(reg[req[c].key].errs, req[c].failed)]]
    /\ Acknowledge(c)

Reassign(c) ==
    /\ IsOpen(c, "changeOwner")
    /\ reg' = [k \in Keys |->
                  IF reg[k] # Free /\ reg[k].owner = req[c].owner
                  THEN [owner |-> req[c].to, errs |-> reg[k].errs]
                  ELSE reg[k]]
    /\ Acknowledge(c)

(* A refused call changes nothing; "not found" is only said of a key that has *)
(* no live subscription the caller may write at that instant.                 *)
Refuse(c) ==
    /\ ans[c] = "open"
    /\ \E a \in {"conflict", "notFound", "internal"} :
          /\ a = "conflict" => req[c].op = "create"
          /\ a = "notFound" => req[c].op \in {"delete", "update"} /\ ~Matches(c)
          /\ ans' = [ans EXCEPT ![c] = a]
    /\ UNCHANGED <<reg, req>>

Close(c) ==
    /\ ans[c] \in Answers
    /\ ans' = [ans EXCEPT ![c] = "idle"]
    /\ req' = [req EXCEPT ![c] = NoReq]
    /\ UNCHANGED reg

AbstractInit ==
    /\ reg \in [Keys -> Subs \cup {Free}]
    /\ req = [c \in Clients |-> NoReq]
    /\ ans = [c \in Clients |-> "idle"]

AbstractNext ==
    \E c \in Clients :
        \/ Open(c) \/ Close(c)
        \/ Add(c) \/ Remove(c) \/ Touch(c) \/ Reassign(c) \/ Refuse(c)

AbstractSpec == AbstractInit /\ [][AbstractNext]_abstractVars
=============================================================================
