----------------------------- MODULE ApiProofs -----------------------------
(***************************************************************************)
(* Theorems about Api, for any number of calls, users, subscriptions and   *)
(* connections: TypeOK, ConnsConserved, AnswersTell and TrimLeavesLimit.    *)
(*                                                                         *)
(* AnswersTell speaks of answers only.  What makes it inductive is         *)
(* Consistent: at every step of a call, what is known of its write, its    *)
(* permit and its errors.  TrimFits does the same for TrimLeavesLimit: all *)
(* that a trim is still going to delete taken off, its user has no more    *)
(* than the limit.                                                         *)
(***************************************************************************)
EXTENDS Api, FiniteSetTheorems, WellFoundedInduction, TLAPS

Trims == {"unsubscribe", "Delete", "DeleteExtra"}
Single == {"unsubscribe", "Delete"}
Writes == {"none", "subscribe", "unsubscribe", "Update", "Delete", "ChangeOwner"}

(* The errors that no handler tells apart from a failure. *)
Quiet == {"service.ErrInternal", "permits.ErrInternal", "storage.ErrInternal"}

(* Nothing happened yet. *)
Fresh(cl) == cl.errs = {} /\ ~cl.did /\ ~cl.permit

(* What an answer tells, before its errors become a status. *)
Told(cl) ==
    /\ cl.errs = {} => cl.did /\ ~cl.permit
    /\ cl.did /\ cl.errs # {} => cl.excused /\ cl.errs \subseteq Quiet
    /\ cl.permit => cl.excused

(* A release gives back the permit of a creation that failed, or of a deletion. *)
Releases(cl) ==
    /\ cl.permit
    /\ \/ /\ cl.op = "subscribe"
          /\ cl.errs \in {{"service.ErrConflict"}, {"service.ErrInternal"}}
          /\ cl.did => cl.excused /\ cl.errs = {"service.ErrInternal"}
       \/ /\ cl.op \in Trims
          /\ cl.errs = {} /\ cl.did
          /\ cl.op \in Single => cl.todo = {cl.key}

Consistent(cl) ==
    /\ cl.at = "idle" => cl.op = "none" /\ Fresh(cl)
    /\ cl.at = "challenge" => cl.op \in {"subscribe", "unsubscribe"} /\ cl.key \in Keys /\ Fresh(cl)
    /\ cl.at \in {"allocate?", "allocate"} => cl.op = "subscribe" /\ Fresh(cl)
    /\ cl.at = "create" => cl.op = "subscribe" /\ cl.errs = {} /\ ~cl.did /\ cl.permit
    /\ cl.at = "query" => Fresh(cl)
    /\ cl.at \in {"setLimit", "find"} => cl.op \notin Writes /\ cl.errs = {} /\ ~cl.permit
    /\ cl.at = "delete" => /\ cl.op \in Trims /\ cl.errs = {} /\ ~cl.permit
                           /\ cl.todo # {}
                           /\ cl.op \in Single => ~cl.did /\ \E k \in Keys : cl.todo = {k}
    /\ cl.at \in {"release?", "release"} => Releases(cl)
    /\ cl.at = "answer" /\ cl.op \in Writes => Told(cl)

IInv == TypeOK /\ ConnsConserved /\ \A c \in Clients : Consistent(call[c])

CallsOK == call \in [Clients -> CallRecords] /\ \A c \in Clients : Consistent(call[c])

-----------------------------------------------------------------------------
(* Calls, whatever the action *)

(* A set of numbers has a least element, *)
LEMMA LeastOf ==
    ASSUME NEW S \in SUBSET Nat, S # {}
    PROVE  \E x \in S : \A y \in S : x =< y
<1> DEFINE less == {p \in Nat \X Nat : p[1] < p[2]}
<1>1. OpToRel(<, Nat) = less
  BY DEF OpToRel
<1>2. PICK x \in S : \A y \in S : <<y, x>> \notin less
  BY <1>1, WFMin, NatLessThanWellFounded
<1>3. ASSUME NEW y \in S
      PROVE  x =< y
  <2> DEFINE p == <<y, x>>
  <2>1. p \in Nat \X Nat /\ p[1] = y /\ p[2] = x
    OBVIOUS
  <2>2. p \notin less
    BY <1>2
  <2>. HIDE DEF p
  <2>3. ~ (p[1] < p[2])
    BY <2>1, <2>2
  <2>. QED
    BY <2>1, <2>3
<1>. QED
  BY <1>3

(* which Min chooses. *)
LEMMA MinIn ==
    ASSUME NEW S \in SUBSET Nat, S # {}
    PROVE  Min(S) \in S
BY LeastOf DEF Min

(* Giving one call a well-formed record keeps the calls well formed. *)
LEMMA CallStep ==
    ASSUME CallsOK, NEW c \in Clients, NEW r \in CallRecords, Consistent(r),
           call' = [call EXCEPT ![c] = r]
    PROVE  CallsOK'
BY DEF CallsOK

(* So does taking keys out of what users had all along. *)
LEMMA LostStep ==
    ASSUME CallsOK, NEW c \in Clients, NEW r \in CallRecords, Consistent(r), NEW ks,
           call' = Lost([call EXCEPT ![c] = r], ks)
    PROVE  CallsOK'
<1> DEFINE calls == [call EXCEPT ![c] = r]
           lose(x) == [x EXCEPT !.kept = @ \ ks]
<1>1. \A x \in CallRecords : lose(x) \in CallRecords /\ (Consistent(x) => Consistent(lose(x)))
  BY DEF CallRecords, Consistent, Fresh, Releases, Told
<1>2. calls \in [Clients -> CallRecords] /\ \A d \in Clients : Consistent(calls[d])
  BY DEF CallsOK
<1>3. call' = [d \in Clients |-> lose(calls[d])]
  BY DEF Lost
<1>. HIDE DEF calls, lose
<1>. QED
  BY <1>1, <1>2, <1>3 DEF CallsOK

(* An idle call is well formed, *)
LEMMA IdleFits == Idle \in CallRecords /\ Consistent(Idle)
BY ApiAssumption DEF Idle, CallRecords, Consistent, Fresh, Places, Numbers

(* and what Done makes of a call keeps its operation and what became of its write. *)
LEMMA DoneFits ==
    ASSUME NEW cl \in CallRecords, NEW errs \in SUBSET Errors
    PROVE  /\ Done(cl, errs) \in CallRecords
           /\ Done(cl, errs).at = "answer" /\ Done(cl, errs).errs = errs
           /\ Done(cl, errs).op = cl.op /\ Done(cl, errs).did = cl.did
           /\ Done(cl, errs).permit = cl.permit /\ Done(cl, errs).excused = cl.excused
<1>1. "answer" \in Places /\ None \in Users \cup {None} /\ 0 \in Keys \cup {0} /\ 0 \in Numbers
  BY ApiAssumption DEF Places, Numbers
<1> DEFINE misled == errs = {} /\ cl.misled
           kept == IF errs = {} THEN cl.kept ELSE {}
           r == [cl EXCEPT !.at = "answer", !.errs = errs, !.user = None, !.key = 0, !.list = 0,
                           !.todo = {}, !.kept = kept, !.misled = misled]
<1>2. misled \in BOOLEAN /\ kept \in SUBSET Keys
  BY DEF CallRecords
<1>3. Done(cl, errs) = r
  BY DEF Done, CallRecords
<1>. HIDE DEF misled, kept
<1>4. /\ r \in CallRecords
      /\ r.at = "answer" /\ r.errs = errs /\ r.op = cl.op /\ r.did = cl.did
      /\ r.permit = cl.permit /\ r.excused = cl.excused
  BY <1>1, <1>2 DEF CallRecords
<1>. QED
  BY <1>3, <1>4

(* A call that answers is well formed if the answer tells what it must. *)
LEMMA AnswerFits ==
    ASSUME NEW r, r.at = "answer", r.op \in Writes => Told(r)
    PROVE  Consistent(r)
BY DEF Consistent

-----------------------------------------------------------------------------
(* Steps, by what they do to the pool *)

Rest == live' \in [Keys -> Users \cup {None}] /\ opts' \in Numbers

(* The call c keeps what it has of the pool, *)
LEMMA Stays ==
    ASSUME IInv, Rest, NEW c \in Clients, NEW r \in CallRecords, Consistent(r),
           r.at \notin {"allocate", "release"}, call[c].at \notin {"allocate", "release"},
           NEW ks,
           \/ call' = [call EXCEPT ![c] = r]
           \/ call' = Lost([call EXCEPT ![c] = r], ks),
           free' = free
    PROVE  IInv'
<1>1. CallsOK
  BY DEF IInv, TypeOK, CallsOK
<1>2. CallsOK'
  BY <1>1, CallStep, LostStep
<1>3. Holders' = Holders
  BY <1>1 DEF Holders, CallsOK, Lost, CallRecords
<1>. QED
  BY <1>2, <1>3 DEF IInv, TypeOK, ConnsConserved, CallsOK, Rest

(* takes a connection, *)
LEMMA Takes ==
    ASSUME IInv, Rest, NEW c \in Clients, NEW r \in CallRecords, Consistent(r),
           r.at \in {"allocate", "release"}, call[c].at \notin {"allocate", "release"},
           call' = [call EXCEPT ![c] = r], free > 0, free' = free - 1
    PROVE  IInv'
<1>1. CallsOK
  BY DEF IInv, TypeOK, CallsOK
<1>2. CallsOK'
  BY <1>1, CallStep
<1>3. Holders' = Holders \cup {c} /\ c \notin Holders
  BY <1>1 DEF Holders, CallsOK
<1>4. IsFiniteSet(Holders)
  BY ApiAssumption, FS_Subset DEF Holders
<1>5. Cardinality(Holders') = Cardinality(Holders) + 1
  BY <1>3, <1>4, FS_AddElement
<1>6. Cardinality(Holders) \in Nat
  BY <1>4, FS_CardinalityType
<1>7. free' \in 0 .. MaxConns /\ free' + Cardinality(Holders)' = MaxConns
  BY <1>5, <1>6, ApiAssumption DEF IInv, TypeOK, ConnsConserved
<1>. QED
  BY <1>2, <1>7 DEF IInv, TypeOK, ConnsConserved, CallsOK, Rest

(* or gives one back. *)
LEMMA GivesBack ==
    ASSUME IInv, Rest, NEW c \in Clients, NEW r \in CallRecords, Consistent(r),
           r.at \notin {"allocate", "release"}, call[c].at \in {"allocate", "release"},
           call' = [call EXCEPT ![c] = r], free' = free + 1
    PROVE  IInv'
<1>1. CallsOK
  BY DEF IInv, TypeOK, CallsOK
<1>2. CallsOK'
  BY <1>1, CallStep
<1>3. Holders' = Holders \ {c} /\ c \in Holders
  BY <1>1 DEF Holders, CallsOK
<1>4. IsFiniteSet(Holders)
  BY ApiAssumption, FS_Subset DEF Holders
<1>5. Cardinality(Holders') = Cardinality(Holders) - 1
  BY <1>3, <1>4, FS_RemoveElement
<1>6. Cardinality(Holders) \in Nat /\ Cardinality(Holders') \in Nat
  BY <1>3, <1>4, FS_CardinalityType, FS_RemoveElement
<1>7. free' \in 0 .. MaxConns /\ free' + Cardinality(Holders)' = MaxConns
  BY <1>5, <1>6, ApiAssumption DEF IInv, TypeOK, ConnsConserved
<1>. QED
  BY <1>2, <1>7 DEF IInv, TypeOK, ConnsConserved, CallsOK, Rest

(* A call that ends where it is, with what became of its write unchanged. *)
LEMMA EndsKeeps ==
    ASSUME IInv, UNCHANGED <<live, opts, free>>, NEW c \in Clients, NEW errs \in SUBSET Errors,
           Ends(c, errs), call[c].at \notin {"allocate", "release"},
           call[c].op \in Writes => errs # {} /\ ~call[c].did /\ ~call[c].permit
    PROVE  IInv'
<1> DEFINE r == Done(call[c], errs)
<1>1. call[c] \in CallRecords
  BY DEF IInv, TypeOK
<1>2. /\ r \in CallRecords
      /\ r.at = "answer" /\ r.errs = errs
      /\ r.op = call[c].op /\ r.did = call[c].did /\ r.permit = call[c].permit
  BY <1>1, DoneFits
<1>3. call' = [call EXCEPT ![c] = r]
  BY DEF Ends, Step
<1>4. Rest
  BY DEF IInv, TypeOK, Rest
<1>. HIDE DEF r
<1>5. Consistent(r)
  BY <1>2, AnswerFits DEF Told
<1>. QED
  BY <1>2, <1>3, <1>4, <1>5, Stays

-----------------------------------------------------------------------------
(* The actions *)

LEMMA RefuseKeeps == ASSUME IInv, NEW c \in Clients, Refuse(c) PROVE IInv'
<1>1. PICK e \in AuthErrors \cup RequestErrors : Ends(c, {e})
  BY DEF Refuse
<1>2. call[c].at = "idle" /\ UNCHANGED <<live, opts, free>>
  BY DEF Refuse, At
<1>3. ~call[c].did /\ ~call[c].permit
  BY <1>2 DEF IInv, Consistent, Fresh
<1>4. {e} \in SUBSET Errors
  BY DEF Errors
<1>. QED
  BY <1>1, <1>2, <1>3, <1>4, EndsKeeps

(* The place at which an operation may begin. *)
Opening(op, place) ==
    \/ op \in {"subscribe", "unsubscribe"} /\ place = "challenge"
    \/ op \in {"listByUser", "ListByInterest", "CountUser", "DeleteExtra"} /\ place = "setLimit"
    \/ op = "Delete" /\ place = "delete"
    \/ place = "query"

LEMMA BeginKeeps ==
    ASSUME IInv, NEW c \in Clients, NEW op \in HttpOps \cup GrpcOps, NEW place,
           Opening(op, place), Begin(c, op, place)
    PROVE  IInv'
<1>1. PICK u \in UsersOf(op), k \in KeysOf(op), n \in LimitsOf(op) :
          call' = [call EXCEPT ![c] =
              [Idle EXCEPT !.at = place, !.op = op, !.user = u, !.key = k,
                           !.limit = IF op = "DeleteExtra" THEN n ELSE 0, !.list = n,
                           !.todo = IF op = "Delete" THEN {k} ELSE {},
                           !.kept = IF op = "DeleteExtra" THEN Owned(u) ELSE {}]]
  BY DEF Begin, Step
<1> DEFINE todo == IF op = "Delete" THEN {k} ELSE {}
           kept == IF op = "DeleteExtra" THEN Owned(u) ELSE {}
           limit == IF op = "DeleteExtra" THEN n ELSE 0
           r == [Idle EXCEPT !.at = place, !.op = op, !.user = u, !.key = k, !.limit = limit,
                             !.list = n, !.todo = todo, !.kept = kept]
<1>2. u \in Users \cup {None} /\ k \in Keys \cup {0} /\ n \in Numbers
  BY ApiAssumption DEF UsersOf, KeysOf, LimitsOf, Numbers
<1>3. /\ limit \in Numbers /\ kept \in SUBSET Keys
      /\ todo \in SUBSET Keys
      /\ op \in {"subscribe", "unsubscribe", "Delete"} => k \in Keys
      /\ op = "Delete" => todo = {k}
  BY <1>2, ApiAssumption DEF Numbers, Owned, KeysOf
<1>4. place \in Places \ {"idle", "allocate", "release"}
  BY DEF Opening, Places
<1>. HIDE DEF limit, kept, todo
<1>5. r \in CallRecords
  BY <1>2, <1>3, <1>4, IdleFits DEF CallRecords, Idle
<1>6. /\ r.at = place /\ r.op = op /\ r.todo = todo /\ r.key = k
      /\ r.errs = {} /\ r.did = FALSE /\ r.permit = FALSE
  BY DEF Idle
<1>. HIDE DEF r
<1>7. Consistent(r)
  BY <1>3, <1>6 DEF Consistent, Fresh, Opening, Trims, Single, Writes
<1>8. Rest /\ call[c].at = "idle" /\ free' = free
  BY DEF IInv, TypeOK, Rest, Begin, At
<1>9. call' = [call EXCEPT ![c] = r]
  BY <1>1 DEF r, limit, kept, todo
<1>. QED
  BY <1>4, <1>5, <1>6, <1>7, <1>8, <1>9, Stays

LEMMA ArriveKeeps == ASSUME IInv, NEW c \in Clients, Authorize(c) \/ Arrive(c) PROVE IInv'
<1>1. PICK op \in HttpOps \cup GrpcOps, place \in Places : Opening(op, place) /\ Begin(c, op, place)
  <2>1. CASE Authorize(c)
    BY <2>1, ApiAssumption DEF Authorize, Opening, Places
  <2>2. CASE Arrive(c)
    BY <2>2, ApiAssumption DEF Arrive, Opening, Places
  <2>. QED
    BY <2>1, <2>2
<1>. QED
  BY <1>1, BeginKeeps

(* What every step of an existing call starts from. *)
LEMMA CallKnown ==
    ASSUME IInv, NEW c \in Clients
    PROVE  /\ call[c] \in CallRecords /\ Consistent(call[c])
           /\ (UNCHANGED <<live, opts>>) => Rest
BY DEF IInv, TypeOK, Rest

LEMMA ChallengeKeeps == ASSUME IInv, NEW c \in Clients, Challenge(c) PROVE IInv'
<1> DEFINE cl == call[c]
<1>1. /\ cl \in CallRecords /\ cl.at = "challenge" /\ Rest /\ UNCHANGED <<live, opts, free>>
      /\ cl.op \in {"subscribe", "unsubscribe"} /\ cl.key \in Keys /\ Fresh(cl)
  BY CallKnown DEF Challenge, At, Consistent
<1>2. CASE cl.op = "subscribe" /\ Goto(c, "allocate?")
  <2> DEFINE r == [cl EXCEPT !.at = "allocate?"]
  <2>1. r \in CallRecords /\ r.at = "allocate?" /\ r.op = "subscribe" /\ Fresh(r)
    BY <1>1, <1>2 DEF CallRecords, Places, Fresh
  <2>2. call' = [call EXCEPT ![c] = r]
    BY <1>2 DEF Goto
  <2>. HIDE DEF r
  <2>3. Consistent(r)
    BY <2>1 DEF Consistent
  <2>. QED
    BY <1>1, <2>1, <2>2, <2>3, Stays
<1>3. CASE cl.op = "unsubscribe" /\ Step(c, [cl EXCEPT !.at = "delete", !.todo = {cl.key}])
  <2> DEFINE r == [cl EXCEPT !.at = "delete", !.todo = {cl.key}]
  <2>1. r \in CallRecords /\ r.at = "delete" /\ r.op = "unsubscribe" /\ Fresh(r) /\ r.todo = {cl.key}
    BY <1>1, <1>3 DEF CallRecords, Places, Fresh
  <2>2. call' = [call EXCEPT ![c] = r]
    BY <1>3 DEF Step
  <2>. HIDE DEF r
  <2>3. Consistent(r)
    BY <1>1, <2>1 DEF Consistent, Fresh, Trims, Single
  <2>. QED
    BY <1>1, <2>1, <2>2, <2>3, Stays
<1>4. CASE \E e \in {"errCallback", "network"} : Ends(c, {e})
  <2>1. PICK e \in {"errCallback", "network"} : Ends(c, {e})
    BY <1>4
  <2>2. {e} \in SUBSET Errors
    BY DEF Errors
  <2>. QED
    BY <1>1, <2>1, <2>2, EndsKeeps DEF Fresh
<1>. QED
  BY <1>2, <1>3, <1>4 DEF Challenge

LEMMA AcquireKeeps == ASSUME IInv, NEW c \in Clients, Acquire(c) PROVE IInv'
<1>1. /\ call[c] \in CallRecords /\ Consistent(call[c]) /\ Rest
      /\ free > 0 /\ free' = free - 1
  BY CallKnown DEF Acquire
<1>2. PICK place \in {"allocate", "release"} :
        /\ call' = [call EXCEPT ![c] = [call[c] EXCEPT !.at = place]]
        /\ \/ place = "allocate" /\ call[c].at = "allocate?"
           \/ place = "release" /\ call[c].at = "release?"
  BY DEF Acquire, At, Goto
<1> DEFINE r == [call[c] EXCEPT !.at = place]
<1>3. r \in CallRecords
  BY <1>1 DEF CallRecords, Places
<1>4. /\ r.at = place /\ r.op = call[c].op /\ r.errs = call[c].errs /\ r.did = call[c].did
      /\ r.permit = call[c].permit /\ r.excused = call[c].excused
      /\ r.todo = call[c].todo /\ r.key = call[c].key
  BY <1>1 DEF CallRecords
<1>. HIDE DEF r
<1>5. Consistent(r)
  BY <1>1, <1>2, <1>4 DEF Consistent, Fresh, Releases
<1>. QED
  BY <1>1, <1>2, <1>3, <1>4, <1>5, Takes DEF r

LEMMA GiveUpKeeps == ASSUME IInv, NEW c \in Clients, GiveUp(c) PROVE IInv'
<1> DEFINE errs == {"permits.ErrInternal"}
           d == Done(call[c], errs)
           r == [d EXCEPT !.excused = TRUE]
<1>1. /\ call[c] \in CallRecords /\ Consistent(call[c]) /\ Rest /\ free' = free
      /\ call[c].at = "release?" /\ call' = [call EXCEPT ![c] = r]
  BY CallKnown DEF GiveUp, At, Step
<1>2. errs \in SUBSET Errors /\ errs \subseteq Quiet /\ errs # {}
  BY DEF Errors, Quiet
<1>. HIDE DEF errs
<1>3. d \in CallRecords /\ d.at = "answer" /\ d.errs = errs
  BY <1>1, <1>2, DoneFits
<1>. HIDE DEF d
<1>4. r \in CallRecords /\ r.at = "answer" /\ r.errs = errs /\ r.excused
  BY <1>3 DEF CallRecords
<1>. HIDE DEF r
<1>5. Consistent(r)
  BY <1>2, <1>4, AnswerFits DEF Told
<1>. QED
  BY <1>1, <1>4, <1>5, Stays

LEMMA AllocateKeeps == ASSUME IInv, NEW c \in Clients, Allocate(c) PROVE IInv'
<1> DEFINE cl == call[c]
           lost == Done(cl, {"permits.ErrInternal"})
<1>1. /\ cl \in CallRecords /\ cl.at = "allocate" /\ cl.op = "subscribe" /\ Fresh(cl)
      /\ Rest /\ free' = free + 1
  BY CallKnown DEF Allocate, At, Consistent
<1>2. PICK r : /\ call' = [call EXCEPT ![c] = r]
               /\ \/ r = [cl EXCEPT !.at = "create", !.permit = TRUE]
                  \/ r = Done(cl, {"service.ErrPermitExhausted"})
                  \/ r = Done(cl, {"permits.ErrInternal"})
                  \/ r = [lost EXCEPT !.permit = TRUE, !.excused = TRUE]
  BY DEF Allocate, Step, Ends
<1>3. CASE r = [cl EXCEPT !.at = "create", !.permit = TRUE]
  <2>1. r \in CallRecords /\ r.at = "create" /\ r.op = "subscribe" /\ r.errs = {} /\ ~r.did /\ r.permit
    BY <1>1, <1>3 DEF CallRecords, Places, Fresh
  <2>2. Consistent(r)
    BY <2>1 DEF Consistent
  <2>. QED
    BY <1>1, <1>2, <2>1, <2>2, GivesBack
<1>4. ASSUME NEW e \in {"service.ErrPermitExhausted", "permits.ErrInternal"}, r = Done(cl, {e})
      PROVE  IInv'
  <2>1. {e} \in SUBSET Errors
    BY DEF Errors
  <2>2. r \in CallRecords /\ r.at = "answer" /\ r.errs = {e} /\ ~r.did /\ ~r.permit
    BY <1>1, <1>4, <2>1, DoneFits DEF Fresh
  <2>3. Consistent(r)
    BY <2>2, AnswerFits DEF Told
  <2>. QED
    BY <1>1, <1>2, <2>2, <2>3, GivesBack
<1>5. CASE r = [lost EXCEPT !.permit = TRUE, !.excused = TRUE]
  <2>1. {"permits.ErrInternal"} \in SUBSET Errors
    BY DEF Errors
  <2>2. lost \in CallRecords /\ lost.at = "answer" /\ lost.errs = {"permits.ErrInternal"} /\ ~lost.did
    BY <1>1, <2>1, DoneFits DEF Fresh
  <2>. HIDE DEF lost
  <2>3. r \in CallRecords /\ r.at = "answer" /\ r.errs # {} /\ ~r.did /\ r.excused
    BY <1>5, <2>2 DEF CallRecords
  <2>4. Consistent(r)
    BY <2>3, AnswerFits DEF Told
  <2>. QED
    BY <1>1, <1>2, <2>3, <2>4, GivesBack
<1>. QED
  BY <1>2, <1>3, <1>4, <1>5

(* What a release leaves of a call, if it reports no error *)
LEMMA ReleasedFits ==
    ASSUME IInv, NEW c \in Clients, call[c].at = "release"
    PROVE  LET r == [Released(c, {}) EXCEPT !.permit = FALSE]
           IN r \in CallRecords /\ Consistent(r) /\ r.at \in {"delete", "answer"}
<1> DEFINE cl == call[c]
           left == cl.todo \ {cl.key}
           d == Done(cl, cl.errs)
<1>1. cl \in CallRecords /\ Releases(cl)
  BY CallKnown DEF Consistent
<1>2. CASE cl.errs = {} /\ left # {}
  <2> DEFINE more == [cl EXCEPT !.at = "delete", !.todo = left]
             r == [more EXCEPT !.permit = FALSE]
  <2>1. Released(c, {}) = more
    BY <1>2 DEF Released
  <2>2. cl.op = "DeleteExtra"
    BY <1>1, <1>2 DEF Releases, Trims, Single
  <2>3. r \in CallRecords
    BY <1>1 DEF CallRecords, Places
  <2>4. /\ r.at = "delete" /\ r.op = "DeleteExtra" /\ r.errs = {}
        /\ r.permit = FALSE /\ r.todo = left
    BY <1>1, <1>2, <2>2 DEF CallRecords
  <2>. HIDE DEF r, left
  <2>5. Consistent(r)
    BY <1>2, <2>4 DEF Consistent, Trims, Single
  <2>. QED
    BY <2>1, <2>3, <2>4, <2>5 DEF r
<1>3. CASE ~ (cl.errs = {} /\ left # {})
  <2> DEFINE r == [d EXCEPT !.permit = FALSE]
  <2>1. Released(c, {}) = d
    BY <1>3 DEF Released
  <2>2. cl.errs \in SUBSET Errors
    BY <1>1 DEF CallRecords
  <2>3. /\ d \in CallRecords /\ d.at = "answer" /\ d.errs = cl.errs
        /\ d.op = cl.op /\ d.did = cl.did /\ d.excused = cl.excused
    BY <1>1, <2>2, DoneFits
  <2>. HIDE DEF d
  <2>4. /\ r \in CallRecords /\ r.at = "answer" /\ r.errs = cl.errs
        /\ r.op = cl.op /\ r.did = cl.did /\ r.excused = cl.excused /\ r.permit = FALSE
    BY <2>3 DEF CallRecords
  <2>. HIDE DEF r
  <2>5. Consistent(r)
    BY <1>1, <2>4, AnswerFits DEF Told, Releases, Quiet
  <2>. QED
    BY <2>1, <2>4, <2>5 DEF r
<1>. QED
  BY <1>2, <1>3

(* and if it reports one, whether or not the permit was given back. *)
LEMMA ReleaseLostFits ==
    ASSUME IInv, NEW c \in Clients, call[c].at = "release", NEW kept \in BOOLEAN
    PROVE  LET r == [Released(c, {"permits.ErrInternal"}) EXCEPT !.permit = kept, !.excused = TRUE]
           IN r \in CallRecords /\ Consistent(r) /\ r.at = "answer"
<1> DEFINE cl == call[c]
           errs == cl.errs \cup {"permits.ErrInternal"}
           d == Done(cl, errs)
           r == [d EXCEPT !.permit = kept, !.excused = TRUE]
<1>1. cl \in CallRecords /\ Releases(cl)
  BY CallKnown DEF Consistent
<1>2. errs \in SUBSET Errors /\ errs # {}
  BY <1>1 DEF CallRecords, Errors
<1>3. cl.did => errs \subseteq Quiet
  BY <1>1 DEF Releases, Quiet
<1>4. Released(c, {"permits.ErrInternal"}) = d
  BY DEF Released
<1>. HIDE DEF errs
<1>5. /\ d \in CallRecords /\ d.at = "answer" /\ d.errs = errs
      /\ d.op = cl.op /\ d.did = cl.did
  BY <1>1, <1>2, DoneFits
<1>. HIDE DEF d
<1>6. /\ r \in CallRecords /\ r.at = "answer" /\ r.errs = errs
      /\ r.did = cl.did /\ r.excused
  BY <1>5 DEF CallRecords
<1>. HIDE DEF r
<1>7. Consistent(r)
  BY <1>2, <1>3, <1>6, AnswerFits DEF Told
<1>. QED
  BY <1>4, <1>6, <1>7 DEF r

LEMMA ReleaseKeeps == ASSUME IInv, NEW c \in Clients, Release(c) PROVE IInv'
<1>1. call[c].at = "release" /\ Rest /\ free' = free + 1
  BY CallKnown DEF Release, At
<1>2. PICK r : /\ call' = [call EXCEPT ![c] = r]
               /\ r \in CallRecords /\ Consistent(r) /\ r.at \in {"delete", "answer"}
  <2>1. CASE Step(c, [Released(c, {}) EXCEPT !.permit = FALSE])
    BY <1>1, <2>1, ReleasedFits DEF Step
  <2>2. CASE \E kept \in BOOLEAN :
               Step(c, [Released(c, {"permits.ErrInternal"}) EXCEPT !.permit = kept, !.excused = TRUE])
    BY <1>1, <2>2, ReleaseLostFits DEF Step
  <2>. QED
    BY <2>1, <2>2 DEF Release
<1>. QED
  BY <1>1, <1>2, GivesBack

LEMMA CreatedKeeps == ASSUME IInv, NEW c \in Clients, Created(c) PROVE IInv'
<1> DEFINE cl == call[c]
           d == Done(cl, {})
           told == [d EXCEPT !.did = TRUE, !.permit = FALSE]
           lost == [cl EXCEPT !.at = "release?", !.did = TRUE, !.excused = TRUE,
                              !.errs = {"service.ErrInternal"}, !.key = 0]
<1>1. /\ cl \in CallRecords /\ cl.at = "create" /\ cl.op = "subscribe" /\ cl.permit
      /\ free' = free /\ opts' = opts
      /\ live' = [live EXCEPT ![cl.key] = cl.user]
  BY CallKnown DEF Created, At, Consistent
<1>2. Rest
  BY <1>1 DEF IInv, TypeOK, Rest, CallRecords
<1>3. call' = [call EXCEPT ![c] = told] \/ call' = [call EXCEPT ![c] = lost]
  BY DEF Created, Step
<1>4. told \in CallRecords /\ told.at = "answer" /\ Consistent(told)
  <2>1. d \in CallRecords /\ d.at = "answer" /\ d.errs = {}
    BY <1>1, DoneFits
  <2>. HIDE DEF d
  <2>2. told \in CallRecords /\ told.at = "answer" /\ told.errs = {} /\ told.did /\ ~told.permit
    BY <2>1 DEF CallRecords
  <2>. HIDE DEF told
  <2>. QED
    BY <2>2, AnswerFits DEF Told
<1>5. lost \in CallRecords /\ lost.at = "release?" /\ Consistent(lost)
  <2>1. {"service.ErrInternal"} \in SUBSET Errors
    BY DEF Errors
  <2>2. lost \in CallRecords
    BY <1>1, <2>1 DEF CallRecords, Places
  <2>3. /\ lost.at = "release?" /\ lost.op = "subscribe" /\ lost.permit
        /\ lost.errs = {"service.ErrInternal"} /\ lost.excused
    BY <1>1 DEF CallRecords
  <2>. HIDE DEF lost
  <2>. QED
    BY <2>2, <2>3 DEF Consistent, Releases
<1>. HIDE DEF told, lost
<1>. QED
  BY <1>1, <1>2, <1>3, <1>4, <1>5, Stays

LEMMA NotCreatedKeeps == ASSUME IInv, NEW c \in Clients, NotCreated(c) PROVE IInv'
<1> DEFINE cl == call[c]
<1>1. /\ cl \in CallRecords /\ cl.at = "create" /\ cl.op = "subscribe" /\ cl.permit /\ ~cl.did
      /\ free' = free /\ Rest
  BY CallKnown DEF NotCreated, At, Consistent
<1>2. PICK e \in {"service.ErrConflict", "service.ErrInternal"} :
        call' = [call EXCEPT ![c] = [cl EXCEPT !.at = "release?", !.errs = {e}, !.key = 0]]
  BY DEF NotCreated, Step
<1> DEFINE r == [cl EXCEPT !.at = "release?", !.errs = {e}, !.key = 0]
<1>3. {e} \in SUBSET Errors
  BY DEF Errors
<1>4. r \in CallRecords
  BY <1>1, <1>3 DEF CallRecords, Places
<1>5. r.at = "release?" /\ r.op = "subscribe" /\ r.permit /\ ~r.did /\ r.errs = {e}
  BY <1>1 DEF CallRecords
<1>. HIDE DEF r
<1>6. Consistent(r)
  BY <1>5 DEF Consistent, Releases
<1>. QED
  BY <1>1, <1>2, <1>4, <1>5, <1>6, Stays DEF r

LEMMA DeletedKeeps == ASSUME IInv, NEW c \in Clients, Deleted(c) PROVE IInv'
<1> DEFINE cl == call[c]
           k == Min(cl.todo)
           deletes == [cl EXCEPT !.key = k, !.did = TRUE, !.permit = TRUE]
           next == [deletes EXCEPT !.at = "release?"]
           d == Done(deletes, {"service.ErrInternal"})
           lost == [d EXCEPT !.excused = TRUE]
<1>1. /\ cl \in CallRecords /\ cl.at = "delete" /\ cl.op \in Trims /\ cl.errs = {}
      /\ cl.todo # {}
      /\ cl.op \in Single => \E j \in Keys : cl.todo = {j}
  BY CallKnown DEF Deleted, At, Consistent
<1>2. /\ free' = free /\ opts' = opts /\ live' = [live EXCEPT ![k] = None]
      /\ \/ call' = Lost([call EXCEPT ![c] = next], {k})
         \/ call' = Lost([call EXCEPT ![c] = lost], {k})
  BY DEF Deleted
<1>3. Rest
  BY <1>2 DEF IInv, TypeOK, Rest
<1>4. k \in cl.todo /\ k \in Keys
  BY <1>1, MinIn, ApiAssumption DEF CallRecords
<1>. HIDE DEF k
<1>5. /\ deletes \in CallRecords /\ deletes.at = "delete" /\ deletes.op = cl.op /\ deletes.errs = {}
      /\ deletes.todo = cl.todo /\ deletes.key = k /\ deletes.did = TRUE /\ deletes.permit = TRUE
  BY <1>1, <1>4 DEF CallRecords
<1>. HIDE DEF deletes
<1>6. next \in CallRecords /\ next.at = "release?" /\ Consistent(next)
  <2>1. /\ next \in CallRecords /\ next.at = "release?" /\ next.op = cl.op /\ next.errs = {}
        /\ next.todo = cl.todo /\ next.key = k /\ next.did = TRUE /\ next.permit = TRUE
    BY <1>5 DEF CallRecords, Places
  <2>. HIDE DEF next
  <2>2. cl.op \in Single => cl.todo = {k}
    BY <1>1, <1>4
  <2>. QED
    BY <1>1, <2>1, <2>2 DEF Consistent, Releases
<1>7. lost \in CallRecords /\ lost.at = "answer" /\ Consistent(lost)
  <2>1. {"service.ErrInternal"} \in SUBSET Errors
    BY DEF Errors
  <2>2. d \in CallRecords /\ d.at = "answer" /\ d.errs = {"service.ErrInternal"}
    BY <1>5, <2>1, DoneFits
  <2>. HIDE DEF d
  <2>3. /\ lost \in CallRecords /\ lost.at = "answer" /\ lost.excused
        /\ lost.errs = {"service.ErrInternal"}
    BY <2>2 DEF CallRecords
  <2>. HIDE DEF lost
  <2>. QED
    BY <2>3, AnswerFits DEF Told, Quiet
<1>. HIDE DEF next, lost
<1>8. cl.at \notin {"allocate", "release"}
  BY <1>1
<1>. QED
  BY <1>2, <1>3, <1>6, <1>7, <1>8, Stays

LEMMA NotDeletedKeeps == ASSUME IInv, NEW c \in Clients, NotDeleted(c) PROVE IInv'
<1>1. /\ call[c].at = "delete" /\ ~call[c].permit /\ UNCHANGED <<live, opts, free>>
      /\ call[c].op \in Trims
      /\ call[c].op \in Single => ~call[c].did
  BY CallKnown DEF NotDeleted, At, Consistent
<1>2. PICK e \in {"service.ErrNotFound", "service.ErrInternal"} : Ends(c, {e})
  BY DEF NotDeleted
<1>3. {e} \in SUBSET Errors
  BY DEF Errors
<1>. QED
  BY <1>1, <1>2, <1>3, EndsKeeps DEF Writes, Trims, Single

LEMMA QueryKeeps == ASSUME IInv, NEW c \in Clients, Query(c) PROVE IInv'
<1> DEFINE cl == call[c]
           writes == cl.op = "Update"
           quiet == {"service.ErrInternal"}
           d == Done(cl, {})
           done == [d EXCEPT !.did = writes]
           l == Done(cl, quiet)
           lost == [l EXCEPT !.did = TRUE, !.excused = TRUE]
<1>1. /\ cl \in CallRecords /\ cl.at = "query" /\ cl.op \in {"read", "Update"}
      /\ Fresh(cl) /\ Rest /\ UNCHANGED <<live, opts, free>>
  BY CallKnown DEF Query, At, Consistent
<1>2. {} \in SUBSET Errors /\ quiet \in SUBSET Errors /\ {"service.ErrNotFound"} \in SUBSET Errors
  BY DEF Errors
<1>3. CASE Ends(c, {"service.ErrNotFound"}) \/ Ends(c, quiet)
  BY <1>1, <1>2, <1>3, EndsKeeps DEF Fresh
<1>4. CASE call' = [call EXCEPT ![c] = done]
  <2>1. writes \in BOOLEAN
    OBVIOUS
  <2>2. d \in CallRecords /\ d.at = "answer" /\ d.errs = {} /\ d.op = cl.op /\ ~d.permit
    BY <1>1, <1>2, DoneFits DEF Fresh
  <2>3. writes <=> cl.op = "Update"
    OBVIOUS
  <2>. HIDE DEF d, writes
  <2>4. /\ done \in CallRecords /\ done.at = "answer" /\ done.errs = {} /\ done.op = cl.op
        /\ done.did = writes /\ ~done.permit
    BY <2>1, <2>2 DEF CallRecords
  <2>. HIDE DEF done
  <2>5. Consistent(done)
    BY <1>1, <2>3, <2>4, AnswerFits DEF Told, Writes
  <2>. QED
    BY <1>1, <1>4, <2>4, <2>5, Stays
<1>5. CASE call' = [call EXCEPT ![c] = lost]
  <2>1. l \in CallRecords /\ l.at = "answer" /\ l.errs = quiet
    BY <1>1, <1>2, DoneFits
  <2>. HIDE DEF l
  <2>2. lost \in CallRecords /\ lost.at = "answer" /\ lost.errs = quiet /\ lost.excused
    BY <2>1 DEF CallRecords
  <2>. HIDE DEF lost
  <2>3. Consistent(lost)
    BY <2>2, AnswerFits DEF Told, Quiet
  <2>. QED
    BY <1>1, <1>5, <2>2, <2>3, Stays
<1>. QED
  BY <1>3, <1>4, <1>5 DEF Query, Step

LEMMA TotalKeeps == ASSUME IInv, NEW c \in Clients, Total(c) PROVE IInv'
<1>1. /\ call[c].at = "query" /\ call[c].op \notin Writes /\ UNCHANGED <<live, opts, free>>
  BY DEF Total, At, Writes
<1>2. PICK errs \in {{}, {"service.ErrInternal"}} : Ends(c, errs)
  BY DEF Total
<1>3. errs \in SUBSET Errors
  BY DEF Errors
<1>. QED
  BY <1>1, <1>2, <1>3, EndsKeeps

LEMMA ChangeOwnerKeeps == ASSUME IInv, NEW c \in Clients, ChangeOwner(c) PROVE IInv'
<1> DEFINE cl == call[c]
<1>1. /\ cl \in CallRecords /\ cl.at = "query" /\ Fresh(cl) /\ opts' = opts /\ free' = free
  BY CallKnown DEF ChangeOwner, At, Consistent
<1>2. {} \in SUBSET Errors /\ {"storage.ErrInternal"} \in SUBSET Errors
  BY DEF Errors
<1>3. CASE Ends(c, {"storage.ErrInternal"}) /\ UNCHANGED live
  BY <1>1, <1>2, <1>3, EndsKeeps DEF Fresh
<1>4. CASE \E u \in Users \ {cl.user}, told \in BOOLEAN :
              /\ live' = [k \in Keys |-> IF live[k] = cl.user THEN u ELSE live[k]]
              /\ call' = Lost([call EXCEPT ![c] =
                    [Done(@, IF told THEN {} ELSE {"storage.ErrInternal"}) EXCEPT
                        !.did = TRUE, !.excused = ~told]],
                    Owned(cl.user))
  <2>1. PICK u \in Users, told \in BOOLEAN :
          /\ live' = [k \in Keys |-> IF live[k] = cl.user THEN u ELSE live[k]]
          /\ call' = Lost([call EXCEPT ![c] =
                [Done(cl, IF told THEN {} ELSE {"storage.ErrInternal"}) EXCEPT
                    !.did = TRUE, !.excused = ~told]],
                Owned(cl.user))
    BY <1>4
  <2> DEFINE errs == IF told THEN {} ELSE {"storage.ErrInternal"}
             excused == ~told
             d == Done(cl, errs)
             r == [d EXCEPT !.did = TRUE, !.excused = excused]
  <2>2. Rest
    BY <1>1, <2>1 DEF IInv, TypeOK, Rest
  <2>3. /\ errs \in SUBSET Errors /\ excused \in BOOLEAN
        /\ errs # {} => excused /\ errs \subseteq Quiet
    BY <1>2 DEF Quiet
  <2>4. call' = Lost([call EXCEPT ![c] = r], Owned(cl.user))
    BY <2>1
  <2>. HIDE DEF errs, excused
  <2>5. d \in CallRecords /\ d.at = "answer" /\ d.errs = errs /\ ~d.permit
    BY <1>1, <2>3, DoneFits DEF Fresh
  <2>. HIDE DEF d
  <2>6. /\ r \in CallRecords /\ r.at = "answer" /\ r.errs = errs
        /\ r.did = TRUE /\ r.excused = excused /\ ~r.permit
    BY <2>3, <2>5 DEF CallRecords
  <2>. HIDE DEF r
  <2>7. Consistent(r)
    BY <2>3, <2>6, AnswerFits DEF Told
  <2>. QED
    BY <1>1, <2>2, <2>4, <2>6, <2>7, Stays
<1>. QED
  BY <1>3, <1>4 DEF ChangeOwner

LEMMA SetLimitKeeps == ASSUME IInv, NEW c \in Clients, SetLimit(c) PROVE IInv'
<1> DEFINE cl == call[c]
           r == [cl EXCEPT !.at = "find"]
<1>1. /\ cl \in CallRecords /\ cl.at = "setLimit" /\ call' = [call EXCEPT ![c] = r]
      /\ cl.op \notin Writes /\ cl.errs = {} /\ ~cl.permit /\ free' = free
  BY CallKnown DEF SetLimit, At, Goto, Consistent
<1>2. Rest
  BY <1>1 DEF IInv, TypeOK, Rest, SetLimit, CallRecords
<1>3. r \in CallRecords /\ r.at = "find" /\ r.op \notin Writes /\ r.errs = {} /\ ~r.permit
  BY <1>1 DEF CallRecords, Places
<1>. HIDE DEF r
<1>4. Consistent(r)
  BY <1>3 DEF Consistent
<1>. QED
  BY <1>1, <1>2, <1>3, <1>4, Stays

LEMMA FindKeeps == ASSUME IInv, NEW c \in Clients, Find(c) PROVE IInv'
<1> DEFINE cl == call[c]
           page == Limited(Owned(cl.user), opts)
           extra == page \ Limited(page, cl.limit)
           misled == opts # cl.list
           listed == [cl EXCEPT !.misled = misled]
           again == [cl EXCEPT !.at = "setLimit", !.list = Doubled(@)]
           next == [listed EXCEPT !.at = "delete", !.todo = extra]
<1>1. /\ cl \in CallRecords /\ cl.at = "find" /\ Rest /\ UNCHANGED <<live, opts, free>>
      /\ cl.op \notin Writes /\ cl.errs = {} /\ ~cl.permit
  BY CallKnown DEF Find, At, Consistent
<1>2. misled \in BOOLEAN /\ extra \in SUBSET Keys
  BY DEF Limited, Owned
<1>3. listed \in CallRecords
  <2>. HIDE DEF misled
  <2>. QED
    BY <1>1, <1>2 DEF CallRecords
<1>4. listed.op = cl.op /\ listed.errs = {} /\ ~listed.permit
  BY <1>1 DEF CallRecords
<1>5. {} \in SUBSET Errors
  OBVIOUS
<1>6. \/ Ends(c, {})
      \/ call' = [call EXCEPT ![c] = again]
      \/ call' = [call EXCEPT ![c] = next] /\ extra # {} /\ cl.op = "DeleteExtra"
      \/ call' = [call EXCEPT ![c] = Done(listed, {})]
  BY DEF Find, Step
<1>. HIDE DEF extra, listed
<1>7. CASE Ends(c, {})
  BY <1>1, <1>5, <1>7, EndsKeeps
<1>8. CASE call' = [call EXCEPT ![c] = again]
  <2>1. Doubled(cl.list) \in Numbers
    BY <1>1, ApiAssumption DEF Doubled, Numbers, CallRecords
  <2>2. /\ again \in CallRecords /\ again.at = "setLimit" /\ again.op = cl.op
        /\ again.errs = {} /\ ~again.permit
    BY <1>1, <2>1 DEF CallRecords, Places
  <2>. HIDE DEF again
  <2>3. Consistent(again)
    BY <1>1, <2>2 DEF Consistent
  <2>. QED
    BY <1>1, <1>8, <2>2, <2>3, Stays
<1>9. CASE call' = [call EXCEPT ![c] = next] /\ extra # {} /\ cl.op = "DeleteExtra"
  <2>1. /\ next \in CallRecords /\ next.at = "delete" /\ next.op = "DeleteExtra"
        /\ next.errs = {} /\ ~next.permit /\ next.todo = extra
    BY <1>2, <1>3, <1>4, <1>9 DEF CallRecords, Places
  <2>. HIDE DEF next
  <2>2. Consistent(next)
    BY <1>9, <2>1 DEF Consistent, Trims, Single
  <2>. QED
    BY <1>1, <1>9, <2>1, <2>2, Stays
<1>10. CASE call' = [call EXCEPT ![c] = Done(listed, {})]
  <2> DEFINE r == Done(listed, {})
  <2>1. r \in CallRecords /\ r.at = "answer" /\ r.op = cl.op
    BY <1>3, <1>4, <1>5, DoneFits
  <2>. HIDE DEF r
  <2>2. Consistent(r)
    BY <1>1, <2>1, AnswerFits
  <2>. QED
    BY <1>1, <1>10, <2>1, <2>2, Stays DEF r
<1>. QED
  BY <1>6, <1>7, <1>8, <1>9, <1>10

LEMMA FindFailsKeeps == ASSUME IInv, NEW c \in Clients, FindFails(c) PROVE IInv'
<1>1. call[c].at = "find" /\ call[c].op \notin Writes /\ UNCHANGED <<live, opts, free>>
  BY CallKnown DEF FindFails, At, Consistent
<1>2. PICK e \in {"service.ErrInternal", "storage.ErrInternal", "unknown format"} : Ends(c, {e})
  BY DEF FindFails
<1>3. {e} \in SUBSET Errors
  BY DEF Errors
<1>. QED
  BY <1>1, <1>2, <1>3, EndsKeeps

LEMMA AnswerKeeps == ASSUME IInv, NEW c \in Clients, Answer(c) PROVE IInv'
<1>1. /\ call[c].at = "answer" /\ call' = [call EXCEPT ![c] = Idle] /\ free' = free /\ Rest
  BY CallKnown DEF Answer, At, Step
<1>2. Idle.at = "idle"
  BY DEF Idle
<1>. QED
  BY <1>1, <1>2, IdleFits, Stays

(* All connections are back when no call is on its way. *)
LEMMA IdleHolders ==
    ASSUME call = [c \in Clients |-> Idle]
    PROVE  Holders = {} /\ Cardinality(Holders) = 0
<1>1. Holders = {}
  BY DEF Holders, Idle
<1>. QED
  BY <1>1, FS_EmptySet

LEMMA InitHolds == Init => IInv
<1>. SUFFICES ASSUME Init PROVE IInv
  OBVIOUS
<1>1. call \in [Clients -> CallRecords] /\ \A c \in Clients : Consistent(call[c])
  BY IdleFits DEF Init
<1>2. Cardinality(Holders) = 0
  BY IdleHolders DEF Init
<1>. QED
  BY <1>1, <1>2, ApiAssumption DEF Init, IInv, TypeOK, ConnsConserved, Numbers

LEMMA DieKeeps == ASSUME IInv, Die PROVE IInv'
<1>1. CallsOK'
  BY IdleFits DEF Die, CallsOK
<1>2. Holders' = {}
  BY DEF Die, Holders, Idle
<1>3. Cardinality(Holders)' = 0
  BY <1>2, FS_EmptySet
<1>. QED
  BY <1>1, <1>3, ApiAssumption DEF Die, IInv, TypeOK, ConnsConserved, CallsOK, Numbers

LEMMA StutterKeeps == ASSUME IInv, UNCHANGED vars PROVE IInv'
<1>1. Holders' = Holders
  BY DEF vars, Holders
<1>2. CallsOK'
  BY DEF vars, IInv, TypeOK, CallsOK
<1>. QED
  BY <1>1, <1>2 DEF vars, IInv, TypeOK, ConnsConserved, CallsOK

LEMMA NextKeeps == ASSUME IInv, [Next]_vars PROVE IInv'
<1>1. ASSUME NEW c \in Clients, Proceed(c)
      PROVE  IInv'
  BY <1>1, AllocateKeeps, ReleaseKeeps, CreatedKeeps, NotCreatedKeeps, DeletedKeeps, NotDeletedKeeps,
     QueryKeeps, TotalKeeps, ChangeOwnerKeeps, SetLimitKeeps, FindKeeps, FindFailsKeeps, AnswerKeeps
     DEF Proceed
<1>2. ASSUME NEW c \in Clients,
             Refuse(c) \/ Authorize(c) \/ Arrive(c) \/ Challenge(c) \/ Acquire(c) \/ GiveUp(c)
      PROVE  IInv'
  BY <1>2, RefuseKeeps, ArriveKeeps, ChallengeKeeps, AcquireKeeps, GiveUpKeeps
<1>3. CASE UNCHANGED vars
  BY <1>3, StutterKeeps
<1>4. CASE Die
  BY <1>4, DieKeeps
<1>. QED
  BY <1>1, <1>2, <1>3, <1>4 DEF Next

-----------------------------------------------------------------------------
(* Theorems *)

(* What every reachable state of the process satisfies. *)
THEOREM Invariance == Spec => []IInv
<1>. QED
  BY InitHolds, NextKeeps, PTL DEF Spec

(* Every variable stays in its set, for any number of calls, connections, users and      *)
(* subscriptions.                                                                        *)
THEOREM TypeCorrect == Spec => []TypeOK
<1>1. IInv => TypeOK
  BY DEF IInv
<1>. QED
  BY Invariance, <1>1, PTL

(* Every connection of the pool of the usage service is in the pool or with the one call *)
(* that uses it (connPool.Get, Close), on every path, for any number of calls and        *)
(* connections.                                                                          *)
THEOREM PoolBalanced == Spec => []ConnsConserved
<1>1. IInv => ConnsConserved
  BY DEF IInv
<1>. QED
  BY Invariance, <1>1, PTL

(* The switches, and how many cases they have. *)
Switches == {AuthCases, UpdateCases, ReadCases, GrpcCases}

LEMMA Domains ==
    /\ DOMAIN AuthCases = 1 .. 3 /\ DOMAIN UpdateCases = 1 .. 4
    /\ DOMAIN ReadCases = 1 .. 1 /\ DOMAIN GrpcCases = 1 .. 2
<1>1. DOMAIN AuthCases = 1 .. 3
  BY DEF AuthCases
<1>2. DOMAIN UpdateCases = 1 .. 4
  BY DEF UpdateCases
<1>3. DOMAIN ReadCases = 1 .. 1
  BY DEF ReadCases
<1>4. DOMAIN GrpcCases = 1 .. 2
  BY DEF GrpcCases
<1>. QED
  BY <1>1, <1>2, <1>3, <1>4

(* The switch takes one of its cases, or its default. *)
LEMMA Decides ==
    ASSUME NEW default, NEW errs, NEW cases \in Switches
    PROVE  \/ Decide(cases, default, errs) = default
           \/ \E i \in DOMAIN cases :
                 /\ cases[i][1] \in errs
                 /\ Decide(cases, default, errs) = cases[i][2]
<1> DEFINE hits == {i \in DOMAIN cases : cases[i][1] \in errs}
<1>1. hits \in SUBSET Nat
  <2>1. DOMAIN cases \in SUBSET Nat
    BY Domains DEF Switches
  <2>. QED
    BY <2>1
<1>2. hits # {} => Min(hits) \in hits
  BY <1>1, MinIn
<1>. QED
  BY <1>2 DEF Decide

(* No case, and no default, of a handler that writes makes a failure look like a success, *)
LEMMA FailureTold ==
    ASSUME NEW op \in Writes, NEW errs, errs # {}
    PROVE  Status(op, errs) # Success(op)
<1> DEFINE wins == {"Accepted", "NoContent", "OK"}
<1>1. \A cases \in Switches : \A i \in DOMAIN cases : cases[i][2] \notin wins
  <2>1. \A i \in DOMAIN AuthCases : AuthCases[i][2] \notin wins
    <3>1. /\ AuthCases[1][2] = "Unauthorized" /\ AuthCases[2][2] = "BadRequest"
          /\ AuthCases[3][2] = "BadRequest"
      BY DEF AuthCases
    <3>. QED
      BY <3>1, Domains
  <2>2. \A i \in DOMAIN UpdateCases : UpdateCases[i][2] \notin wins
    BY Domains DEF UpdateCases
  <2>3. \A i \in DOMAIN ReadCases : ReadCases[i][2] \notin wins
    BY Domains DEF ReadCases
  <2>4. \A i \in DOMAIN GrpcCases : GrpcCases[i][2] \notin wins
    BY Domains DEF GrpcCases
  <2>. QED
    BY <2>1, <2>2, <2>3, <2>4 DEF Switches
<1>2. \A cases \in Switches : /\ Decide(cases, "Unknown", errs) \notin wins
                            /\ Decide(cases, "InternalServerError", errs) \notin wins
  BY <1>1, Decides
<1>3. Success(op) \in wins
  BY DEF Success
<1>4. \E cases \in Switches, default \in {"Unknown", "InternalServerError"} :
        Status(op, errs) = Decide(cases, default, errs)
  BY DEF Status, Switches
<1>. QED
  BY <1>2, <1>3, <1>4

(* and an internal error is answered as one. *)
LEMMA QuietFails ==
    ASSUME NEW op \in Writes, NEW errs, errs # {}, errs \subseteq Quiet
    PROVE  Status(op, errs) \in {"InternalServerError", "Internal", "Unknown"}
<1>1. \A i \in DOMAIN AuthCases : AuthCases[i][1] \notin errs
  <2>1. /\ AuthCases[1][1] \notin Quiet /\ AuthCases[2][1] \notin Quiet
        /\ AuthCases[3][1] \notin Quiet
    BY DEF AuthCases, Quiet
  <2>. QED
    BY <2>1, Domains
<1>2. \A i \in DOMAIN UpdateCases : UpdateCases[i][1] \notin errs
  BY Domains DEF UpdateCases, Quiet
<1>3. \A i \in DOMAIN ReadCases : ReadCases[i][1] \notin errs
  BY Domains DEF ReadCases, Quiet
<1>4. \A i \in DOMAIN GrpcCases : GrpcCases[i][1] \in errs => GrpcCases[i][2] = "Internal"
  BY Domains DEF GrpcCases, Quiet
<1>5. Decide(GrpcCases, "Unknown", errs) \in {"Unknown", "Internal"}
  BY <1>4, Decides DEF Switches
<1>6. \A cases \in {AuthCases, UpdateCases, ReadCases} :
        Decide(cases, "InternalServerError", errs) = "InternalServerError"
  BY <1>1, <1>2, <1>3, Decides DEF Switches
<1>. QED
  BY <1>5, <1>6 DEF Status

(* An answer tells what became of its write, whatever fails before it and whichever calls *)
(* run beside it (handler.update, encodeError, service.Subscribe and Unsubscribe).        *)
THEOREM AnswersTold == Spec => []AnswersTell
<1>1. ASSUME IInv PROVE AnswersTell
  <2>. SUFFICES ASSUME NEW c \in Clients, Answers(c, Writes)
                PROVE  LET cl == call[c]
                           status == Status(cl.op, cl.errs)
                           ok == status = Success(cl.op)
                       IN /\ ok => cl.did /\ ~cl.permit
                          /\ status \notin {"InternalServerError", "Internal", "Unknown"}
                                => (cl.did <=> ok)
                          /\ cl.did /\ ~ok => cl.excused
                          /\ cl.permit => cl.excused
    BY DEF AnswersTell, Writes
  <2> DEFINE cl == call[c]
             status == Status(cl.op, cl.errs)
  <2>1. cl.op \in Writes /\ Told(cl)
    BY <1>1 DEF IInv, Consistent, Answers, At
  <2>2. CASE cl.errs = {}
    <3>1. status = Success(cl.op)
      BY <2>2 DEF Status
    <3>2. cl.did /\ ~cl.permit
      BY <2>1, <2>2 DEF Told
    <3>. HIDE DEF status
    <3>. QED
      BY <3>1, <3>2 DEF status
  <2>3. CASE cl.errs # {}
    <3>1. status # Success(cl.op)
      BY <2>1, <2>3, FailureTold
    <3>2. cl.did => cl.excused /\ status \in {"InternalServerError", "Internal", "Unknown"}
      BY <2>1, <2>3, QuietFails DEF Told
    <3>3. cl.permit => cl.excused
      BY <2>1 DEF Told
    <3>. HIDE DEF status
    <3>. QED
      BY <3>1, <3>2, <3>3 DEF status
  <2>. QED
    BY <2>2, <2>3
<1>. QED
  BY Invariance, <1>1, PTL

-----------------------------------------------------------------------------
(* DeleteExtra: no more is left than the limit *)

AtMost(ks, n) == IsFiniteSet(ks) /\ Cardinality(ks) =< n

(* The first n of a set are at most n: their numbers of predecessors differ. *)
LEMMA LimitedSize ==
    ASSUME NEW ks \in SUBSET Nat, NEW n \in Nat \ {0}
    PROVE  AtMost(Limited(ks, n), n)
<1> DEFINE below(k) == {j \in ks : j < k}
           first == {k \in ks : Cardinality(below(k)) < n}
           rank == [k \in first |-> Cardinality(below(k))]
<1>1. ASSUME NEW k \in ks PROVE IsFiniteSet(below(k)) /\ Cardinality(below(k)) \in Nat
  <2>1. k \in Nat /\ \A j \in ks : j \in Nat
    OBVIOUS
  <2>2. \A j \in ks : j < k => j \in 0 .. k
    BY <2>1
  <2>3. below(k) \in SUBSET (0 .. k)
    BY <2>2
  <2>4. IsFiniteSet(0 .. k)
    BY <2>1, FS_Interval
  <2>. HIDE DEF below
  <2>5. IsFiniteSet(below(k))
    BY <2>3, <2>4, FS_Subset
  <2>. QED
    BY <2>5, FS_CardinalityType
<1>2. ASSUME NEW j \in ks, NEW k \in ks, j < k PROVE Cardinality(below(j)) # Cardinality(below(k))
  <2>1. below(j) \in SUBSET below(k)
    <3>1. ASSUME NEW i \in ks, i < j PROVE i < k
      <4>1. i \in Nat /\ j \in Nat /\ k \in Nat
        OBVIOUS
      <4>. QED
        BY <1>2, <3>1, <4>1
    <3>. QED
      BY <3>1
  <2>2. j \in below(k) /\ j \notin below(j)
    BY <1>2
  <2>3. below(j) # below(k)
    BY <2>2
  <2>. HIDE DEF below
  <2>. QED
    BY <1>1, <2>1, <2>3, FS_Subset
<1>3. ASSUME NEW j \in ks, NEW k \in ks, Cardinality(below(j)) = Cardinality(below(k)) PROVE j = k
  <2>1. ~(j < k) /\ ~(k < j)
    BY <1>2, <1>3
  <2>2. j \in Nat /\ k \in Nat
    OBVIOUS
  <2>. QED
    BY <2>1, <2>2
<1>4. \A k \in first : rank[k] \in 0 .. n - 1
  <2>. HIDE DEF below
  <2>. QED
    BY <1>1
<1>5. rank \in Injection(first, 0 .. n - 1)
  <2>1. \A j, k \in first : rank[j] = rank[k] => j = k
    <3>. HIDE DEF below
    <3>. QED
      BY <1>3
  <2>. HIDE DEF first
  <2>2. rank \in [first -> 0 .. n - 1]
    BY <1>4
  <2>. HIDE DEF rank
  <2>. QED
    BY <2>1, <2>2 DEF Injection, IsInjective
<1>6. IsFiniteSet(0 .. n - 1) /\ Cardinality(0 .. n - 1) = n
  BY FS_Interval
<1>7. Limited(ks, n) = first
  BY DEF Limited
<1>. HIDE DEF first, rank
<1>. QED
  BY <1>5, <1>6, <1>7, FS_Injection DEF AtMost

(* A page that is not full has all there is. *)
LEMMA NotFull ==
    ASSUME NEW ks \in SUBSET Nat, NEW n \in Nat, Cardinality(Limited(ks, n)) < n
    PROVE  Limited(ks, n) = ks
<1>1. CASE n = 0
  BY <1>1 DEF Limited
<1>2. CASE n # 0
  <2> DEFINE below(k) == {j \in ks : j < k}
             page == Limited(ks, n)
             rest == ks \ page
  <2>1. page = {k \in ks : Cardinality(below(k)) < n}
    BY <1>2 DEF Limited
  <2>2. IsFiniteSet(page) /\ Cardinality(page) \in Nat
    BY <1>2, LimitedSize, FS_CardinalityType DEF AtMost
  <2>3. ASSUME rest # {} PROVE FALSE
    <3>1. PICK k \in rest : \A j \in rest : k =< j
      <4>1. rest \in SUBSET Nat
        OBVIOUS
      <4>. HIDE DEF rest
      <4>. QED
        BY <2>3, <4>1, LeastOf
    <3>2. k \in ks /\ k \notin page
      OBVIOUS
    <3>3. below(k) \in SUBSET page
      <4>1. ASSUME NEW j \in ks, j < k PROVE j \in page
        <5>1. j \in Nat /\ k \in Nat
          BY <3>2
        <5>. QED
          BY <3>1, <4>1, <5>1
      <4>. QED
        BY <4>1
    <3>4. ~(Cardinality(below(k)) < n)
      BY <2>1, <3>2
    <3>5. Cardinality(page) < n
      OBVIOUS
    <3>. HIDE DEF below, page
    <3>6. Cardinality(below(k)) =< Cardinality(page) /\ Cardinality(below(k)) \in Nat
      BY <2>2, <3>3, FS_Subset, FS_CardinalityType
    <3>. QED
      BY <2>2, <3>4, <3>5, <3>6
  <2>4. page \subseteq ks
    BY <2>1
  <2>. QED
    BY <2>3, <2>4
<1>. QED
  BY <1>1, <1>2

LEMMA AtMostLess ==
    ASSUME NEW ks, NEW n \in Nat, AtMost(ks, n), NEW js \in SUBSET ks
    PROVE  AtMost(js, n)
BY FS_Subset, FS_CardinalityType DEF AtMost

(* What a trim counts on at its steps, when the subscriptions are those of lv: while it  *)
(* lists, what the user had all along is his; while it deletes, what is not left to be   *)
(* deleted is within the limit.                                                          *)
TrimFits(cl, lv) ==
    cl.op = "DeleteExtra" =>
        /\ cl.at \in {"setLimit", "find"} =>
               /\ cl.user \in Users /\ \A k \in cl.kept : lv[k] = cl.user
               /\ cl.limit = 0 => cl.list = 0
        /\ cl.at \in {"delete", "release?", "release"} /\ ~cl.misled =>
               AtMost(cl.kept \ cl.todo, cl.limit)
        /\ cl.at \in {"release?", "release"} => cl.key \notin cl.kept
        /\ cl.at = "answer" /\ cl.errs = {} /\ ~cl.misled => AtMost(cl.kept, cl.limit)

TrimsOK == \A c \in Clients : TrimFits(call[c], live)

(* Nothing is asked of a call that is no trim, does nothing or has failed. *)
LEMMA TrimFree ==
    ASSUME NEW cl, NEW lv,
           \/ cl.op # "DeleteExtra"
           \/ cl.at \in {"idle", "challenge", "allocate?", "allocate", "create", "query"}
           \/ cl.at = "answer" /\ cl.errs # {}
    PROVE  TrimFits(cl, lv)
BY DEF TrimFits

(* Subscriptions of users stay with them, except for the keys ks. *)
Stay(lv, lw, ks) == \A k \in Keys \ ks : lv[k] \in Users => lw[k] = lv[k]

Lose(cl, ks) == [cl EXCEPT !.kept = cl.kept \ ks]

LEMMA LoseIs ==
    ASSUME NEW cl \in CallRecords, NEW ks
    PROVE  /\ Lose(cl, ks).op = cl.op /\ Lose(cl, ks).at = cl.at /\ Lose(cl, ks).user = cl.user
           /\ Lose(cl, ks).key = cl.key /\ Lose(cl, ks).errs = cl.errs /\ Lose(cl, ks).limit = cl.limit
           /\ Lose(cl, ks).list = cl.list /\ Lose(cl, ks).todo = cl.todo
           /\ Lose(cl, ks).misled = cl.misled /\ Lose(cl, ks).kept = cl.kept \ ks
BY DEF Lose, CallRecords

LEMMA TrimLess ==
    ASSUME NEW cl \in CallRecords, NEW lv, NEW lw, NEW ks, TrimFits(cl, lv), Stay(lv, lw, ks)
    PROVE  TrimFits(Lose(cl, ks), lw)
<1> DEFINE r == Lose(cl, ks)
<1>1. /\ r.op = cl.op /\ r.at = cl.at /\ r.user = cl.user /\ r.key = cl.key /\ r.errs = cl.errs
      /\ r.limit = cl.limit /\ r.list = cl.list /\ r.todo = cl.todo
      /\ r.misled = cl.misled /\ r.kept = cl.kept \ ks
  BY LoseIs
<1>2. cl.limit \in Nat /\ cl.kept \subseteq Keys
  BY ApiAssumption DEF CallRecords, Numbers
<1>. HIDE DEF r
<1>3. SUFFICES ASSUME r.op = "DeleteExtra" PROVE TrimFits(r, lw)
  BY TrimFree DEF r
<1>4. ASSUME r.at \in {"setLimit", "find"}
      PROVE  /\ r.user \in Users /\ \A k \in r.kept : lw[k] = r.user
             /\ r.limit = 0 => r.list = 0
  <2>1. cl.user \in Users /\ (\A k \in cl.kept : lv[k] = cl.user) /\ (cl.limit = 0 => cl.list = 0)
    BY <1>1, <1>3, <1>4 DEF TrimFits
  <2>. QED
    BY <1>1, <1>2, <2>1 DEF Stay
<1>5. ASSUME r.at \in {"delete", "release?", "release"}, ~r.misled
      PROVE  AtMost(r.kept \ r.todo, r.limit)
  <2>1. AtMost(cl.kept \ cl.todo, cl.limit)
    BY <1>1, <1>3, <1>5 DEF TrimFits
  <2>2. r.kept \ r.todo \in SUBSET (cl.kept \ cl.todo)
    BY <1>1
  <2>. QED
    BY <1>1, <1>2, <2>1, <2>2, AtMostLess
<1>6. ASSUME r.at \in {"release?", "release"} PROVE r.key \notin r.kept
  BY <1>1, <1>3, <1>6 DEF TrimFits
<1>7. ASSUME r.at = "answer", r.errs = {}, ~r.misled PROVE AtMost(r.kept, r.limit)
  <2>1. AtMost(cl.kept, cl.limit)
    BY <1>1, <1>3, <1>7 DEF TrimFits
  <2>2. r.kept \in SUBSET cl.kept
    BY <1>1
  <2>. QED
    BY <1>1, <1>2, <2>1, <2>2, AtMostLess
<1>. QED
  BY <1>4, <1>5, <1>6, <1>7 DEF TrimFits

LEMMA TrimSame ==
    ASSUME NEW cl \in CallRecords, NEW lv, NEW lw, TrimFits(cl, lv), Stay(lv, lw, {})
    PROVE  TrimFits(cl, lw)
<1>1. Lose(cl, {}) = cl
  <2>1. cl.kept \ {} = cl.kept
    OBVIOUS
  <2>. QED
    BY <2>1 DEF Lose, CallRecords
<1>2. TrimFits(Lose(cl, {}), lw)
  BY TrimLess
<1>. QED
  BY <1>1, <1>2

LEMMA TrimStep ==
    ASSUME IInv, TrimsOK, NEW c \in Clients, NEW r, TrimFits(r, live'),
           call' = [call EXCEPT ![c] = r], Stay(live, live', {})
    PROVE  TrimsOK'
<1>1. ASSUME NEW d \in Clients PROVE TrimFits(call'[d], live')
  <2>1. call[d] \in CallRecords /\ call \in [Clients -> CallRecords]
    BY DEF IInv, TypeOK
  <2>2. TrimFits(call[d], live)
    BY DEF TrimsOK
  <2>3. TrimFits(call[d], live')
    BY <2>1, <2>2, TrimSame
  <2>. QED
    BY <2>1, <2>3
<1>. QED
  BY <1>1 DEF TrimsOK

LEMMA TrimLostStep ==
    ASSUME IInv, TrimsOK, NEW c \in Clients, NEW r, NEW ks, TrimFits(Lose(r, ks), live'),
           call' = Lost([call EXCEPT ![c] = r], ks), Stay(live, live', ks)
    PROVE  TrimsOK'
<1>1. ASSUME NEW d \in Clients PROVE TrimFits(call'[d], live')
  <2>1. call[d] \in CallRecords /\ call \in [Clients -> CallRecords]
    BY DEF IInv, TypeOK
  <2>2. TrimFits(call[d], live)
    BY DEF TrimsOK
  <2>3. TrimFits(Lose(call[d], ks), live')
    BY <2>1, <2>2, TrimLess
  <2>4. call'[d] = IF d = c THEN Lose(r, ks) ELSE Lose(call[d], ks)
    BY <2>1 DEF Lost, Lose
  <2>. QED
    BY <2>3, <2>4
<1>. QED
  BY <1>1 DEF TrimsOK

LEMMA StayUnchanged == ASSUME UNCHANGED live PROVE Stay(live, live', {})
BY DEF Stay

(* A call that ends with an error. *)
LEMMA TrimFails ==
    ASSUME IInv, TrimsOK, UNCHANGED live, NEW c \in Clients, NEW e \in Errors, Ends(c, {e})
    PROVE  TrimsOK'
<1> DEFINE r == Done(call[c], {e})
<1>1. r.at = "answer" /\ r.errs # {}
  BY CallKnown, DoneFits
<1>2. call' = [call EXCEPT ![c] = r]
  BY DEF Ends, Step
<1>. HIDE DEF r
<1>. QED
  BY <1>1, <1>2, TrimFree, TrimStep, StayUnchanged

LEMMA RefuseTrims == ASSUME IInv, TrimsOK, NEW c \in Clients, Refuse(c) PROVE TrimsOK'
BY TrimFails DEF Refuse, Errors

LEMMA BeginTrims ==
    ASSUME IInv, TrimsOK, NEW c \in Clients, NEW op \in HttpOps \cup GrpcOps,
           NEW place \in {"challenge", "delete", "query", "setLimit"},
           op = "DeleteExtra" => place = "setLimit", Begin(c, op, place)
    PROVE  TrimsOK'
<1>1. PICK u \in UsersOf(op), k \in KeysOf(op), n \in LimitsOf(op) :
          call' = [call EXCEPT ![c] =
              [Idle EXCEPT !.at = place, !.op = op, !.user = u, !.key = k,
                           !.limit = IF op = "DeleteExtra" THEN n ELSE 0, !.list = n,
                           !.todo = IF op = "Delete" THEN {k} ELSE {},
                           !.kept = IF op = "DeleteExtra" THEN Owned(u) ELSE {}]]
  BY DEF Begin, Step
<1> DEFINE todo == IF op = "Delete" THEN {k} ELSE {}
           kept == IF op = "DeleteExtra" THEN Owned(u) ELSE {}
           limit == IF op = "DeleteExtra" THEN n ELSE 0
           r == [Idle EXCEPT !.at = place, !.op = op, !.user = u, !.key = k, !.limit = limit,
                             !.list = n, !.todo = todo, !.kept = kept]
<1>2. /\ op = "DeleteExtra" => u \in Users /\ kept = Owned(u) /\ limit = n
      /\ UNCHANGED live
  BY ApiAssumption DEF UsersOf, Begin
<1>3. call' = [call EXCEPT ![c] = r]
  BY <1>1
<1>. HIDE DEF limit, kept, todo
<1>4. /\ r.at = place /\ r.op = op /\ r.user = u /\ r.limit = limit /\ r.list = n /\ r.kept = kept
  BY DEF Idle
<1>. HIDE DEF r
<1>5. TrimFits(r, live')
  BY <1>2, <1>4 DEF TrimFits, Owned
<1>. QED
  BY <1>2, <1>3, <1>5, TrimStep, StayUnchanged

LEMMA ArriveTrims == ASSUME IInv, TrimsOK, NEW c \in Clients, Authorize(c) \/ Arrive(c) PROVE TrimsOK'
<1>1. PICK op \in HttpOps \cup GrpcOps, place \in {"challenge", "delete", "query", "setLimit"} :
          /\ op = "DeleteExtra" => place = "setLimit"
          /\ Begin(c, op, place)
  <2>1. CASE Authorize(c)
    BY <2>1, ApiAssumption DEF Authorize
  <2>2. CASE Arrive(c)
    BY <2>2, ApiAssumption DEF Arrive
  <2>. QED
    BY <2>1, <2>2
<1>. QED
  BY <1>1, BeginTrims

LEMMA ChallengeTrims == ASSUME IInv, TrimsOK, NEW c \in Clients, Challenge(c) PROVE TrimsOK'
<1>1. /\ call[c] \in CallRecords /\ call[c].op \in {"subscribe", "unsubscribe"} /\ UNCHANGED live
  BY CallKnown DEF Challenge, At, Consistent
<1>2. CASE \E e \in {"errCallback", "network"} : Ends(c, {e})
  BY <1>1, <1>2, TrimFails DEF Errors
<1>3. ASSUME NEW r, r.op # "DeleteExtra", call' = [call EXCEPT ![c] = r] PROVE TrimsOK'
  BY <1>1, <1>3, TrimFree, TrimStep, StayUnchanged
<1>4. CASE Goto(c, "allocate?")
  <2> DEFINE r == [call[c] EXCEPT !.at = "allocate?"]
  <2>1. r.op # "DeleteExtra"
    BY <1>1 DEF CallRecords
  <2>2. call' = [call EXCEPT ![c] = r]
    BY <1>4 DEF Goto
  <2>. HIDE DEF r
  <2>. QED
    BY <1>3, <2>1, <2>2
<1>5. CASE Step(c, [call[c] EXCEPT !.at = "delete", !.todo = {call[c].key}])
  <2> DEFINE r == [call[c] EXCEPT !.at = "delete", !.todo = {call[c].key}]
  <2>1. r.op # "DeleteExtra"
    BY <1>1 DEF CallRecords
  <2>2. call' = [call EXCEPT ![c] = r]
    BY <1>5 DEF Step
  <2>. HIDE DEF r
  <2>. QED
    BY <1>3, <2>1, <2>2
<1>. QED
  BY <1>2, <1>4, <1>5 DEF Challenge

LEMMA AcquireTrims == ASSUME IInv, TrimsOK, NEW c \in Clients, Acquire(c) PROVE TrimsOK'
<1> DEFINE cl == call[c]
<1>1. /\ cl \in CallRecords /\ Consistent(cl) /\ TrimFits(cl, live) /\ UNCHANGED live
  BY CallKnown DEF Acquire, TrimsOK
<1>2. PICK at \in {"allocate", "release"} : /\ Goto(c, at)
                                            /\ at = "release" => cl.at = "release?"
  BY DEF Acquire, At
<1> DEFINE r == [cl EXCEPT !.at = at]
<1>3. /\ r.at = at /\ r.op = cl.op /\ r.limit = cl.limit /\ r.kept = cl.kept
      /\ r.todo = cl.todo /\ r.key = cl.key /\ r.misled = cl.misled
  BY <1>1 DEF CallRecords
<1>4. call' = [call EXCEPT ![c] = r]
  BY <1>2 DEF Goto
<1>. HIDE DEF r
<1>5. TrimFits(r, live')
  <2>1. CASE at = "allocate"
    BY <1>3, <2>1, TrimFree
  <2>2. CASE at = "release"
    BY <1>1, <1>2, <1>3, <2>2 DEF TrimFits
  <2>. QED
    BY <2>1, <2>2
<1>. QED
  BY <1>1, <1>4, <1>5, TrimStep, StayUnchanged

(* The step of a call that is no trim, and that loses no subscription of another call. *)
LEMMA OtherStep ==
    ASSUME IInv, TrimsOK, NEW c \in Clients, NEW r, r.op # "DeleteExtra",
           call' = [call EXCEPT ![c] = r], Stay(live, live', {})
    PROVE  TrimsOK'
BY TrimFree, TrimStep

(* A call that ends: what is left of it, all that the trim is judged by if it succeeds. *)
LEMMA DoneIs ==
    ASSUME NEW cl \in CallRecords, NEW errs \in SUBSET Errors
    PROVE  \E d \in CallRecords :
              /\ d = Done(cl, errs) /\ d.at = "answer" /\ d.op = cl.op /\ d.errs = errs
              /\ errs = {} => d.limit = cl.limit /\ d.kept = cl.kept /\ (d.misled => cl.misled)
              /\ errs = {} => (cl.misled => d.misled)
<1> DEFINE misled == errs = {} /\ cl.misled
           kept == IF errs = {} THEN cl.kept ELSE {}
           d == [cl EXCEPT !.at = "answer", !.errs = errs, !.user = None, !.key = 0, !.list = 0,
                           !.todo = {}, !.kept = kept, !.misled = misled]
<1>1. Done(cl, errs) = d
  BY DEF Done, CallRecords
<1>2. errs = {} => kept = cl.kept
  OBVIOUS
<1>3. errs = {} => (misled <=> cl.misled)
  OBVIOUS
<1>. HIDE DEF misled, kept
<1>4. d.misled = misled /\ d.kept = kept /\ d.limit = cl.limit
  BY DEF CallRecords
<1>. HIDE DEF d
<1>. QED
  BY <1>1, <1>2, <1>3, <1>4, DoneFits

LEMMA GiveUpTrims == ASSUME IInv, TrimsOK, NEW c \in Clients, GiveUp(c) PROVE TrimsOK'
<1>1. PICK r : /\ r = [Done(call[c], {"permits.ErrInternal"}) EXCEPT !.excused = TRUE]
               /\ call' = [call EXCEPT ![c] = r]
  BY DEF GiveUp, Step
<1>2. r.at = "answer" /\ r.errs # {}
  <2>1. {"permits.ErrInternal"} \in SUBSET Errors
    BY DEF Errors
  <2>2. PICK d \in CallRecords : /\ d = Done(call[c], {"permits.ErrInternal"})
                                 /\ d.at = "answer" /\ d.errs # {}
    BY <2>1, CallKnown, DoneIs
  <2>3. r = [d EXCEPT !.excused = TRUE]
    BY <1>1, <2>2
  <2>. QED
    BY <2>2, <2>3 DEF CallRecords
<1>. QED
  BY <1>1, <1>2, TrimFree, TrimStep, StayUnchanged DEF GiveUp

LEMMA AllocateTrims == ASSUME IInv, TrimsOK, NEW c \in Clients, Allocate(c) PROVE TrimsOK'
<1> DEFINE cl == call[c]
<1>1. cl \in CallRecords /\ cl.op = "subscribe" /\ UNCHANGED live
  BY CallKnown DEF Allocate, At, Consistent
<1>2. PICK r : /\ call' = [call EXCEPT ![c] = r]
               /\ \/ r = [cl EXCEPT !.at = "create", !.permit = TRUE]
                  \/ r = Done(cl, {"service.ErrPermitExhausted"})
                  \/ r = Done(cl, {"permits.ErrInternal"})
                  \/ r = [Done(cl, {"permits.ErrInternal"}) EXCEPT !.permit = TRUE, !.excused = TRUE]
  BY DEF Allocate, Step, Ends
<1>3. r.op = "subscribe"
  <2>1. {"service.ErrPermitExhausted"} \in SUBSET Errors /\ {"permits.ErrInternal"} \in SUBSET Errors
    BY DEF Errors
  <2>2. CASE r = [cl EXCEPT !.at = "create", !.permit = TRUE]
    BY <1>1, <2>2 DEF CallRecords
  <2>3. CASE r = Done(cl, {"service.ErrPermitExhausted"})
    BY <1>1, <2>1, <2>3, DoneFits
  <2>4. CASE r = Done(cl, {"permits.ErrInternal"})
    BY <1>1, <2>1, <2>4, DoneFits
  <2>5. CASE r = [Done(cl, {"permits.ErrInternal"}) EXCEPT !.permit = TRUE, !.excused = TRUE]
    <3>1. PICK d \in CallRecords : d = Done(cl, {"permits.ErrInternal"}) /\ d.op = cl.op
      BY <1>1, <2>1, DoneFits
    <3>2. r = [d EXCEPT !.permit = TRUE, !.excused = TRUE]
      BY <2>5, <3>1
    <3>. QED
      BY <1>1, <3>1, <3>2 DEF CallRecords
  <2>. QED
    BY <1>2, <2>2, <2>3, <2>4, <2>5
<1>. QED
  BY <1>1, <1>2, <1>3, OtherStep, StayUnchanged

LEMMA ReleaseTrims == ASSUME IInv, TrimsOK, NEW c \in Clients, Release(c) PROVE TrimsOK'
<1> DEFINE cl == call[c]
           left == cl.todo \ {cl.key}
<1>1. /\ cl \in CallRecords /\ cl.at = "release" /\ TrimFits(cl, live) /\ UNCHANGED live
      /\ cl.op = "DeleteExtra" => cl.errs = {}
  BY CallKnown DEF Release, At, Consistent, Releases, TrimsOK
<1>2. cl.op = "DeleteExtra" => cl.key \notin cl.kept /\ (~cl.misled => AtMost(cl.kept \ cl.todo, cl.limit))
  BY <1>1 DEF TrimFits
<1>3. cl.op = "DeleteExtra" => cl.kept \ left = cl.kept \ cl.todo
  BY <1>2
<1>4. cl.errs \in SUBSET Errors /\ cl.errs \cup {"permits.ErrInternal"} \in SUBSET Errors
  BY <1>1 DEF CallRecords, Errors
<1>5. ASSUME NEW r, TrimFits(r, live), call' = [call EXCEPT ![c] = r] PROVE TrimsOK'
  BY <1>1, <1>5, TrimStep, StayUnchanged
<1>6. CASE Step(c, [Released(c, {}) EXCEPT !.permit = FALSE]) /\ cl.errs = {} /\ left # {}
  <2> DEFINE more == [cl EXCEPT !.at = "delete", !.todo = left]
             r == [more EXCEPT !.permit = FALSE]
  <2>1. Released(c, {}) = more
    BY <1>6 DEF Released
  <2>2. call' = [call EXCEPT ![c] = r]
    BY <1>6, <2>1 DEF Step
  <2>3. /\ r.at = "delete" /\ r.op = cl.op /\ r.limit = cl.limit /\ r.kept = cl.kept
        /\ r.todo = left /\ r.misled = cl.misled
    BY <1>1 DEF CallRecords
  <2>. HIDE DEF r, left, cl
  <2>4. TrimFits(r, live)
    BY <1>2, <1>3, <2>3 DEF TrimFits
  <2>. QED
    BY <1>5, <2>2, <2>4
<1>7. CASE Step(c, [Released(c, {}) EXCEPT !.permit = FALSE]) /\ ~(cl.errs = {} /\ left # {})
  <2>1. Released(c, {}) = Done(cl, cl.errs)
    BY <1>7 DEF Released
  <2>2. PICK r : r = [Done(cl, cl.errs) EXCEPT !.permit = FALSE] /\ call' = [call EXCEPT ![c] = r]
    BY <1>7, <2>1 DEF Step
  <2>3. /\ r.at = "answer" /\ r.op = cl.op /\ r.errs = cl.errs
        /\ cl.errs = {} => r.limit = cl.limit /\ r.kept = cl.kept /\ (cl.misled => r.misled)
    <3>. HIDE DEF cl
    <3>1. PICK d \in CallRecords :
             /\ d = Done(cl, cl.errs) /\ d.at = "answer" /\ d.op = cl.op /\ d.errs = cl.errs
             /\ cl.errs = {} => d.limit = cl.limit /\ d.kept = cl.kept
             /\ cl.errs = {} => (cl.misled => d.misled)
      BY <1>1, <1>4, DoneIs
    <3>2. r = [d EXCEPT !.permit = FALSE]
      BY <2>2, <3>1
    <3>3. /\ r.at = d.at /\ r.op = d.op /\ r.errs = d.errs /\ r.limit = d.limit
          /\ r.kept = d.kept /\ r.misled = d.misled
      BY <3>2 DEF CallRecords
    <3>. QED
      BY <3>1, <3>3
  <2>4. TrimFits(r, live)
    <3>1. ASSUME r.op = "DeleteExtra", ~r.misled PROVE AtMost(r.kept, r.limit)
      <4>1. cl.op = "DeleteExtra" /\ cl.errs = {} /\ left = {}
        BY <1>1, <1>7, <2>3, <3>1
      <4>2. cl.kept \ left = cl.kept
        BY <4>1
      <4>. QED
        BY <1>2, <1>3, <2>3, <3>1, <4>1, <4>2
    <3>. QED
      BY <2>3, <3>1 DEF TrimFits
  <2>. QED
    BY <1>5, <2>2, <2>4
<1>8. CASE \E kept \in BOOLEAN :
               Step(c, [Released(c, {"permits.ErrInternal"}) EXCEPT !.permit = kept, !.excused = TRUE])
  <2> DEFINE errs == cl.errs \cup {"permits.ErrInternal"}
  <2>1. Released(c, {"permits.ErrInternal"}) = Done(cl, errs) /\ errs # {}
    BY DEF Released
  <2>a. PICK kept \in BOOLEAN :
          call' = [call EXCEPT ![c] = [Done(cl, errs) EXCEPT !.permit = kept, !.excused = TRUE]]
    BY <1>8, <2>1 DEF Step
  <2>2. PICK r : /\ r = [Done(cl, errs) EXCEPT !.permit = kept, !.excused = TRUE]
                 /\ call' = [call EXCEPT ![c] = r]
    BY <2>a
  <2>3. errs \in SUBSET Errors
    BY <1>4
  <2>. HIDE DEF errs, cl
  <2>4. r.at = "answer" /\ r.errs # {}
    <3>1. PICK d \in CallRecords : d = Done(cl, errs) /\ d.at = "answer" /\ d.errs = errs
      BY <1>1, <2>3, DoneFits
    <3>2. r = [d EXCEPT !.permit = kept, !.excused = TRUE]
      BY <2>2, <3>1
    <3>. QED
      BY <2>1, <3>1, <3>2 DEF CallRecords
  <2>. QED
    BY <1>5, <2>2, <2>4, TrimFree
<1>. QED
  BY <1>6, <1>7, <1>8 DEF Release

LEMMA CreatedTrims == ASSUME IInv, TrimsOK, NEW c \in Clients, Created(c) PROVE TrimsOK'
<1> DEFINE cl == call[c]
           lost == [cl EXCEPT !.at = "release?", !.did = TRUE, !.excused = TRUE,
                              !.errs = {"service.ErrInternal"}, !.key = 0]
<1>1. /\ cl \in CallRecords /\ cl.op = "subscribe"
      /\ live[cl.key] = None /\ live' = [live EXCEPT ![cl.key] = cl.user]
  BY CallKnown DEF Created, At, Consistent
<1>2. Stay(live, live', {})
  BY <1>1, ApiAssumption DEF Stay, IInv, TypeOK
<1>3. PICK r : /\ call' = [call EXCEPT ![c] = r]
               /\ \/ r = [Done(cl, {}) EXCEPT !.did = TRUE, !.permit = FALSE]
                  \/ r = lost
  BY DEF Created, Step
<1>4. r.op = "subscribe"
  <2>1. CASE r = lost
    BY <1>1, <2>1 DEF CallRecords
  <2>2. CASE r = [Done(cl, {}) EXCEPT !.did = TRUE, !.permit = FALSE]
    <3>1. {} \in SUBSET Errors
      OBVIOUS
    <3>. HIDE DEF cl
    <3>2. PICK d \in CallRecords : d = Done(cl, {}) /\ d.op = cl.op
      BY <1>1, <3>1, DoneFits
    <3>3. r = [d EXCEPT !.did = TRUE, !.permit = FALSE]
      BY <2>2, <3>2
    <3>. QED
      BY <1>1, <3>2, <3>3 DEF CallRecords
  <2>. QED
    BY <1>3, <2>1, <2>2
<1>. QED
  BY <1>2, <1>3, <1>4, OtherStep

LEMMA NotCreatedTrims == ASSUME IInv, TrimsOK, NEW c \in Clients, NotCreated(c) PROVE TrimsOK'
<1> DEFINE cl == call[c]
<1>1. cl \in CallRecords /\ cl.op = "subscribe" /\ UNCHANGED live
  BY CallKnown DEF NotCreated, At, Consistent
<1>2. PICK e, r : /\ r = [cl EXCEPT !.at = "release?", !.errs = {e}, !.key = 0]
                  /\ call' = [call EXCEPT ![c] = r]
  BY DEF NotCreated, Step
<1>3. r.op = "subscribe"
  BY <1>1, <1>2 DEF CallRecords
<1>. QED
  BY <1>1, <1>2, <1>3, OtherStep, StayUnchanged

(* What is deleted, nobody counts on. *)
LEMMA DeletedTrims == ASSUME IInv, TrimsOK, NEW c \in Clients, Deleted(c) PROVE TrimsOK'
<1> DEFINE cl == call[c]
           k == Min(cl.todo)
           deletes == [cl EXCEPT !.key = k, !.did = TRUE, !.permit = TRUE]
           next == [deletes EXCEPT !.at = "release?"]
           errs == {"service.ErrInternal"}
<1>1. /\ cl \in CallRecords /\ cl.at = "delete" /\ cl.todo # {} /\ TrimFits(cl, live)
  BY CallKnown DEF Deleted, At, Consistent, TrimsOK
<1>2. /\ live' = [live EXCEPT ![k] = None]
      /\ \/ call' = Lost([call EXCEPT ![c] = next], {k})
         \/ call' = Lost([call EXCEPT ![c] = [Done(deletes, errs) EXCEPT !.excused = TRUE]], {k})
  BY DEF Deleted
<1>3. k \in Keys
  BY <1>1, MinIn, ApiAssumption DEF CallRecords
<1>. HIDE DEF k
<1>4. Stay(live, live', {k})
  BY <1>2 DEF Stay, IInv, TypeOK
<1>5. /\ deletes \in CallRecords /\ deletes.op = cl.op /\ deletes.limit = cl.limit
      /\ deletes.todo = cl.todo /\ deletes.key = k /\ deletes.kept = cl.kept
      /\ deletes.misled = cl.misled
  BY <1>1, <1>3 DEF CallRecords
<1>. HIDE DEF deletes
<1>6. CASE call' = Lost([call EXCEPT ![c] = next], {k})
  <2>1. /\ next \in CallRecords /\ next.at = "release?" /\ next.op = cl.op /\ next.limit = cl.limit
        /\ next.todo = cl.todo /\ next.key = k /\ next.kept = cl.kept /\ next.misled = cl.misled
    BY <1>5 DEF CallRecords, Places
  <2>. HIDE DEF next
  <2> DEFINE r == Lose(next, {k})
  <2>2. /\ r.at = "release?" /\ r.op = cl.op /\ r.limit = cl.limit
        /\ r.todo = cl.todo /\ r.key = k /\ r.kept = cl.kept \ {k} /\ r.misled = cl.misled
    BY <2>1, LoseIs
  <2>. HIDE DEF r
  <2>3. TrimFits(r, live')
    <3>1. ASSUME r.op = "DeleteExtra", ~r.misled PROVE AtMost(r.kept \ r.todo, r.limit)
      <4>1. AtMost(cl.kept \ cl.todo, cl.limit)
        BY <1>1, <2>2, <3>1 DEF TrimFits
      <4>2. cl.limit \in Nat
        BY <1>1, ApiAssumption DEF CallRecords, Numbers
      <4>3. r.kept \ r.todo \in SUBSET (cl.kept \ cl.todo)
        BY <2>2
      <4>. QED
        BY <2>2, <4>1, <4>2, <4>3, AtMostLess
    <3>2. r.key \notin r.kept
      BY <2>2
    <3>. QED
      BY <2>2, <3>1, <3>2 DEF TrimFits
  <2>. QED
    BY <1>4, <1>6, <2>3, TrimLostStep DEF r
<1>7. CASE call' = Lost([call EXCEPT ![c] = [Done(deletes, errs) EXCEPT !.excused = TRUE]], {k})
  <2>1. PICK n : /\ n = [Done(deletes, errs) EXCEPT !.excused = TRUE]
                 /\ call' = Lost([call EXCEPT ![c] = n], {k})
    BY <1>7
  <2>2. errs \in SUBSET Errors
    BY DEF Errors
  <2>3. n \in CallRecords /\ n.at = "answer" /\ n.errs = errs
    <3>. HIDE DEF errs
    <3>1. PICK d \in CallRecords : d = Done(deletes, errs) /\ d.at = "answer" /\ d.errs = errs
      BY <1>5, <2>2, DoneFits
    <3>2. n = [d EXCEPT !.excused = TRUE]
      BY <2>1, <3>1
    <3>. QED
      BY <3>1, <3>2 DEF CallRecords
  <2>4. Lose(n, {k}).at = "answer" /\ Lose(n, {k}).errs # {}
    BY <2>3, LoseIs
  <2>. QED
    BY <1>4, <2>1, <2>4, TrimFree, TrimLostStep
<1>. QED
  BY <1>2, <1>6, <1>7

LEMMA NotDeletedTrims == ASSUME IInv, TrimsOK, NEW c \in Clients, NotDeleted(c) PROVE TrimsOK'
BY TrimFails DEF NotDeleted, Errors

LEMMA QueryTrims == ASSUME IInv, TrimsOK, NEW c \in Clients, Query(c) PROVE TrimsOK'
<1> DEFINE cl == call[c]
           writes == cl.op = "Update"
<1>1. cl \in CallRecords /\ cl.op \in {"read", "Update"} /\ UNCHANGED live
  BY CallKnown DEF Query
<1>2. PICK errs, did, r :
          /\ errs \in {{}, {"service.ErrNotFound"}, {"service.ErrInternal"}} /\ did \in BOOLEAN
          /\ call' = [call EXCEPT ![c] = r]
          /\ \/ r = [Done(cl, errs) EXCEPT !.did = did]
             \/ r = Done(cl, errs)
             \/ r = [Done(cl, errs) EXCEPT !.did = did, !.excused = TRUE]
  BY DEF Query, Step, Ends
<1>3. errs \in SUBSET Errors
  BY <1>2 DEF Errors
<1>4. r.op \in {"read", "Update"}
  <2>. HIDE DEF cl
  <2>1. PICK d \in CallRecords : d = Done(cl, errs) /\ d.op = cl.op
    BY <1>1, <1>3, DoneFits
  <2>2. \/ r = [d EXCEPT !.did = did]
        \/ r = d
        \/ r = [d EXCEPT !.did = did, !.excused = TRUE]
    BY <1>2, <2>1
  <2>. QED
    BY <1>1, <2>1, <2>2 DEF CallRecords
<1>. QED
  BY <1>1, <1>2, <1>4, OtherStep, StayUnchanged

LEMMA TotalTrims == ASSUME IInv, TrimsOK, NEW c \in Clients, Total(c) PROVE TrimsOK'
<1>1. call[c] \in CallRecords /\ call[c].op # "DeleteExtra" /\ UNCHANGED live
  BY CallKnown DEF Total
<1>2. PICK errs \in {{}, {"service.ErrInternal"}} : call' = [call EXCEPT ![c] = Done(call[c], errs)]
  BY DEF Total, Ends, Step
<1>3. Done(call[c], errs).op # "DeleteExtra"
  <2>1. errs \in SUBSET Errors
    BY DEF Errors
  <2>. QED
    BY <1>1, <2>1, DoneFits
<1>. QED
  BY <1>1, <1>2, <1>3, OtherStep, StayUnchanged

(* What changes its owner, nobody counts on. *)
LEMMA ChangeOwnerTrims == ASSUME IInv, TrimsOK, NEW c \in Clients, ChangeOwner(c) PROVE TrimsOK'
<1> DEFINE cl == call[c]
<1>1. cl \in CallRecords /\ cl.op = "ChangeOwner"
  BY CallKnown DEF ChangeOwner
<1>2. CASE Ends(c, {"storage.ErrInternal"}) /\ UNCHANGED live
  BY <1>2, TrimFails DEF Errors
<1>3. CASE \E u \in Users \ {cl.user}, told \in BOOLEAN :
              /\ live' = [k \in Keys |-> IF live[k] = cl.user THEN u ELSE live[k]]
              /\ call' = Lost([call EXCEPT ![c] =
                    [Done(@, IF told THEN {} ELSE {"storage.ErrInternal"}) EXCEPT
                        !.did = TRUE, !.excused = ~told]],
                    Owned(cl.user))
  <2>1. PICK u \in Users, told \in BOOLEAN :
          /\ live' = [k \in Keys |-> IF live[k] = cl.user THEN u ELSE live[k]]
          /\ call' = Lost([call EXCEPT ![c] =
                [Done(cl, IF told THEN {} ELSE {"storage.ErrInternal"}) EXCEPT
                    !.did = TRUE, !.excused = ~told]],
                Owned(cl.user))
    BY <1>3
  <2>a. PICK errs \in SUBSET Errors, excused \in BOOLEAN :
          call' = Lost([call EXCEPT ![c] = [Done(cl, errs) EXCEPT !.did = TRUE, !.excused = excused]],
                       Owned(cl.user))
    <3> DEFINE errs == IF told THEN {} ELSE {"storage.ErrInternal"}
               excused == ~told
    <3>1. errs \in SUBSET Errors /\ excused \in BOOLEAN
      BY DEF Errors
    <3>2. call' = Lost([call EXCEPT ![c] = [Done(cl, errs) EXCEPT !.did = TRUE, !.excused = excused]],
                       Owned(cl.user))
      BY <2>1
    <3>. HIDE DEF errs, excused, cl
    <3>. QED
      BY <3>1, <3>2
  <2>2. PICK r : /\ r = [Done(cl, errs) EXCEPT !.did = TRUE, !.excused = excused]
                 /\ call' = Lost([call EXCEPT ![c] = r], Owned(cl.user))
    BY <2>a
  <2>3. r \in CallRecords /\ r.op # "DeleteExtra"
    <3>. HIDE DEF cl
    <3>1. PICK d \in CallRecords : d = Done(cl, errs) /\ d.op = cl.op
      BY <1>1, <2>2, DoneFits
    <3>2. r = [d EXCEPT !.did = TRUE, !.excused = excused]
      BY <2>2, <3>1
    <3>. QED
      BY <1>1, <3>1, <3>2 DEF CallRecords
  <2>4. TrimFits(Lose(r, Owned(cl.user)), live')
    BY <2>3, LoseIs, TrimFree
  <2>5. Stay(live, live', Owned(cl.user))
    BY <2>1 DEF Stay, Owned
  <2>. QED
    BY <2>2, <2>4, <2>5, TrimLostStep
<1>. QED
  BY <1>2, <1>3 DEF ChangeOwner

LEMMA SetLimitTrims == ASSUME IInv, TrimsOK, NEW c \in Clients, SetLimit(c) PROVE TrimsOK'
<1> DEFINE cl == call[c]
           r == [cl EXCEPT !.at = "find"]
<1>1. /\ cl \in CallRecords /\ cl.at = "setLimit" /\ TrimFits(cl, live) /\ UNCHANGED live
      /\ call' = [call EXCEPT ![c] = r]
  BY CallKnown DEF SetLimit, At, Goto, TrimsOK
<1>2. /\ r.at = "find" /\ r.op = cl.op /\ r.limit = cl.limit /\ r.list = cl.list
      /\ r.kept = cl.kept /\ r.user = cl.user
  BY <1>1 DEF CallRecords
<1>. HIDE DEF r
<1>3. TrimFits(r, live')
  BY <1>1, <1>2 DEF TrimFits
<1>. QED
  BY <1>1, <1>3, TrimStep, StayUnchanged

(* DeleteExtra: a page that is not full has all that the user has, and what it has beyond *)
(* the limit is going to be deleted.                                                      *)
LEMMA FindTrims == ASSUME IInv, TrimsOK, NEW c \in Clients, Find(c) PROVE TrimsOK'
<1> DEFINE cl == call[c]
           owned == Owned(cl.user)
           page == Limited(owned, opts)
           within == Limited(page, cl.limit)
           extra == page \ within
           misled == opts # cl.list
           listed == [cl EXCEPT !.misled = misled]
           again == [cl EXCEPT !.at = "setLimit", !.list = Doubled(@)]
           next == [listed EXCEPT !.at = "delete", !.todo = extra]
<1>1. /\ cl \in CallRecords /\ cl.at = "find" /\ TrimFits(cl, live) /\ UNCHANGED live
      /\ opts \in Nat /\ cl.list \in Nat /\ cl.limit \in Nat
  BY CallKnown, ApiAssumption DEF Find, At, TrimsOK, IInv, TypeOK, Numbers, CallRecords
<1>2. ASSUME NEW r, TrimFits(r, live), call' = [call EXCEPT ![c] = r] PROVE TrimsOK'
  BY <1>1, <1>2, TrimStep, StayUnchanged
<1>3. CASE cl.op # "DeleteExtra"
  <2>1. call' = [call EXCEPT ![c] = Done(cl, {})]
    BY <1>3 DEF Find, Ends, Step
  <2>2. {} \in SUBSET Errors
    OBVIOUS
  <2>3. Done(cl, {}).op # "DeleteExtra"
    BY <1>1, <1>3, <2>2, DoneFits
  <2>. QED
    BY <1>2, <2>1, <2>3, TrimFree
<1>4. CASE cl.op = "DeleteExtra" /\ ~LoopEnds(cl, page)
  <2>1. call' = [call EXCEPT ![c] = again]
    BY <1>4 DEF Find, Step
  <2>2. /\ again.at = "setLimit" /\ again.op = cl.op /\ again.limit = cl.limit
        /\ again.list = Doubled(cl.list) /\ again.kept = cl.kept /\ again.user = cl.user
    BY <1>1 DEF CallRecords
  <2>3. cl.list = 0 => Doubled(cl.list) = 0
    BY ApiAssumption DEF Doubled
  <2>. HIDE DEF again
  <2>4. TrimFits(again, live)
    BY <1>1, <1>4, <2>2, <2>3 DEF TrimFits
  <2>. QED
    BY <1>2, <2>1, <2>4
<1>5. CASE cl.op = "DeleteExtra" /\ LoopEnds(cl, page)
  <2>1. owned \in SUBSET Nat /\ owned \subseteq Keys /\ cl.kept \subseteq owned
    BY <1>1, <1>5, ApiAssumption DEF Owned, TrimFits, CallRecords
  <2>2. cl.limit # 0
    <3>1. ASSUME cl.limit = 0 PROVE FALSE
      <4>1. cl.list = 0
        BY <1>1, <1>5, <3>1 DEF TrimFits
      <4>2. page \in SUBSET Keys
        BY <2>1 DEF Limited
      <4>3. Cardinality(page) \in Nat
        <5>. HIDE DEF page
        <5>. QED
          BY <4>2, ApiAssumption, FS_Subset, FS_CardinalityType
      <4>. QED
        BY <1>5, <4>1, <4>3 DEF LoopEnds
    <3>. QED
      BY <3>1
  <2>3. ASSUME ~misled PROVE AtMost(cl.kept \ extra, cl.limit)
    <3>1. Cardinality(Limited(owned, opts)) < opts
      BY <1>5, <2>3 DEF LoopEnds
    <3>2. page = owned
      <4>. HIDE DEF owned
      <4>. QED
        BY <1>1, <2>1, <3>1, NotFull
    <3>3. AtMost(within, cl.limit)
      <4>. HIDE DEF page
      <4>. QED
        BY <1>1, <2>1, <2>2, <3>2, LimitedSize
    <3>4. cl.kept \ extra \in SUBSET within
      <4>. HIDE DEF page, owned, within
      <4>. QED
        BY <2>1, <3>2
    <3>. HIDE DEF within, extra
    <3>. QED
      BY <1>1, <3>3, <3>4, AtMostLess
  <2>4. misled \in BOOLEAN
    OBVIOUS
  <2>5. \/ extra # {} /\ call' = [call EXCEPT ![c] = next]
        \/ extra = {} /\ call' = [call EXCEPT ![c] = Done(listed, {})]
    BY <1>5 DEF Find, Step
  <2>. HIDE DEF misled, extra
  <2>6. /\ listed \in CallRecords /\ listed.op = cl.op /\ listed.limit = cl.limit
        /\ listed.kept = cl.kept /\ listed.misled = misled
    BY <1>1, <2>4 DEF CallRecords
  <2>. HIDE DEF listed
  <2>7. CASE call' = [call EXCEPT ![c] = next]
    <3>1. /\ next.at = "delete" /\ next.op = cl.op /\ next.limit = cl.limit
          /\ next.kept = cl.kept /\ next.misled = misled /\ next.todo = extra
      BY <2>6 DEF CallRecords
    <3>. HIDE DEF next, cl
    <3>2. TrimFits(next, live)
      BY <2>3, <3>1 DEF TrimFits
    <3>. QED
      BY <1>2, <2>7, <3>2
  <2>8. CASE extra = {} /\ call' = [call EXCEPT ![c] = Done(listed, {})]
    <3> DEFINE r == Done(listed, {})
    <3>1. {} \in SUBSET Errors
      OBVIOUS
    <3>2. /\ r.at = "answer" /\ r.limit = cl.limit /\ r.kept = cl.kept /\ (misled => r.misled)
      <4>1. PICK d \in CallRecords :
               /\ d = Done(listed, {}) /\ d.at = "answer" /\ d.limit = listed.limit
               /\ d.kept = listed.kept /\ (listed.misled => d.misled)
        BY <2>6, <3>1, DoneIs
      <4>. HIDE DEF r, cl
      <4>. QED
        BY <2>6, <4>1 DEF r
    <3>3. cl.kept \ extra = cl.kept
      BY <2>8
    <3>. HIDE DEF r, cl
    <3>4. TrimFits(r, live)
      BY <2>3, <3>2, <3>3 DEF TrimFits
    <3>. QED
      BY <1>2, <2>8, <3>4 DEF r
  <2>. QED
    BY <2>5, <2>7, <2>8
<1>. QED
  BY <1>3, <1>4, <1>5

LEMMA FindFailsTrims == ASSUME IInv, TrimsOK, NEW c \in Clients, FindFails(c) PROVE TrimsOK'
BY TrimFails DEF FindFails, Errors

LEMMA AnswerTrims == ASSUME IInv, TrimsOK, NEW c \in Clients, Answer(c) PROVE TrimsOK'
<1>1. Idle.op # "DeleteExtra"
  BY DEF Idle
<1>. QED
  BY <1>1, OtherStep, StayUnchanged DEF Answer, Step

LEMMA InitTrims == ASSUME call = [c \in Clients |-> Idle] PROVE TrimsOK
BY TrimFree DEF TrimsOK, Idle

LEMMA DieTrims == ASSUME Die PROVE TrimsOK'
<1>1. ASSUME NEW c \in Clients PROVE TrimFits(call'[c], live')
  BY TrimFree DEF Die, Idle
<1>. QED
  BY <1>1 DEF TrimsOK

LEMMA NextTrims == ASSUME IInv, TrimsOK, [Next]_vars PROVE TrimsOK'
<1>1. ASSUME NEW c \in Clients, Proceed(c)
      PROVE  TrimsOK'
  BY <1>1, AllocateTrims, ReleaseTrims, CreatedTrims, NotCreatedTrims, DeletedTrims, NotDeletedTrims,
     QueryTrims, TotalTrims, ChangeOwnerTrims, SetLimitTrims, FindTrims, FindFailsTrims, AnswerTrims
     DEF Proceed
<1>2. ASSUME NEW c \in Clients,
             Refuse(c) \/ Authorize(c) \/ Arrive(c) \/ Challenge(c) \/ Acquire(c) \/ GiveUp(c)
      PROVE  TrimsOK'
  BY <1>2, RefuseTrims, ArriveTrims, ChallengeTrims, AcquireTrims, GiveUpTrims
<1>3. CASE UNCHANGED vars
  BY <1>3 DEF vars, TrimsOK
<1>4. CASE Die
  BY <1>4, DieTrims
<1>. QED
  BY <1>1, <1>2, <1>3, <1>4 DEF Next

(* A trim (DeleteExtra) that is answered with success leaves the user no more than the   *)
(* limit of what he had all along, unless its last list ran with the limit of another    *)
(* call: for any number of calls, subscriptions and limits.                              *)
THEOREM TrimsLeaveLimit == Spec => []TrimLeavesLimit
<1>1. TrimsOK => TrimLeavesLimit
  BY DEF TrimsOK, TrimFits, TrimLeavesLimit, Answers, At, AtMost
<1>2. Init => TrimsOK
  BY InitTrims DEF Init
<1>3. IInv /\ TrimsOK /\ [Next]_vars => TrimsOK'
  BY NextTrims
<1>. QED
  BY <1>1, <1>2, <1>3, Invariance, PTL DEF Spec
=============================================================================
