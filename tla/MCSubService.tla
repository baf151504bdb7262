---------------------------- MODULE MCSubService ----------------------------
(***************************************************************************)
(* Instances of SubService: two concurrent callers, two owners that may    *)
(* share the account of their group, one or two interests and urls.        *)
(***************************************************************************)
EXTENDS SubService, TLC

CONSTANTS o1, o2, group

(* The usage service grants permits to the user or to the whole group. *)
ByUserOrGroup == (o1 :> {o1, group}) @@ (o2 :> {o2})

ByUser == [o \in {o1, o2} |-> {o}]

OneMove == {<<o1, o2>>}
OneLegacyKey == {<<1, 2>>}

(* No action tells callers apart. *)
CallerSymmetry == Permutations(Clients)
=============================================================================
