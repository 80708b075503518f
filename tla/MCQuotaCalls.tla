---------------------------- MODULE MCQuotaCalls ----------------------------
(* Small instances of QuotaCalls for TLC. *)
EXTENDS QuotaCalls, TLC

(* The service of examples/ratelimit, with and without the optional amount. *)
Single == [namespace |-> "default", service |-> "polaris_php_test",
           labels |-> [env |-> "pre", method |-> "GetUserInfo"]]
Double == Single @@ [amount |-> 2]

Queries == {Single, Double}

(* A rule for all callers of the service. *)
ServiceRule == [labels |-> EmptyMap, quota |-> 3]

Symmetry == Permutations(Script)
=============================================================================
