--------------------------- MODULE MCServiceCalls ---------------------------
(* Small instances of ServiceCalls for TLC. *)
EXTENDS ServiceCalls, TLC

Pre  == [id |-> "i1", host |-> "127.0.0.4", port |-> 8080, healthy |-> TRUE,
         metadata |-> [env |-> "pre"]]
Prod == [id |-> "i2", host |-> "127.0.0.3", port |-> 8080, healthy |-> TRUE,
         metadata |-> [env |-> "prod"]]

TwoInstances == {Pre, Prod}

(* examples/circuitbreaker/circuitbreaker.php. *)
PlainQuery == [namespace |-> "default", service |-> "polaris-php-provider"]
NoRule == [from |-> [env |-> "none"], to |-> [env |-> "none"]]

(* examples/route/route.php and the rule its README configures. *)
RouteQuery == PlainQuery @@ [source_service |-> [metadata |-> [env |-> "prod"]]]
RouteRule == [from |-> [env |-> "prod"], to |-> [env |-> "pre"]]

(* Scripts that report as the quickstart calls an instance, and as the     *)
(* documentation allows.                                                   *)
ByAddress == {"host", "port"}
AllKeys == ByAddress \cup {"instance_id"}

Symmetry == Permutations(Consumer)
=============================================================================
