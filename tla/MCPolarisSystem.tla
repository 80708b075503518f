-------------------------- MODULE MCPolarisSystem --------------------------
(* A small instance of PolarisSystem and its history for TLC. *)
EXTENDS SystemHistory

(* The service of examples/quickstart, with a ttl whose lease survives one *)
(* lost heartbeat at the times of the configuration.                       *)
EchoServer == [namespace |-> "default", name |-> "EchoServerPHP"]
EchoInfo ==
  [namespace |-> "default", service |-> "EchoServerPHP", host |-> "self",
   port |-> 9996, heartbeat |-> "true", weight |-> 88, ttl |-> 2]
EchoBeat ==
  [namespace |-> "default", service |-> "EchoServerPHP", host |-> "self", port |-> 9996]
EchoToken == <<"polaris_php_sdk__", "EchoServerPHP">>
EchoQuery == [namespace |-> "default", service |-> "EchoServerPHP"]

OtherInstance ==
  {[id |-> "other", host |-> "other", port |-> 9996, healthy |-> TRUE,
    metadata |-> [k \in {} |-> ""]]}
=============================================================================
