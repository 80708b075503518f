-------------------------- MODULE MCProviderLease --------------------------
(* Small instances of ProviderLease for TLC. *)
EXTENDS ProviderLease, TLC

(* The arrays of examples/quickstart/provider/provider.php. *)
QuickstartInfo ==
  [namespace |-> "default", service |-> "EchoServerPHP", host |-> "self",
   port |-> 9996, heartbeat |-> "true", protocol |-> "TCP", vpc_id |-> "",
   weight |-> 88, ttl |-> 5, metadata |-> [client |-> "php"]]

QuickstartBeat ==
  [namespace |-> "default", service |-> "EchoServerPHP", host |-> "self", port |-> 9996]

QuickstartToken == <<"polaris_php_sdk__", "EchoServerPHP">>

(* The same array with the service's own token, as provider.h asks for it. *)
ConsoleToken == <<"", "t0ken">>
TokenInfo == QuickstartInfo @@ [token |-> "t0ken"]
TokenBeat == HeartbeatArray(TokenInfo)

(* Processes are interchangeable (safety run only). *)
Symmetry == Permutations(Process)
=============================================================================
