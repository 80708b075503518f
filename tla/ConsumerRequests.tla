-------------------------- MODULE ConsumerRequests --------------------------
(***************************************************************************)
(* What polaris/consumer_core.hpp makes of the arrays of consumer scripts, *)
(* and the arrays it answers with.                                         *)
(***************************************************************************)
EXTENDS SdkRequests

ConvertToLoadBalanceType(val) ==
  IF val \in LoadBalanceType THEN val ELSE "weightedRandom"

ConvertToMetadataFailoverType(val) ==
  IF val = "notKey" THEN "kMetadataFailoverNotKey"
  ELSE IF val = "all" THEN "kMetadataFailoverAll"
  ELSE "kMetadataFailoverNone"

(* Mutants: the timeout is forgotten; what is no error is a timeout. *)
convertToCallRetStatusNoTimeout(val) ==
  IF val = "error" THEN "kCallRetError" ELSE "kCallRetOk"

convertToCallRetStatusNoOk(val) ==
  IF val = "error" THEN "kCallRetError" ELSE "kCallRetTimeout"

convertToCallRetStatus(val) ==
  IF val = "error" THEN "kCallRetError"
  ELSE IF val = "timeout" THEN "kCallRetTimeout"
  ELSE "kCallRetOk"

(* The service that the array a names. *)
Service(a) == ServiceKey(Text(a, "namespace"), Text(a, "service"))

(* Where GetInstances looks the metadata of the source service up: in the  *)
(* array of the request.                                                   *)
SourceOfRequest(a) ==
  IF Found(a, "source_service")
  THEN ServiceInfo(Service(Nested(a, "source_service")), Nested(a, "metadata"))
  ELSE NoSource

(* The others look into the array of the source service. *)
SourceService(a) ==
  IF Found(a, "source_service")
  THEN ServiceInfo(Service(Nested(a, "source_service")),
                   Nested(a["source_service"], "metadata"))
  ELSE NoSource

(* Mutants of DoGetOneInstance: the test of ignore_half_open is the wrong  *)
(* way round; namespace and service change places.                         *)
OneInstanceSkips(a, timeout) ==
  [GetOneInstanceRequest(Service(TransferToStdMap(a))) EXCEPT
     !.timeout = timeout,
     !.ignore_half_open = ~ Flag(TransferToStdMap(a), "ignore_half_open"),
     !.source_service = SourceService(a)]

OneInstanceSwapped(a, timeout) ==
  [GetOneInstanceRequest(ServiceKey(Text(a, "service"), Text(a, "namespace"))) EXCEPT
     !.timeout = timeout]

(* The request of InitService and GetOneInstance.  The set name is the     *)
(* name of the key; labels are looked up under their own key and copied    *)
(* from the metadata.                                                      *)
OneInstance(a, timeout) ==
  LET params == TransferToStdMap(a) IN
  [GetOneInstanceRequest(Service(params)) EXCEPT
     !.timeout             = timeout,
     !.canary              = Text(params, "canary"),
     !.source_set_name     = "source_set_name",
     !.ignore_half_open    = Flag(params, "ignore_half_open"),
     !.hash_string         = Text(params, "hash_string"),
     !.hash_key            = Number(params, "hash_key"),
     !.replicate_index     = Number(params, "replicate_index"),
     !.backup_instance_num = Number(params, "backup_instance_num"),
     !.load_balance_type   = ConvertToLoadBalanceType(Text(params, "load_balance_type")),
     !.metadata_failover   =
        ConvertToMetadataFailoverType(Text(params, "metadata_failover_type")),
     !.metadata            = Nested(a, "metadata"),
     !.labels              = IF Found(a, "labels") THEN Nested(a, "metadata") ELSE EmptyMap,
     !.source_service      = SourceService(a)]

(* Mutant: a flag of GetInstances counts as set unless it says "false". *)
InstancesUnlessFalse(a, timeout, source) ==
  LET params == TransferToStdMap(a) IN
  [GetInstancesRequest(Service(params)) EXCEPT
     !.timeout = timeout, !.source_service = source,
     !.include_unhealthy     = Text(params, "include_unhealthy_instances") # "false",
     !.include_circuit_break = Text(params, "include_circuit_breaker_instances") # "false"]

(* The request of GetInstances and GetAllInstances. *)
Instances(a, timeout, source) ==
  LET params == TransferToStdMap(a) IN
  [GetInstancesRequest(Service(params)) EXCEPT
     !.timeout               = timeout,
     !.include_unhealthy     = Flag(params, "include_unhealthy_instances"),
     !.include_circuit_break = Flag(params, "include_circuit_breaker_instances"),
     !.skip_route_filter     = Flag(params, "skip_route_filter"),
     !.canary                = Text(params, "canary"),
     !.source_set_name       = Text(params, "source_set_name"),
     !.metadata_failover     =
        ConvertToMetadataFailoverType(Text(params, "metadata_failover_type")),
     !.metadata              = Nested(a, "metadata"),
     !.source_service        = source]

DoInitService(a, timeout)     == OneInstance(a, timeout)
DoGetOneInstance(a, timeout)  == OneInstance(a, timeout)
DoGetInstances(a, timeout)    == Instances(a, timeout, SourceOfRequest(a))
DoGetAllInstances(a, timeout) == Instances(a, timeout, SourceService(a))

(* Mutant: the object itself, with its id. *)
convertInstanceToArrayRaw(i) == i

(* What a script is told of an instance: everything but its id. *)
convertInstanceToArray(i) ==
  [host |-> i.host, port |-> i.port, healthy |-> i.healthy,
   metadata |-> TransferMapToArray(i.metadata)]

(* The answer of a lookup: of an answered one, the instances. *)
convertServiceResponseToZval(code, instances) ==
  [code      |-> code,
   instances |-> IF code = "kReturnOk" THEN {convertInstanceToArray(i) : i \in instances}
                 ELSE {}]

DoUpdateServiceCallResult(a) ==
  LET params == TransferToStdMap(a) IN
  [ServiceCallResult EXCEPT
     !.key         = Service(params),
     !.instance_id = Text(params, "instance_id"),
     !.host        = Text(params, "host"),
     !.port        = Number(params, "port"),
     !.ret_status  = convertToCallRetStatus(Text(params, "ret_status")),
     !.subset      = Nested(a, "subset"),
     !.labels      = Nested(a, "labels"),
     !.source      = IF Found(a, "source_service")
                     THEN Service(Nested(a, "source_service")) ELSE @]
=============================================================================
