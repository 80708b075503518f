---------------------------- MODULE SdkRequests ----------------------------
(***************************************************************************)
(* The classes of include/polaris the extension fills in.  A constructor   *)
(* gives each setting the default the headers document; the code then      *)
(* calls setters, which are updates of the record.  Flow ids and call      *)
(* statistics (delay, return code), which nothing here depends on, are     *)
(* left out.                                                               *)
(***************************************************************************)
EXTENDS PhpArray

ServiceKey(namespace, name) == [namespace |-> namespace, name |-> name]

ServiceInfo(key, metadata) == [key |-> key, metadata |-> metadata]

NoSource == ServiceInfo(ServiceKey("", ""), EmptyMap)

(* A timeout that was not set: global.api.timeout holds. *)
ApiTimeout == 0

LoadBalanceType ==
  {"weightedRandom", "ringHash", "maglev", "l5cst", "simpleHash",
   "cMurmurHash", "localityAware", "default"}

MetadataFailoverType ==
  {"kMetadataFailoverNone", "kMetadataFailoverAll", "kMetadataFailoverNotKey"}

CallRetStatus == {"kCallRetOk", "kCallRetTimeout", "kCallRetError"}

QuotaResultCode == {"kQuotaResultOk", "kQuotaResultLimited", "kQuotaResultWait"}

LimitCallResultType ==
  {"kLimitCallResultLimited", "kLimitCallResultFailed", "kLimitCallResultOk"}

-----------------------------------------------------------------------------
(* provider.h *)

InstanceRegisterRequest(key, token, host, port) ==
  [op |-> "register", key |-> key, token |-> token, host |-> host, port |-> port,
   vpc_id |-> "", timeout |-> ApiTimeout, protocol |-> "", weight |-> 100, priority |-> 0,
   version |-> "", metadata |-> EmptyMap, check |-> FALSE, ttl |-> 5]

InstanceDeregisterRequest(key, token, host, port) ==
  [op |-> "deregister", key |-> key, token |-> token, host |-> host, port |-> port,
   vpc_id |-> "", timeout |-> ApiTimeout]

InstanceHeartbeatRequest(key, token, host, port) ==
  [op |-> "heartbeat", key |-> key, token |-> token, host |-> host, port |-> port,
   vpc_id |-> "", timeout |-> ApiTimeout]

-----------------------------------------------------------------------------
(* consumer.h *)

GetOneInstanceRequest(key) ==
  [key |-> key, timeout |-> ApiTimeout, hash_key |-> 0, hash_string |-> "",
   replicate_index |-> 0, backup_instance_num |-> 0,
   load_balance_type |-> "default", ignore_half_open |-> FALSE,
   source_service |-> NoSource, source_set_name |-> "", canary |-> "",
   labels |-> EmptyMap, metadata |-> EmptyMap,
   metadata_failover |-> "kMetadataFailoverNone"]

GetInstancesRequest(key) ==
  [key |-> key, timeout |-> ApiTimeout, include_unhealthy |-> FALSE,
   include_circuit_break |-> FALSE, skip_route_filter |-> FALSE,
   source_service |-> NoSource, source_set_name |-> "", canary |-> "",
   metadata |-> EmptyMap, metadata_failover |-> "kMetadataFailoverNone"]

ServiceCallResult ==
  [key |-> ServiceKey("", ""), instance_id |-> "", host |-> "", port |-> 0,
   ret_status |-> "kCallRetOk", source |-> ServiceKey("", ""),
   subset |-> EmptyMap, labels |-> EmptyMap]

-----------------------------------------------------------------------------
(* limit.h *)

QuotaRequest ==
  [key |-> ServiceKey("", ""), labels |-> EmptyMap, acquire_amount |-> 1,
   subset |-> EmptyMap]

LimitCallResult ==
  [key |-> ServiceKey("", ""), labels |-> EmptyMap, subset |-> EmptyMap,
   response_result |-> "kLimitCallResultOk"]
=============================================================================
