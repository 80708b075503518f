---------------------------- MODULE ServiceCache ----------------------------
(***************************************************************************)
(* Consumer processes that look a service up (polaris/consumer_core.hpp),  *)
(* and what their SDK knows of it: a copy of the server's data that is     *)
(* refreshed periodically and kept on disk for the time the server cannot  *)
(* be reached (include/polaris/plugin.h, LocalRegistry; model.h,           *)
(* ServiceDataStatus; polaris.yaml.template, localCache).                  *)
(***************************************************************************)
EXTENDS ConsumerRequests

CONSTANTS
  App,          \* consumer processes of one host
  Method,       \* the lookups their scripts use
  Query,        \* the array they give to them
  LookupTime,   \* the timeout they give to them
  RefreshTime,  \* serviceRefreshInterval
  ContactTime,  \* the longest time the SDK does not reach the server
  MaxRuns,      \* bound: how often processes are started
  None

VARIABLES
  app,   \* app[c]: the process c
  disk,  \* the data in persistDir, or None
  runs   \* how often processes were started

cacheVars == <<app, disk, runs>>

ServiceDataStatus == {"kDataNotInit", "kDataInitFromDisk", "kDataIsSyncing"}

NoAnswer == [code |-> "none", instances |-> {}]

(* watched: the service a handler is registered with the server for; age:  *)
(* the time since the server was last reached, or the handler registered;  *)
(* clock: the time the lookup has waited; answer: what the script has just *)
(* been told, and deals with in no time.                                   *)
NoProcess ==
  [pc |-> "down", method |-> "none", status |-> "kDataNotInit", view |-> {},
   watched |-> None, age |-> 0, clock |-> 0, answer |-> NoAnswer]

CacheInit ==
  /\ app = [c \in App |-> NoProcess]
  /\ disk = None
  /\ runs = 0

-----------------------------------------------------------------------------
(* The requests, which the extension rebuilds for every call. *)
Request(method) ==
  IF method = "InitService" THEN DoInitService(Query, LookupTime)
  ELSE IF method = "GetOneInstance" THEN DoGetOneInstance(Query, LookupTime)
  ELSE IF method = "GetInstances" THEN DoGetInstances(Query, LookupTime)
  ELSE DoGetAllInstances(Query, LookupTime)

(* What the SDK chooses from the data: healthy instances, or all of them   *)
(* when there are none; the whole list for GetAllInstances; and one of     *)
(* them for GetOneInstance.                                                *)
Available(view) ==
  LET healthy == {i \in view : i.healthy} IN IF healthy = {} THEN view ELSE healthy

Choices(method, view) ==
  IF method = "InitService" THEN {{}}
  ELSE IF method = "GetOneInstance" THEN {{i} : i \in Available(view)}
  ELSE IF method = "GetInstances" /\ ~ Request(method).include_unhealthy
  THEN {Available(view)}
  ELSE {view}

-----------------------------------------------------------------------------
(* The script makes its client and calls InitConsumer.  Data of an earlier *)
(* process is there.                                                       *)
StartApp(c) ==
  /\ app[c].pc = "down"
  /\ runs < MaxRuns
  /\ runs' = runs + 1
  /\ app' = [app EXCEPT ![c] =
               IF disk = None THEN [NoProcess EXCEPT !.pc = "idle"]
               ELSE [NoProcess EXCEPT !.pc = "idle", !.status = "kDataInitFromDisk", !.view = disk]]
  /\ UNCHANGED disk

(* PolarisClient::InitService, GetOneInstance, GetInstances and            *)
(* GetAllInstances.  The first one registers the handler.                  *)
Lookup(c, method) ==
  /\ app[c].pc = "idle"
  /\ app' = [app EXCEPT ![c].pc = "asking", ![c].method = method,
                        ![c].watched = IF @ = None THEN Request(method).key ELSE @]
  /\ UNCHANGED <<disk, runs>>

(* A lookup waits for data of the server, and when its time is over takes  *)
(* that of the disk.                                                       *)
Expired(c) == app[c].clock = Request(app[c].method).timeout

Ready(c) ==
  /\ app[c].pc = "asking"
  /\ app[c].status = "kDataIsSyncing" \/ Expired(c)

Respond(c) ==
  LET r == app[c]
      Tell(code, chosen) ==
        app' = [app EXCEPT ![c].pc = "told", ![c].method = "none", ![c].clock = 0,
                           ![c].answer = convertServiceResponseToZval(code, chosen)] IN
  /\ Ready(c)
  /\ \/ /\ r.status # "kDataNotInit"
        /\ \E chosen \in Choices(r.method, r.view) : Tell("kReturnOk", chosen)
     \/ /\ r.status = "kDataNotInit"
        /\ Tell("kReturnTimeout", {})
  /\ UNCHANGED <<disk, runs>>

(* The script has printed the answer. *)
Proceed(c) ==
  /\ app[c].pc = "told"
  /\ app' = [app EXCEPT ![c].pc = "idle", ![c].answer = NoAnswer]
  /\ UNCHANGED <<disk, runs>>

(* Mutant: what the server has is added to the copy. *)
RefreshMerges(c, found) ==
  /\ app[c].watched # None
  /\ app[c].status # "kDataIsSyncing" \/ app[c].age >= RefreshTime
  /\ app' = [app EXCEPT ![c].status = "kDataIsSyncing", ![c].view = @ \cup found,
                        ![c].age = 0]
  /\ disk' = found
  /\ UNCHANGED runs

(* The server's answer to the SDK: found is what it has on the service.    *)
(* The data is written to the disk as well.                                *)
Refresh(c, found) ==
  /\ app[c].watched # None
  /\ app[c].status # "kDataIsSyncing" \/ app[c].age >= RefreshTime
  /\ app' = [app EXCEPT ![c].status = "kDataIsSyncing", ![c].view = found, ![c].age = 0]
  /\ disk' = found
  /\ UNCHANGED runs

(* The process ends, by itself or not. *)
StopApp(c) ==
  /\ app[c].pc # "down"
  /\ app' = [app EXCEPT ![c] = NoProcess]
  /\ UNCHANGED <<disk, runs>>

(* A second passes. *)
MayWait(c) ==
  /\ app[c].pc # "told" /\ ~ Ready(c)
  /\ app[c].watched # None => app[c].age < ContactTime

CacheTick ==
  /\ \A c \in App : MayWait(c)
  /\ app' = [c \in App |->
       [app[c] EXCEPT !.age   = IF app[c].watched # None THEN @ + 1 ELSE @,
                      !.clock = IF app[c].pc = "asking" THEN @ + 1 ELSE @]]
  /\ UNCHANGED <<disk, runs>>

CacheTypeOK(Entry) ==
  /\ app \in [App -> [pc : {"down", "idle", "asking", "told"}, method : Method \cup {"none"},
                      status : ServiceDataStatus, view : SUBSET Entry,
                      watched : {Request(method).key : method \in Method} \cup {None},
                      age : 0 .. ContactTime, clock : 0 .. LookupTime,
                      answer : [code : {"none", "kReturnOk", "kReturnTimeout"},
                                instances : SUBSET {convertInstanceToArray(i) : i \in Entry}]]]
  /\ disk \in (SUBSET Entry) \cup {None}
  /\ runs \in 0 .. MaxRuns
=============================================================================
