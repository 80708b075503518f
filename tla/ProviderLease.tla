--------------------------- MODULE ProviderLease ---------------------------
(***************************************************************************)
(* The life of one service instance: provider scripts that register it and *)
(* keep it alive with heartbeats (examples/quickstart/provider), the       *)
(* requests polaris/provider_core.hpp builds for them, a network that      *)
(* loses and delays them, and the registry of the polaris server.          *)
(*                                                                         *)
(* One Tick is one second; PHP code between two calls takes no time.       *)
(***************************************************************************)
EXTENDS SdkRequests

CONSTANTS
  Process,      \* provider processes that may serve the same host and port
  Info,         \* the array the scripts give to Register and Deregister
  BeatInfo,     \* the array the scripts give to Heartbeat
  ServiceToken, \* the token the server insists on, or None
  RegisterTime, \* timeout the scripts give to Register and Deregister
  CallTime,     \* global.api.timeout, which bounds Heartbeat
  SleepTime,    \* pause of the scripts between two heartbeats
  SettleTime,   \* how long a heartbeat may not find a new instance yet
  MaxLost,      \* bound: heartbeats of a process that fail in a row
  MaxStarts,    \* bound: how often processes are started
  None

ASSUME LeaseAssumption ==
  /\ Number(Info, "ttl") \in Nat
  /\ RegisterTime \in Nat \ {0}
  /\ {CallTime, SleepTime, SettleTime, MaxLost, MaxStarts} \subseteq Nat

VARIABLES
  proc,   \* proc[p]: the script process p runs
  late,   \* requests still on their way although their call is over, each with
          \* the run of a script it comes from
  inst,   \* the server's record of the instance, or None
  starts  \* how often processes were started

vars == <<proc, late, inst, starts>>

-----------------------------------------------------------------------------
(* The requests (polaris/provider_core.hpp).                               *)

(* The caller's token, or one made up from the service name. *)
Token(params) ==
  IF Text(params, "token") = ""
  THEN <<"polaris_php_sdk__", Text(params, "service")>>
  ELSE <<"", Text(params, "token")>>

Key(params) == ServiceKey(Text(params, "namespace"), Text(params, "service"))

(* Mutant: the health check flag is left at the default of the SDK. *)
RegisterInstanceUnchecked(a, timeout) ==
  LET params == TransferToStdMap(a) IN
  [InstanceRegisterRequest(Key(params), Token(params), Text(params, "host"), Number(params, "port"))
     EXCEPT !.timeout = timeout, !.vpc_id = Text(params, "vpc_id"),
            !.ttl = Number(params, "ttl"), !.weight = Number(params, "weight")]

RegisterInstance(a, timeout) ==
  LET params == TransferToStdMap(a)
      healthcheck == Flag(params, "heartbeat") IN
  [InstanceRegisterRequest(Key(params), Token(params), Text(params, "host"), Number(params, "port"))
     EXCEPT !.timeout  = timeout,
            !.protocol = Text(params, "protocol"),
            !.vpc_id   = Text(params, "vpc_id"),
            !.version  = Text(params, "version"),
            !.metadata = Nested(a, "metadata"),
            !.check    = healthcheck,
            !.ttl      = IF healthcheck THEN Number(params, "ttl") ELSE 0,
            !.weight   = Number(params, "weight"),
            !.priority = Number(params, "priority")]

DeregisterInstance(a, timeout) ==
  LET params == TransferToStdMap(a) IN
  [InstanceDeregisterRequest(Key(params), Token(params), Text(params, "host"), Number(params, "port"))
     EXCEPT !.timeout = timeout, !.vpc_id = Text(params, "vpc_id")]

(* Mutants: the token has no default; host and service change places. *)
DoHeartbeatBareToken(a) ==
  LET params == TransferToStdMap(a) IN
  [InstanceHeartbeatRequest(Key(params), <<"", Text(params, "token")>>,
                            Text(params, "host"), Number(params, "port"))
     EXCEPT !.vpc_id = Text(params, "vpc_id")]

DoHeartbeatSwapped(a) ==
  LET params == TransferToStdMap(a) IN
  [InstanceHeartbeatRequest(ServiceKey(Text(params, "namespace"), Text(params, "host")),
                            Token(params), Text(params, "service"), Number(params, "port"))
     EXCEPT !.vpc_id = Text(params, "vpc_id")]

(* No timeout is set. *)
DoHeartbeat(a) ==
  LET params == TransferToStdMap(a) IN
  [InstanceHeartbeatRequest(Key(params), Token(params), Text(params, "host"), Number(params, "port"))
     EXCEPT !.vpc_id = Text(params, "vpc_id")]

(* What Polaris::Heartbeat of polaris.class.php passes on for the instance *)
(* that the array a describes.                                             *)
HeartbeatArray(a) ==
  [k \in {"namespace", "service", "host", "port", "vpc_id"} |->
     IF k = "port" THEN Number(a, k) ELSE Text(a, k)]

Registration   == RegisterInstance(Info, RegisterTime)
Deregistration == DeregisterInstance(Info, RegisterTime)
Beat           == DoHeartbeat(BeatInfo)

-----------------------------------------------------------------------------
(***************************************************************************)
(* A script process.  clock is the time since its call or its pause began; *)
(* sent says that its request is on the way; lost counts the heartbeats    *)
(* that failed in a row; run numbers the runs of scripts; live says that   *)
(* the server has taken a request of this run; api is what InitProvider    *)
(* achieved.                                                               *)
(***************************************************************************)
Down == [pc |-> "down", run |-> 0, clock |-> 0, sent |-> FALSE, lost |-> 0,
         live |-> FALSE, api |-> FALSE]

CallPc == {"registering", "beating", "deregistering"}
LoopPc == {"beat", "beating", "sleep"}
Pc     == CallPc \cup LoopPc \cup {"down", "register"}

RequestOf(pc) == IF pc = "registering" THEN Registration
                 ELSE IF pc = "beating" THEN Beat
                 ELSE Deregistration

(* The longest a process stays at pc. *)
Limit(pc) == IF pc = "sleep" THEN SleepTime
             ELSE IF RequestOf(pc).timeout = ApiTimeout THEN CallTime
             ELSE RequestOf(pc).timeout

(* Mutant: the loop ends with its first heartbeat. *)
AfterLeavesLoop(pc) == IF pc = "registering" THEN "beat" ELSE "done"

(* Where the script goes on after a call: it looks at no return code but   *)
(* to print it.                                                            *)
After(pc) == IF pc = "registering" THEN "beat" ELSE "sleep"

Begin(p, pc) ==
  proc' = [proc EXCEPT ![p].pc = pc, ![p].clock = 0, ![p].sent = TRUE]

Return(p, lost, live) ==
  LET r == proc[p] IN
  proc' = [proc EXCEPT ![p] =
             IF r.pc = "deregistering" THEN Down
             ELSE [r EXCEPT !.pc = After(r.pc), !.clock = 0, !.sent = FALSE,
                            !.lost = lost, !.live = live]]

Init ==
  /\ proc = [p \in Process |-> Down]
  /\ late = {}
  /\ inst = None
  /\ starts = 0

(* The script makes its PolarisClient and calls InitProvider, which leaves *)
(* obj->provider null when it fails.                                       *)
Start(p) ==
  /\ proc[p].pc = "down"
  /\ starts < MaxStarts
  /\ \E ok \in BOOLEAN :
       proc' = [proc EXCEPT ![p] = [Down EXCEPT !.pc = "register", !.run = starts + 1, !.api = ok]]
  /\ starts' = starts + 1
  /\ UNCHANGED <<late, inst>>

(* PolarisClient::Register, Heartbeat and Deregister: a null API pointer   *)
(* is answered with -1 at once, otherwise the request leaves.              *)
Call(p, from, pc) ==
  /\ proc[p].pc = from
  /\ proc[p].api
  /\ Begin(p, pc)
  /\ UNCHANGED <<late, inst, starts>>

CallWithoutApi(p, from, to) ==
  /\ proc[p].pc = from
  /\ ~ proc[p].api
  /\ proc' = [proc EXCEPT ![p] =
                IF to = "down" THEN Down ELSE [@ EXCEPT !.pc = to, !.clock = 0]]
  /\ UNCHANGED <<late, inst, starts>>

Register(p)   == Call(p, "register", "registering") \/ CallWithoutApi(p, "register", "beat")
Heartbeat(p)  == Call(p, "beat", "beating") \/ CallWithoutApi(p, "beat", "sleep")
Deregister(p) == Call(p, "beat", "deregistering") \/ CallWithoutApi(p, "beat", "down")

(* sleep(4) is over. *)
Wake(p) ==
  /\ proc[p].pc = "sleep"
  /\ proc[p].clock = SleepTime
  /\ proc' = [proc EXCEPT ![p].pc = "beat", ![p].clock = 0]
  /\ UNCHANGED <<late, inst, starts>>

-----------------------------------------------------------------------------
(* The server, as provider.h describes it.                                 *)

Grace == 3

(* Which instance a request is about. *)
Address(req) == <<req.key, req.host, req.port, req.vpc_id>>

Allowed(req) == ServiceToken = None \/ req.token = ServiceToken
Known(req)   == inst # None /\ Address(inst.req) = Address(req)

(* A heartbeat that comes right after the registration may find nothing.   *)
MaySee(req, seen) == seen \/ (req.op = "heartbeat" /\ inst # None /\ inst.fresh > 0)

Accepts(req, seen) ==
  /\ Allowed(req)
  /\ IF req.op = "register" THEN inst = None ELSE Known(req) /\ seen

Serve(req, seen) ==
  inst' =
    IF ~ Accepts(req, seen) THEN inst
    ELSE IF req.op = "register"
         THEN [req |-> req, left |-> Grace * req.ttl, fresh |-> SettleTime]
    ELSE IF req.op = "heartbeat" THEN [inst EXCEPT !.left = Grace * inst.req.ttl]
    ELSE None

(* An instance without health check is never found unhealthy. *)
Healthy == inst # None /\ (inst.req.check => inst.left > 0)

(* The server takes the request of a call that still waits for it; the     *)
(* answer may be lost.                                                     *)
Handle(p, seen, answered) ==
  LET r    == proc[p]
      req  == RequestOf(r.pc)
      lost == IF seen THEN 0 ELSE r.lost + 1
      live == r.live \/ Accepts(req, seen) IN
  /\ r.pc \in CallPc
  /\ r.sent
  /\ MaySee(req, seen)
  /\ lost <= MaxLost
  /\ Serve(req, seen)
  /\ IF answered THEN Return(p, lost, live)
     ELSE proc' = [proc EXCEPT ![p].sent = FALSE, ![p].lost = lost, ![p].live = live]
  /\ UNCHANGED <<late, starts>>

(* The request of a call that has not reached the server.  Heartbeats of   *)
(* one run that are under way at the same time count as one: a further one *)
(* only prolongs the lease.                                                *)
InFlight(r) == IF r.sent THEN {[run |-> r.run, req |-> RequestOf(r.pc)]} ELSE {}

(* The call returns an error, at the latest when its time is over.  Its    *)
(* request is lost, or arrives later.                                      *)
GiveUp(p) ==
  LET r    == proc[p]
      lost == IF r.sent /\ r.pc = "beating" THEN r.lost + 1 ELSE r.lost IN
  /\ r.pc \in CallPc
  /\ lost <= MaxLost
  /\ late' \in {late, late \cup InFlight(r)}
  /\ Return(p, lost, r.live)
  /\ UNCHANGED <<inst, starts>>

HandleLate(m, seen) ==
  /\ m \in late
  /\ MaySee(m.req, seen)
  /\ Serve(m.req, seen)
  /\ late' = late \ {m}
  /\ UNCHANGED <<proc, starts>>

DropLate(m) ==
  /\ m \in late
  /\ late' = late \ {m}
  /\ UNCHANGED <<proc, inst, starts>>

(* The process dies, at any point. *)
Crash(p) ==
  LET r == proc[p] IN
  /\ r.pc # "down"
  /\ proc' = [proc EXCEPT ![p] = Down]
  /\ late' \in {late, late \cup InFlight(r)}
  /\ UNCHANGED <<inst, starts>>

(* A second passes.  It does not while a process has something to do.      *)
Waiting(p) ==
  \/ proc[p].pc = "down"
  \/ /\ proc[p].pc \in CallPc \cup {"sleep"}
     /\ proc[p].clock < Limit(proc[p].pc)

Older(n) == IF n = 0 THEN 0 ELSE n - 1

Tick ==
  /\ \A p \in Process : Waiting(p)
  /\ proc' = [p \in Process |->
                IF proc[p].pc = "down" THEN Down
                ELSE [proc[p] EXCEPT !.clock = @ + 1]]
  /\ inst' = IF inst = None THEN None
             ELSE [inst EXCEPT !.left = Older(@), !.fresh = Older(@)]
  /\ UNCHANGED <<late, starts>>

(* What a running process does unless it crashes or decides to stop. *)
Run(p) ==
  \/ Register(p) \/ Heartbeat(p) \/ Wake(p) \/ GiveUp(p)
  \/ \E seen, answered \in BOOLEAN : Handle(p, seen, answered)

(* Everything but the passing of time. *)
Step ==
  \/ \E p \in Process : Run(p) \/ Start(p) \/ Deregister(p) \/ Crash(p)
  \/ \E m \in late :
       DropLate(m) \/ \E seen \in BOOLEAN : HandleLate(m, seen)

Next == Step \/ Tick

Spec == Init /\ [][Next]_vars

(* Time passes, and the operating system runs every process. *)
Fairness == WF_vars(Tick) /\ \A p \in Process : WF_vars(Run(p))

FairSpec == Spec /\ Fairness
-----------------------------------------------------------------------------
(* Properties.                                                             *)

(* Type invariant. *)
Process_ ==
  [pc : Pc, run : 0 .. MaxStarts, clock : Nat, sent : BOOLEAN, lost : 0 .. MaxLost,
   live : BOOLEAN, api : BOOLEAN]

Instance ==
  [req : {Registration}, left : 0 .. Grace * Registration.ttl, fresh : 0 .. SettleTime]

TypeOK ==
  /\ proc \in [Process -> Process_]
  /\ \A p \in Process : proc[p].clock <= Limit(proc[p].pc)
  /\ late \subseteq [run : 1 .. MaxStarts, req : {RequestOf(pc) : pc \in CallPc}]
  /\ inst \in Instance \cup {None}
  /\ starts \in 0 .. MaxStarts

(* A process that the server has heard of once and that goes round its     *)
(* loop of Heartbeat and sleep keeps its instance healthy, whatever        *)
(* requests of earlier runs or of other processes still arrive, unless the *)
(* instance was deregistered (the lease of provider.h against the loop of  *)
(* provider.php and the timeouts of provider_core.hpp).                    *)
HealthyWhileBeating ==
  \A p \in Process :
    proc[p].live /\ proc[p].pc \in LoopPc /\ inst # None => Healthy

(* Once no process serves the instance any more, however the last one      *)
(* ended, its record is removed or turns unhealthy: late requests and      *)
(* crashed scripts leave no healthy ghost behind.                          *)
Served == \E p \in Process : proc[p].pc # "down"

GhostsFade == ~ Served ~> (Served \/ ~ Healthy)

(* An unhealthy instance recovers while a script that reaches the SDK      *)
(* keeps looping: some heartbeat gets through and carries an address and   *)
(* a token the server takes.                                               *)
BeatsRevive ==
  \A p \in Process :
    (proc[p].pc \in LoopPc /\ proc[p].api /\ inst # None)
      ~> (Healthy \/ inst = None \/ proc[p].pc \notin LoopPc)
=============================================================================
