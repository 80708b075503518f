--------------------------- MODULE PolarisSystem ---------------------------
(***************************************************************************)
(* Provider scripts, the registry and consumers together: what happens to  *)
(* an instance (ProviderLease) and what consumers learn of it              *)
(* (ServiceCache).  The two sides meet at the server, by the key of the    *)
(* service in their requests.                                              *)
(***************************************************************************)
EXTENDS Naturals

CONSTANTS
  Process, Info, BeatInfo, ServiceToken, RegisterTime, CallTime, SleepTime,
  SettleTime, MaxLost, MaxStarts,
  App, Method, Query, LookupTime, RefreshTime, ContactTime, MaxRuns,
  Home,    \* the service as it is known to the server
  Others,  \* its other instances, always healthy
  None

VARIABLES
  proc, late, inst, starts,
  app, disk, runs,
  silent   \* time since the server took a request that renewed the instance,
           \* counted up to MaxSilence

P == INSTANCE ProviderLease
C == INSTANCE ServiceCache

ASSUME SystemAssumption ==
  /\ P!Number(Info, "ttl") \in Nat
  /\ RegisterTime \in Nat \ {0}
  /\ {CallTime, SleepTime, SettleTime, MaxLost, MaxStarts} \subseteq Nat
  /\ {LookupTime, RefreshTime, ContactTime, MaxRuns} \subseteq Nat

vars == <<proc, late, inst, starts, app, disk, runs, silent>>

-----------------------------------------------------------------------------
(* The record of the instance, as the server hands it out. *)
Entry(req, healthy) ==
  [id |-> "self", host |-> req.host, port |-> req.port, healthy |-> healthy,
   metadata |-> req.metadata]

Found(key) ==
  (IF key = Home THEN Others ELSE {})
    \cup (IF inst # None /\ inst.req.key = key THEN {Entry(inst.req, P!Healthy)} ELSE {})

Lease      == P!Grace * P!Registration.ttl
MaxSilence == Lease + ContactTime + 1

Init ==
  /\ P!Init
  /\ C!CacheInit
  /\ silent = MaxSilence

Renewed == inst' # None /\ inst'.left = P!Grace * inst'.req.ttl

Provide ==
  /\ P!Step
  /\ silent' = IF Renewed THEN 0 ELSE silent
  /\ UNCHANGED <<app, disk, runs>>

Refresh(c) == C!Refresh(c, Found(app[c].watched))

Consume(c) ==
  /\ \/ C!StartApp(c) \/ C!Respond(c) \/ C!Proceed(c) \/ C!StopApp(c) \/ Refresh(c)
     \/ \E method \in Method : C!Lookup(c, method)
  /\ UNCHANGED <<proc, late, inst, starts, silent>>

Tick ==
  /\ P!Tick
  /\ C!CacheTick
  /\ silent' = IF silent < MaxSilence THEN silent + 1 ELSE silent

Next == Provide \/ (\E c \in App : Consume(c)) \/ Tick

Spec == Init /\ [][Next]_vars

(* Provider processes and SDKs run, and time passes: no script makes       *)
(* infinitely many lookups in one second.                                  *)
Fairness ==
  /\ SF_vars(Tick)
  /\ \A p \in Process : WF_vars(P!Run(p) /\ Provide)
  /\ \A c \in App :
       /\ WF_vars((C!Respond(c) \/ C!Proceed(c)) /\ Consume(c))
       /\ WF_vars(Refresh(c) /\ Consume(c))

FairSpec == Spec /\ Fairness
-----------------------------------------------------------------------------
(* Properties.                                                             *)

(* Type invariant. *)
TypeOK ==
  /\ P!TypeOK
  /\ C!CacheTypeOK(Others \cup {Entry(P!Registration, healthy) : healthy \in BOOLEAN})
  /\ silent \in 0 .. MaxSilence

Self(i) == i.host = P!Registration.host /\ i.port = P!Registration.port

Shown(instances) == \E i \in instances : Self(i) /\ i.healthy

(* When the server last heard of an instance longer ago than its lease and *)
(* the longest gap between two refreshes, no lookup answered from the      *)
(* server's data calls it healthy any more: the health check, the ttl and  *)
(* the refresh work together, whoever restarts in between.                 *)
SilenceShows ==
  [][\A c \in App :
       /\ app[c].pc = "asking"
       /\ app[c].status = "kDataIsSyncing"
       /\ Shown(app'[c].answer.instances)
       => silent <= Lease + ContactTime]_vars

(* Once nobody serves the instance for good, consumers stop being told     *)
(* that it is healthy.                                                     *)
GhostsForgotten ==
  <>[] ~ P!Served =>
    \A c \in App : <>[] (app[c].status = "kDataIsSyncing" => ~ Shown(app[c].view))

(* A lastingly healthy instance is known to every consumer in the end: the *)
(* key a provider registers under is the one consumers ask for.            *)
HealthyFound ==
  <>[] P!Healthy =>
    \A c \in App : <>[] (app[c].status = "kDataIsSyncing" => Shown(app[c].view))
=============================================================================
