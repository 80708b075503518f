------------------------ MODULE PolarisSystemProofs ------------------------
(* What holds of providers, registry and consumers together, for every     *)
(* number of processes on either side and every timeout.                   *)
EXTENDS PolarisSystem, TLAPS

Requests == {P!Registration, P!Beat, P!Deregistration}

Entries == Others \cup {Entry(P!Registration, healthy) : healthy \in BOOLEAN}

(* The lease runs down while the server hears nothing of the instance.     *)
LeaseInv ==
  /\ \A m \in late : m.req \in Requests
  /\ inst \in P!Instance \cup {None}
  /\ silent \in 0 .. MaxSilence
  /\ inst # None /\ inst.left > 0 => silent + inst.left <= Lease

(* The health of an instance is its own: it is checked, and no other has   *)
(* its address.                                                            *)
Alone == P!Registration.check /\ \A i \in Others : ~ Self(i)

(* A copy that shows the instance as healthy is as old as its age says.    *)
AppInv(c) ==
  /\ app[c].status = "kDataIsSyncing" => app[c].watched # None
  /\ Alone /\ app[c].status = "kDataIsSyncing" /\ Shown(app[c].view)
       => silent <= Lease + app[c].age
  /\ app[c].pc # "told" => app[c].answer = C!NoAnswer

Typed     == C!CacheTypeOK(Entries)
CacheInv  == \A c \in App : AppInv(c)
SystemInv == LeaseInv /\ Typed /\ CacheInv

-----------------------------------------------------------------------------
(* The numbers.                                                            *)

(* Every bound is a number.                                                *)
LEMMA Numbers ==
  /\ P!Registration.ttl \in Nat
  /\ Lease \in Nat
  /\ MaxSilence \in Nat /\ MaxSilence = Lease + ContactTime + 1
  /\ ContactTime \in Nat /\ LookupTime \in Nat /\ SettleTime \in Nat /\ MaxRuns \in Nat
<1> DEFINE params == P!TransferToStdMap(Info)
<1>1. P!Number(params, "ttl") = P!Number(Info, "ttl")
  BY DEF P!TransferToStdMap, P!Number, P!ArrayKey
<1> HIDE DEF params
<1>2. P!Registration.ttl = IF P!Flag(params, "heartbeat") THEN P!Number(params, "ttl") ELSE 0
  BY DEF P!Registration, P!RegisterInstance, P!InstanceRegisterRequest, params
<1>3. P!Registration.ttl \in Nat
  BY <1>1, <1>2, SystemAssumption
<1>4. Lease \in Nat
  BY <1>3 DEF Lease, P!Grace
<1> QED BY <1>3, <1>4, SystemAssumption DEF MaxSilence

(* Which request does what.                                                *)
LEMMA Operations ==
  /\ P!Registration.op = "register"
  /\ P!Beat.op = "heartbeat"
  /\ P!Deregistration.op = "deregister"
<1>1. P!Registration.op = "register"
  BY DEF P!Registration, P!RegisterInstance, P!InstanceRegisterRequest
<1>2. P!Beat.op = "heartbeat"
  BY DEF P!Beat, P!DoHeartbeat, P!InstanceHeartbeatRequest
<1>3. P!Deregistration.op = "deregister"
  BY DEF P!Deregistration, P!DeregisterInstance, P!InstanceDeregisterRequest
<1> QED BY <1>1, <1>2, <1>3

-----------------------------------------------------------------------------
(* The provider side.                                                      *)

(* A request renews the record, removes it or leaves it alone.             *)
LEMMA Served ==
  ASSUME inst \in P!Instance \cup {None}, NEW req \in Requests, NEW seen, P!Serve(req, seen)
  PROVE  /\ inst' \in P!Instance \cup {None}
         /\ inst' \in {inst, None} \/ Renewed
<1>0. Lease \in 0 .. Lease /\ SettleTime \in 0 .. SettleTime
      /\ Lease = P!Grace * P!Registration.ttl
  BY Numbers DEF Lease
<1>1. CASE ~ P!Accepts(req, seen)
  BY <1>1 DEF P!Serve
<1>2. CASE P!Accepts(req, seen) /\ req.op = "register"
  <2>1. req = P!Registration
    BY <1>2, Operations DEF Requests
  <2>2. inst' = [req |-> P!Registration, left |-> Lease, fresh |-> SettleTime]
    BY <1>0, <1>2, <2>1 DEF P!Serve
  <2>3. inst' \in P!Instance
    BY <1>0, <2>2 DEF P!Instance
  <2>4. inst'.left = P!Grace * inst'.req.ttl
    BY <1>0, <2>2
  <2> QED BY <2>3, <2>4 DEF Renewed
<1>3. CASE P!Accepts(req, seen) /\ req.op = "heartbeat"
  <2>1. inst # None /\ inst \in P!Instance
    BY <1>3 DEF P!Accepts, P!Known
  <2>2. inst' = [inst EXCEPT !.left = P!Grace * inst.req.ttl]
    BY <1>3 DEF P!Serve
  <2>3. inst.req = P!Registration
    BY <2>1 DEF P!Instance
  <2>4. inst' = [inst EXCEPT !.left = Lease]
    BY <1>0, <2>2, <2>3
  <2>5. inst' \in P!Instance
    BY <1>0, <2>1, <2>4 DEF P!Instance
  <2>6. inst'.left = P!Grace * inst'.req.ttl
    BY <1>0, <2>1, <2>3, <2>4 DEF P!Instance
  <2> QED BY <2>5, <2>6 DEF Renewed
<1>4. CASE P!Accepts(req, seen) /\ req.op \notin {"register", "heartbeat"}
  BY <1>4 DEF P!Serve
<1> QED BY <1>1, <1>2, <1>3, <1>4

(* The scripts send no other requests.                                     *)
LEMMA RequestOfTyped == \A pc : P!RequestOf(pc) \in Requests
BY DEF P!RequestOf, Requests

(* Every step of the providers does at most that, and sends such requests. *)
LEMMA Provided ==
  ASSUME LeaseInv, P!Step
  PROVE  /\ inst' \in P!Instance \cup {None}
         /\ inst' \in {inst, None} \/ Renewed
         /\ \A m \in late' : m.req \in Requests
<1>0. inst \in P!Instance \cup {None} /\ \A m \in late : m.req \in Requests
  BY DEF LeaseInv
<1>1. ASSUME NEW r PROVE \A m \in late \cup P!InFlight(r) : m.req \in Requests
  BY <1>0, RequestOfTyped DEF P!InFlight
<1>2. ASSUME NEW p \in Process, P!Register(p) \/ P!Heartbeat(p) \/ P!Deregister(p) \/ P!Wake(p)
                                  \/ P!Start(p)
      PROVE  inst' = inst /\ late' = late
  BY <1>2 DEF P!Register, P!Heartbeat, P!Deregister, P!Call, P!CallWithoutApi, P!Wake, P!Start
<1>3. ASSUME NEW p \in Process, P!GiveUp(p) \/ P!Crash(p)
      PROVE  inst' = inst /\ \A m \in late' : m.req \in Requests
  BY <1>0, <1>1, <1>3 DEF P!GiveUp, P!Crash
<1>4. ASSUME NEW p \in Process, NEW seen \in BOOLEAN, NEW answered \in BOOLEAN,
             P!Handle(p, seen, answered)
      PROVE  P!Serve(P!RequestOf(proc[p].pc), seen) /\ late' = late
  BY <1>4 DEF P!Handle
<1>5. ASSUME NEW m \in late, NEW seen \in BOOLEAN, P!HandleLate(m, seen)
      PROVE  P!Serve(m.req, seen) /\ late' \subseteq late
  BY <1>5 DEF P!HandleLate
<1>6. ASSUME NEW m \in late, P!DropLate(m) PROVE inst' = inst /\ late' \subseteq late
  BY <1>6 DEF P!DropLate
<1>7. CASE \E p \in Process : P!Run(p) \/ P!Start(p) \/ P!Deregister(p) \/ P!Crash(p)
  BY <1>0, <1>2, <1>3, <1>4, <1>7, RequestOfTyped, Served DEF P!Run
<1>8. CASE \E m \in late : P!DropLate(m) \/ \E seen \in BOOLEAN : P!HandleLate(m, seen)
  BY <1>0, <1>5, <1>6, <1>8, Served
<1> QED BY <1>7, <1>8 DEF P!Step

(* The lease, when a provider or the server takes a step ...               *)
LEMMA ProvideLease ==
  ASSUME LeaseInv, Provide
  PROVE  LeaseInv' /\ silent' <= silent
<1>1. /\ inst' \in P!Instance \cup {None}
      /\ inst' \in {inst, None} \/ Renewed
      /\ \A m \in late' : m.req \in Requests
      /\ silent' = IF Renewed THEN 0 ELSE silent
  BY Provided DEF Provide
<1>2. CASE Renewed
  <2>1. inst' \in P!Instance
    BY <1>1, <1>2 DEF Renewed
  <2>2. inst'.left = Lease
    BY <1>2, <2>1 DEF Renewed, Lease, P!Instance
  <2> QED BY <1>1, <1>2, <2>2, Numbers DEF LeaseInv
<1>3. CASE ~ Renewed
  BY <1>1, <1>3, Numbers DEF LeaseInv
<1> QED BY <1>2, <1>3

(* ... and when a second passes.                                           *)
LEMMA TickLease ==
  ASSUME LeaseInv, Tick
  PROVE  LeaseInv' /\ silent' <= silent + 1
<1>1. late' = late /\ silent' = (IF silent < MaxSilence THEN silent + 1 ELSE silent)
  BY DEF Tick, P!Tick
<1>2. CASE inst = None
  <2>1. inst' = None
    BY <1>2 DEF Tick, P!Tick
  <2> QED BY <1>1, <2>1, Numbers DEF LeaseInv
<1>3. CASE inst # None
  <2>1. inst \in P!Instance /\ inst' = [inst EXCEPT !.left = P!Older(@), !.fresh = P!Older(@)]
    BY <1>3 DEF LeaseInv, Tick, P!Tick
  <2>2. inst.left \in 0 .. Lease /\ inst.fresh \in 0 .. SettleTime
    BY <2>1 DEF P!Instance, Lease
  <2>3. inst' \in P!Instance /\ inst'.left = P!Older(inst.left)
    <3>1. P!Older(inst.left) \in 0 .. Lease /\ P!Older(inst.fresh) \in 0 .. SettleTime
      BY <2>2, Numbers DEF P!Older
    <3> QED BY <2>1, <3>1 DEF P!Instance, Lease
  <2> QED BY <1>1, <1>3, <2>2, <2>3, Numbers DEF LeaseInv, P!Older
<1> QED BY <1>2, <1>3

-----------------------------------------------------------------------------
(* The consumer side.                                                      *)

AppState ==
  [pc : {"down", "idle", "asking", "told"}, method : Method \cup {"none"},
   status : C!ServiceDataStatus, view : SUBSET Entries,
   watched : {C!Request(method).key : method \in Method} \cup {None},
   age : 0 .. ContactTime, clock : 0 .. LookupTime,
   answer : [code : {"none", "kReturnOk", "kReturnTimeout"},
             instances : SUBSET {C!convertInstanceToArray(i) : i \in Entries}]]

(* The invariant, by the record of a process.                              *)
LEMMA TypedIs ==
  Typed <=> /\ app \in [App -> AppState]
            /\ disk \in (SUBSET Entries) \cup {None}
            /\ runs \in 0 .. MaxRuns
BY DEF Typed, C!CacheTypeOK, AppState

(* A process that does not run.                                            *)
LEMMA NoProcessTyped == C!NoProcess \in AppState /\ C!NoAnswer.instances = {}
<1>1. 0 \in 0 .. ContactTime /\ 0 \in 0 .. LookupTime
  BY Numbers
<1> QED BY <1>1 DEF C!NoProcess, C!NoAnswer, C!ServiceDataStatus, AppState

(* What the registry hands out are entries.                                *)
LEMMA FoundTyped ==
  ASSUME LeaseInv, NEW key
  PROVE  Found(key) \subseteq Entries
<1>1. ASSUME inst # None PROVE inst.req = P!Registration
  BY <1>1 DEF LeaseInv, P!Instance
<1>2. P!Healthy \in BOOLEAN
  BY DEF P!Healthy
<1> QED BY <1>1, <1>2 DEF Found, Entries

(* What the registry hands out as healthy has some of its lease left.      *)
LEMMA FoundFresh ==
  ASSUME LeaseInv, Alone, NEW key, Shown(Found(key))
  PROVE  silent <= Lease
<1>1. PICK i \in Found(key) : Self(i) /\ i.healthy
  BY DEF Shown
<1>2. inst # None /\ i = Entry(inst.req, P!Healthy)
  BY <1>1 DEF Found, Alone
<1>3. inst \in P!Instance /\ P!Healthy
  BY <1>1, <1>2 DEF Entry, LeaseInv
<1>4. inst.left > 0
  BY <1>2, <1>3 DEF P!Healthy, P!Instance, Alone
<1> QED BY <1>2, <1>3, <1>4, Numbers DEF LeaseInv, P!Instance, Lease

(* An SDK answers from its copy.                                           *)
LEMMA ChosenFromView ==
  ASSUME NEW method, NEW view, NEW chosen \in C!Choices(method, view)
  PROVE  chosen \subseteq view
<1>1. C!Available(view) \subseteq view
  BY DEF C!Available
<1> QED BY <1>1 DEF C!Choices

(* Answers are arrays of entries.                                          *)
LEMMA AnswerTyped ==
  ASSUME NEW code \in {"kReturnOk", "kReturnTimeout"}, NEW chosen \in SUBSET Entries
  PROVE  C!convertServiceResponseToZval(code, chosen) \in
           [code : {"none", "kReturnOk", "kReturnTimeout"},
            instances : SUBSET {C!convertInstanceToArray(i) : i \in Entries}]
BY DEF C!convertServiceResponseToZval

(* One process moves, and the others' facts stay.                          *)
LEMMA OneApp ==
  ASSUME Typed, CacheInv, NEW c \in App, NEW r \in AppState, app' = [app EXCEPT ![c] = r],
         disk' \in (SUBSET Entries) \cup {None}, runs' \in 0 .. MaxRuns, silent' = silent,
         r.status = "kDataIsSyncing" => r.watched # None,
         Alone /\ r.status = "kDataIsSyncing" /\ Shown(r.view) => silent <= Lease + r.age,
         r.pc # "told" => r.answer = C!NoAnswer
  PROVE  Typed' /\ CacheInv'
<1>1. app \in [App -> AppState]
  BY TypedIs
<1>2. app' \in [App -> AppState]
  BY <1>1
<1>3. Typed'
  BY <1>2 DEF Typed, C!CacheTypeOK, AppState
<1>4. ASSUME NEW d \in App PROVE AppInv(d)'
  <2>1. CASE d = c
    <3>1. app'[d] = r
      BY <1>1, <2>1
    <3> QED BY <3>1 DEF AppInv, Shown
  <2>2. CASE d # c
    <3>1. app'[d] = app[d]
      BY <1>1, <2>2
    <3> QED BY <3>1 DEF CacheInv, AppInv, Shown
  <2> QED BY <2>1, <2>2
<1> QED BY <1>3, <1>4 DEF CacheInv

(* A process starts from the disk, which is no data of the server yet.     *)
LEMMA StartAppInv ==
  ASSUME Typed, CacheInv, NEW c \in App, C!StartApp(c), silent' = silent
  PROVE  Typed' /\ CacheInv'
<1> DEFINE r == IF disk = None THEN [C!NoProcess EXCEPT !.pc = "idle"]
                ELSE [C!NoProcess EXCEPT !.pc = "idle", !.status = "kDataInitFromDisk",
                                         !.view = disk]
<1>1. app' = [app EXCEPT ![c] = r] /\ disk' = disk /\ runs' = runs + 1 /\ runs < MaxRuns
  BY DEF C!StartApp
<1>2. disk \in (SUBSET Entries) \cup {None} /\ runs' \in 0 .. MaxRuns
  BY <1>1, TypedIs, Numbers
<1>3. r \in AppState
  BY <1>2, NoProcessTyped DEF AppState, C!NoProcess, C!ServiceDataStatus
<1>4. r.status # "kDataIsSyncing" /\ r.answer = C!NoAnswer
  BY DEF C!NoProcess
<1> HIDE DEF r
<1> QED BY <1>1, <1>2, <1>3, <1>4, OneApp

(* A lookup changes no copy.                                               *)
LEMMA LookupInv ==
  ASSUME Typed, CacheInv, NEW c \in App, NEW method \in Method, C!Lookup(c, method),
         silent' = silent
  PROVE  Typed' /\ CacheInv'
<1> DEFINE key == C!Request(method).key
           r == [app[c] EXCEPT !.pc = "asking", !.method = method,
                               !.watched = IF @ = None THEN key ELSE @]
<1>0. app[c] \in AppState /\ AppInv(c) /\ app[c].pc = "idle"
      /\ disk \in (SUBSET Entries) \cup {None} /\ runs \in 0 .. MaxRuns
  BY TypedIs DEF CacheInv, C!Lookup
<1>1. app' = [app EXCEPT ![c] = r] /\ disk' = disk /\ runs' = runs
  BY TypedIs DEF C!Lookup, AppState
<1>2. r \in AppState
  <2>1. key \in {C!Request(m).key : m \in Method}
    OBVIOUS
  <2> HIDE DEF key
  <2> QED BY <1>0, <2>1 DEF AppState
<1>3. /\ r.status = app[c].status /\ r.view = app[c].view /\ r.age = app[c].age
      /\ r.answer = app[c].answer /\ (app[c].watched # None => r.watched # None)
  BY <1>0 DEF AppState
<1> HIDE DEF r
<1> QED BY <1>0, <1>1, <1>2, <1>3, OneApp DEF AppInv

(* A healthy instance in an answer is a healthy one of the copy.           *)
LEMMA RespondShows ==
  ASSUME Typed, NEW c \in App, C!Respond(c), Shown(app'[c].answer.instances)
  PROVE  Shown(app[c].view)
<1>0. app \in [App -> AppState] /\ app[c] \in AppState
  BY TypedIs
<1>1. PICK code \in {"kReturnOk", "kReturnTimeout"}, chosen \in SUBSET app[c].view :
        app'[c].answer = C!convertServiceResponseToZval(code, chosen)
  <2> DEFINE Told(code, chosen) ==
        app'[c].answer = C!convertServiceResponseToZval(code, chosen)
  <2>1. \/ \E chosen \in C!Choices(app[c].method, app[c].view) : Told("kReturnOk", chosen)
        \/ Told("kReturnTimeout", {})
    BY <1>0 DEF C!Respond, AppState
  <2>2. \A chosen \in C!Choices(app[c].method, app[c].view) : chosen \in SUBSET app[c].view
    BY ChosenFromView
  <2> HIDE DEF Told
  <2>3. \E code \in {"kReturnOk", "kReturnTimeout"}, chosen \in SUBSET app[c].view :
          Told(code, chosen)
    BY <2>1, <2>2
  <2> QED BY <2>3 DEF Told
<1>2. PICK a \in app'[c].answer.instances : Self(a) /\ a.healthy
  BY DEF Shown
<1>3. PICK i \in chosen : a = C!convertInstanceToArray(i)
  BY <1>1, <1>2 DEF C!convertServiceResponseToZval
<1>4. Self(i) /\ i.healthy
  BY <1>2, <1>3 DEF C!convertInstanceToArray, Self
<1> QED BY <1>1, <1>3, <1>4 DEF Shown

(* An answer leaves copies as they are.                                    *)
LEMMA RespondInv ==
  ASSUME Typed, CacheInv, NEW c \in App, C!Respond(c), silent' = silent
  PROVE  Typed' /\ CacheInv'
<1> DEFINE Told(code, chosen) ==
      app' = [app EXCEPT ![c].pc = "told", ![c].method = "none", ![c].clock = 0,
                         ![c].answer = C!convertServiceResponseToZval(code, chosen)]
<1>a. disk' = disk /\ runs' = runs
  BY DEF C!Respond
<1>1. PICK code \in {"kReturnOk", "kReturnTimeout"}, chosen \in SUBSET app[c].view :
        Told(code, chosen)
  <2>1. \/ \E chosen \in C!Choices(app[c].method, app[c].view) : Told("kReturnOk", chosen)
        \/ Told("kReturnTimeout", {})
    BY DEF C!Respond
  <2>2. \A chosen \in C!Choices(app[c].method, app[c].view) : chosen \in SUBSET app[c].view
    BY ChosenFromView
  <2> HIDE DEF Told
  <2> QED BY <2>1, <2>2
<1> DEFINE answer == C!convertServiceResponseToZval(code, chosen)
           r == [app[c] EXCEPT !.pc = "told", !.method = "none", !.clock = 0, !.answer = answer]
<1>0. app \in [App -> AppState] /\ app[c] \in AppState /\ AppInv(c)
      /\ disk \in (SUBSET Entries) \cup {None} /\ runs \in 0 .. MaxRuns
  BY TypedIs DEF CacheInv
<1>2. answer \in [code : {"none", "kReturnOk", "kReturnTimeout"},
                 instances : SUBSET {C!convertInstanceToArray(i) : i \in Entries}]
  <2>1. chosen \in SUBSET Entries
    BY <1>0 DEF AppState
  <2> QED BY <2>1, AnswerTyped
<1> HIDE DEF answer
<1>4. app' = [app EXCEPT ![c] = r]
  BY <1>0, <1>1 DEF AppState, answer
<1>5. 0 \in 0 .. LookupTime
  BY Numbers
<1>6. r \in AppState
  BY <1>0, <1>2, <1>5 DEF AppState
<1>7. /\ r.status = app[c].status /\ r.view = app[c].view /\ r.age = app[c].age
      /\ r.answer = answer /\ r.watched = app[c].watched /\ r.pc = "told"
  BY <1>0 DEF AppState
<1> HIDE DEF r
<1> QED BY <1>a, <1>0, <1>4, <1>6, <1>7, OneApp DEF AppInv

(* The script goes on.                                                     *)
LEMMA ProceedInv ==
  ASSUME Typed, CacheInv, NEW c \in App, C!Proceed(c), silent' = silent
  PROVE  Typed' /\ CacheInv'
<1> DEFINE r == [app[c] EXCEPT !.pc = "idle", !.answer = C!NoAnswer]
<1>0. app[c] \in AppState /\ AppInv(c)
      /\ disk \in (SUBSET Entries) \cup {None} /\ runs \in 0 .. MaxRuns
  BY TypedIs DEF CacheInv
<1>1. app' = [app EXCEPT ![c] = r] /\ disk' = disk /\ runs' = runs
  BY TypedIs DEF C!Proceed, AppState
<1>2. r \in AppState
  BY <1>0 DEF AppState, C!NoAnswer
<1>3. /\ r.status = app[c].status /\ r.view = app[c].view /\ r.age = app[c].age
      /\ r.answer = C!NoAnswer /\ r.watched = app[c].watched
  BY <1>0 DEF AppState
<1> HIDE DEF r
<1> QED BY <1>0, <1>1, <1>2, <1>3, OneApp DEF AppInv

(* A process that ends forgets everything.                                 *)
LEMMA StopAppInv ==
  ASSUME Typed, CacheInv, NEW c \in App, C!StopApp(c), silent' = silent
  PROVE  Typed' /\ CacheInv'
<1>1. C!NoProcess.status # "kDataIsSyncing" /\ C!NoProcess.answer = C!NoAnswer
  BY DEF C!NoProcess
<1>2. disk \in (SUBSET Entries) \cup {None} /\ runs \in 0 .. MaxRuns
  BY TypedIs
<1> QED BY <1>1, <1>2, NoProcessTyped, OneApp DEF C!StopApp

(* A refresh brings a new copy, of age 0.                                  *)
LEMMA RefreshInv ==
  ASSUME LeaseInv, Typed, CacheInv, NEW c \in App, Refresh(c), silent' = silent
  PROVE  Typed' /\ CacheInv'
<1> DEFINE found == Found(app[c].watched)
           r == [app[c] EXCEPT !.status = "kDataIsSyncing", !.view = found, !.age = 0]
<1>0. app[c] \in AppState /\ AppInv(c) /\ app[c].watched # None /\ runs \in 0 .. MaxRuns
  BY TypedIs DEF CacheInv, Refresh, C!Refresh
<1>1. app' = [app EXCEPT ![c] = r] /\ disk' = found /\ runs' = runs
  BY TypedIs DEF Refresh, C!Refresh, AppState
<1>2. found \in SUBSET Entries
  BY FoundTyped
<1>3. Alone /\ Shown(found) => silent <= Lease + 0
  BY FoundFresh, Numbers
<1> HIDE DEF found
<1>4. 0 \in 0 .. ContactTime
  BY Numbers
<1>5. r \in AppState
  BY <1>0, <1>2, <1>4 DEF AppState, C!ServiceDataStatus
<1>6. /\ r.view = found /\ r.age = 0 /\ r.pc = app[c].pc
      /\ r.answer = app[c].answer /\ r.watched = app[c].watched
  BY <1>0 DEF AppState
<1> HIDE DEF r
<1> QED BY <1>0, <1>1, <1>2, <1>3, <1>5, <1>6, OneApp DEF AppInv

(* Steps of the providers leave consumers alone, and only shorten the      *)
(* silence.                                                                *)
LEMMA ProvideCache ==
  ASSUME LeaseInv, Typed, CacheInv, Provide
  PROVE  Typed' /\ CacheInv'
<1>1. UNCHANGED <<app, disk, runs>> /\ silent' <= silent
  BY ProvideLease DEF Provide
<1>2. silent \in Nat /\ silent' \in Nat /\ Lease \in Nat
  BY ProvideLease, Numbers DEF LeaseInv
<1>3. Typed'
  BY <1>1 DEF Typed, C!CacheTypeOK
<1>4. ASSUME NEW c \in App PROVE AppInv(c)'
  <2>1. app[c].age \in Nat
    BY TypedIs, Numbers DEF AppState
  <2> QED BY <1>1, <1>2, <2>1 DEF CacheInv, AppInv, Shown
<1> QED BY <1>3, <1>4 DEF CacheInv

(* A second makes copies and the silence older alike.                      *)
LEMMA TickCache ==
  ASSUME LeaseInv, Typed, CacheInv, Tick
  PROVE  Typed' /\ CacheInv'
<1>0. app \in [App -> AppState] /\ disk' = disk /\ runs' = runs
  BY TypedIs DEF Tick, C!CacheTick
<1>1. silent \in Nat /\ silent' \in Nat /\ silent' <= silent + 1
  BY TickLease, Numbers DEF LeaseInv
<1>2. ASSUME NEW c \in App PROVE app'[c] \in AppState /\ AppInv(c)'
  <2> DEFINE age == IF app[c].watched # None THEN app[c].age + 1 ELSE app[c].age
             clock == IF app[c].pc = "asking" THEN app[c].clock + 1 ELSE app[c].clock
             r == [app[c] EXCEPT !.age = age, !.clock = clock]
  <2>1. app'[c] = r
    BY DEF Tick, C!CacheTick
  <2>2. app[c] \in AppState /\ C!MayWait(c)
    BY <1>0 DEF Tick, C!CacheTick
  <2>3. age \in 0 .. ContactTime
    BY <2>2, Numbers DEF C!MayWait, AppState
  <2>4. clock \in 0 .. LookupTime
    <3>1. CASE app[c].pc = "asking"
      <4>1. app[c].clock # C!Request(app[c].method).timeout
        BY <2>2, <3>1 DEF C!MayWait, C!Ready, C!Expired
      <4>2. C!Request(app[c].method).timeout = LookupTime
        BY DEF C!Request, C!DoInitService, C!DoGetOneInstance, C!DoGetInstances,
               C!DoGetAllInstances, C!OneInstance, C!Instances, C!GetOneInstanceRequest,
               C!GetInstancesRequest
      <4> QED BY <2>2, <3>1, <4>1, <4>2, Numbers DEF AppState
    <3> QED BY <2>2, <3>1, Numbers DEF AppState
  <2> HIDE DEF age, clock
  <2>5. r \in AppState
    BY <2>2, <2>3, <2>4 DEF AppState
  <2>6. /\ r.status = app[c].status /\ r.view = app[c].view /\ r.pc = app[c].pc
        /\ r.answer = app[c].answer /\ r.watched = app[c].watched /\ r.age = age
    BY <2>2 DEF AppState
  <2>7. app[c].age \in Nat /\ (app[c].watched # None => age = app[c].age + 1)
    BY <2>2, Numbers DEF AppState, age
  <2> HIDE DEF r
  <2>8. AppInv(c)'
    <3>1. Shown(app'[c].view) <=> Shown(app[c].view)
      BY <2>1, <2>6
    <3> QED BY <1>1, <2>1, <2>6, <2>7, <3>1, Numbers DEF CacheInv, AppInv, Shown
  <2> QED BY <2>1, <2>5, <2>8
<1>3. app' \in [App -> AppState]
  BY <1>2 DEF Tick, C!CacheTick
<1>4. Typed'
  BY <1>0, <1>3, TypedIs DEF Typed, C!CacheTypeOK, AppState
<1> QED BY <1>2, <1>4 DEF CacheInv

-----------------------------------------------------------------------------
(* Both sides.                                                             *)

(* The first state.                                                        *)
LEMMA SystemInit == Init => SystemInv
<1> SUFFICES ASSUME Init PROVE SystemInv
  OBVIOUS
<1>1. LeaseInv
  BY Numbers DEF Init, P!Init, LeaseInv
<1>2. Typed
  BY NoProcessTyped, TypedIs, Numbers DEF Init, C!CacheInit
<1>3. CacheInv
  BY DEF Init, C!CacheInit, C!NoProcess, CacheInv, AppInv
<1> QED BY <1>1, <1>2, <1>3 DEF SystemInv

(* Every step.                                                             *)
LEMMA SystemStep ==
  ASSUME SystemInv, [Next]_vars
  PROVE  SystemInv'
<1>0. LeaseInv /\ Typed /\ CacheInv
  BY DEF SystemInv
<1>1. CASE UNCHANGED vars
  <2>1. LeaseInv'
    BY <1>0, <1>1 DEF vars, LeaseInv
  <2>2. Typed'
    BY <1>0, <1>1 DEF vars, Typed, C!CacheTypeOK
  <2>3. CacheInv'
    BY <1>0, <1>1 DEF vars, CacheInv, AppInv, Shown
  <2> QED BY <2>1, <2>2, <2>3 DEF SystemInv
<1>2. CASE Provide
  BY <1>0, <1>2, ProvideLease, ProvideCache DEF SystemInv
<1>3. ASSUME NEW c \in App, Consume(c) PROVE SystemInv'
  <2>1. silent' = silent /\ UNCHANGED <<late, inst>>
    BY <1>3 DEF Consume
  <2>2. LeaseInv'
    BY <1>0, <2>1 DEF LeaseInv
  <2>3. Typed' /\ CacheInv'
    BY <1>0, <1>3, <2>1, StartAppInv, RespondInv, ProceedInv, StopAppInv, RefreshInv, LookupInv
       DEF Consume
  <2> QED BY <2>2, <2>3 DEF SystemInv
<1>4. CASE Tick
  BY <1>0, <1>4, TickLease, TickCache DEF SystemInv
<1> QED BY <1>1, <1>2, <1>3, <1>4 DEF Next

(* Only an answer of the SDK tells a script something.                     *)
LEMMA NothingTold ==
  ASSUME SystemInv, [Next]_vars, NEW c \in App, app[c].pc = "asking", ~ C!Respond(c)
  PROVE  ~ Shown(app'[c].answer.instances)
<1>0. app \in [App -> AppState] /\ app[c] \in AppState
  BY TypedIs DEF SystemInv
<1>1. app[c].answer = C!NoAnswer
  BY DEF SystemInv, CacheInv, AppInv
<1>2. SUFFICES app'[c].answer \in {app[c].answer, C!NoAnswer}
  BY <1>1, NoProcessTyped DEF Shown
<1>3. CASE UNCHANGED vars \/ Provide
  BY <1>3 DEF vars, Provide
<1>4. CASE Tick
  <2>1. app'[c] = [app[c] EXCEPT
                     !.age   = IF app[c].watched # None THEN @ + 1 ELSE @,
                     !.clock = IF app[c].pc = "asking" THEN @ + 1 ELSE @]
    BY <1>4 DEF Tick, C!CacheTick
  <2> QED BY <1>0, <2>1 DEF AppState
<1>5. ASSUME NEW d \in App, Consume(d) PROVE app'[c].answer \in {app[c].answer, C!NoAnswer}
  <2>1. CASE d # c
    BY <1>0, <1>5, <2>1
       DEF Consume, C!StartApp, C!Respond, C!Proceed, C!StopApp, Refresh, C!Refresh, C!Lookup
  <2>2. CASE d = c
    <3>1. C!StopApp(c) \/ Refresh(c)
      BY <1>5, <2>2 DEF Consume, C!StartApp, C!Proceed, C!Lookup
    <3>2. CASE C!StopApp(c)
      BY <1>0, <3>2 DEF C!StopApp, C!NoProcess
    <3>3. CASE Refresh(c)
      BY <1>0, <3>3 DEF Refresh, C!Refresh, AppState
    <3> QED BY <3>1, <3>2, <3>3
  <2> QED BY <2>1, <2>2
<1> QED BY <1>3, <1>4, <1>5 DEF Next

(* An answer from the server's data shows the instance as healthy only     *)
(* within the lease and one gap between refreshes: for an instance with    *)
(* health check whose address no other instance has.                       *)
THEOREM SilenceIsShown ==
  ASSUME P!Registration.check, \A i \in Others : ~ Self(i)
  PROVE  Spec => SilenceShows
<1> DEFINE OK == \A c \in App :
                   /\ app[c].pc = "asking"
                   /\ app[c].status = "kDataIsSyncing"
                   /\ Shown(app'[c].answer.instances)
                   => silent <= Lease + ContactTime
<1>1. SystemInv /\ [Next]_vars => SystemInv'
  BY SystemStep
<1>2. SystemInv /\ [Next]_vars => OK
  <2> SUFFICES ASSUME SystemInv, [Next]_vars, NEW c \in App, app[c].pc = "asking",
                      app[c].status = "kDataIsSyncing", Shown(app'[c].answer.instances)
               PROVE  silent <= Lease + ContactTime
    OBVIOUS
  <2>1. C!Respond(c)
    BY NothingTold
  <2>3. Shown(app[c].view)
    BY <2>1, RespondShows DEF SystemInv
  <2>4. silent <= Lease + app[c].age
    BY <2>3 DEF SystemInv, CacheInv, AppInv, Alone
  <2>5. app[c].age \in 0 .. ContactTime /\ silent \in Nat
    BY TypedIs, Numbers DEF SystemInv, LeaseInv, AppState
  <2> QED BY <2>4, <2>5, Numbers
<1>3. OK => [OK]_vars
  OBVIOUS
<1>4. Spec => [][OK]_vars
  BY <1>1, <1>2, <1>3, SystemInit, PTL DEF Spec
<1> QED BY <1>4 DEF SilenceShows

-----------------------------------------------------------------------------
(* Types.  ProviderLeaseProofs has proved those of the providers, of the   *)
(* same definitions under another name.                                    *)
LP == INSTANCE ProviderLeaseProofs

(* The requests are the same ...                                           *)
LEMMA SameRequests ==
  /\ LP!Registration = P!Registration
  /\ LP!Beat = P!Beat
  /\ LP!Deregistration = P!Deregistration
BY DEF
     LP!ApiTimeout, P!ApiTimeout, LP!ArrayKey, P!ArrayKey, LP!Beat, P!Beat,
     LP!DeregisterInstance, P!DeregisterInstance, LP!Deregistration,
     P!Deregistration, LP!DoHeartbeat, P!DoHeartbeat, LP!EmptyMap, P!EmptyMap,
     LP!Flag, P!Flag, LP!Found, P!Found, LP!InstanceDeregisterRequest,
     P!InstanceDeregisterRequest, LP!InstanceHeartbeatRequest,
     P!InstanceHeartbeatRequest, LP!InstanceRegisterRequest,
     P!InstanceRegisterRequest, LP!Key, P!Key, LP!Nested, P!Nested, LP!Number,
     P!Number, LP!RegisterInstance, P!RegisterInstance, LP!Registration,
     P!Registration, LP!ServiceKey, P!ServiceKey, LP!Text, P!Text, LP!Token,
     P!Token, LP!TransferToStdMap, P!TransferToStdMap, LP!getKeyLength,
     P!getKeyLength

(* ... so the steps are the same ...                                       *)
LEMMA SameStep == LP!Step <=> P!Step
BY SameRequests DEF
     LP!Accepts, P!Accepts, LP!Address, P!Address, LP!After, P!After,
     LP!Allowed, P!Allowed, LP!ApiTimeout, P!ApiTimeout, LP!Begin, P!Begin,
     LP!Call, P!Call, LP!CallPc, P!CallPc, LP!CallWithoutApi, P!CallWithoutApi,
     LP!Crash, P!Crash, LP!Deregister, P!Deregister, LP!Down, P!Down,
     LP!DropLate, P!DropLate, LP!GiveUp, P!GiveUp, LP!Grace, P!Grace, LP!Handle,
     P!Handle, LP!HandleLate, P!HandleLate, LP!Heartbeat, P!Heartbeat,
     LP!InFlight, P!InFlight, LP!Known, P!Known, LP!MaySee, P!MaySee,
     LP!Register, P!Register, LP!RequestOf, P!RequestOf, LP!Return, P!Return,
     LP!Run, P!Run, LP!Serve, P!Serve, LP!Start, P!Start, LP!Step, P!Step,
     LP!Wake, P!Wake

(* ... the seconds ...                                                     *)
LEMMA SameTick == LP!Tick <=> P!Tick
BY SameRequests DEF
     LP!ApiTimeout, P!ApiTimeout, LP!CallPc, P!CallPc, LP!Down, P!Down,
     LP!Limit, P!Limit, LP!Older, P!Older, LP!RequestOf, P!RequestOf, LP!Tick,
     P!Tick, LP!Waiting, P!Waiting

(* ... and the types.                                                      *)
LEMMA SameTypes == LP!TypeOK <=> P!TypeOK
BY SameRequests DEF
     LP!ApiTimeout, P!ApiTimeout, LP!CallPc, P!CallPc, LP!Grace, P!Grace,
     LP!Instance, P!Instance, LP!Limit, P!Limit, LP!LoopPc, P!LoopPc, LP!Pc,
     P!Pc, LP!Process_, P!Process_, LP!RequestOf, P!RequestOf, LP!TypeOK,
     P!TypeOK

(* The parameters are as ProviderLease wants them.                         *)
LEMMA SameParameters == LP!LeaseAssumption
BY SystemAssumption DEF LP!LeaseAssumption, P!Number, LP!Number, P!ArrayKey, LP!ArrayKey

(* What the whole system does is, to the providers, a step of theirs.      *)
LEMMA ProviderSteps == [Next]_vars => [LP!Next]_(LP!vars)
<1>1. P!Step \/ P!Tick => LP!Next
  BY SameStep, SameTick DEF LP!Next
<1>2. UNCHANGED <<proc, late, inst, starts>> => LP!vars' = LP!vars
  BY DEF LP!vars
<1> QED BY <1>1, <1>2 DEF Next, vars, Provide, Consume, Tick

LEMMA ProviderStart == Init => LP!Init
BY DEF Init, P!Init, LP!Init, P!Down, LP!Down

(* The providers' invariant is kept by the steps of the whole system.      *)
LEMMA ProviderTypes == LP!Typed /\ [Next]_vars => LP!Typed'
<1>1. LP!Typed /\ [LP!Next]_(LP!vars) => LP!Typed'
  BY LP!TypedStep, SameParameters
<1> QED BY <1>1, ProviderSteps

(* Every variable has its type, for every number of processes on either    *)
(* side and every timeout.                                                 *)
THEOREM TypeCorrect == Spec => []TypeOK
<1> DEFINE I == SystemInv /\ LP!Typed
<1>1. Init => I
  <2>1. LP!Init => LP!Typed
    BY LP!TypedInit, SameParameters
  <2> QED BY <2>1, ProviderStart, SystemInit
<1>2. I /\ [Next]_vars => I'
  BY SystemStep, ProviderTypes
<1>3. I => TypeOK
  <2>1. LP!Typed => P!TypeOK
    <3>1. LP!Typed => LP!TypeOK
      BY DEF LP!Typed, LP!TypeOK, LP!ProcOK, LP!LateReq, LP!Requests
    <3> QED BY <3>1, SameTypes
  <2> QED BY <2>1 DEF SystemInv, LeaseInv, Typed, Entries, TypeOK
<1> QED BY <1>1, <1>2, <1>3, PTL DEF Spec
=============================================================================
