------------------------ MODULE ProviderLeaseProofs ------------------------
(* What holds of ProviderLease for every number of processes and losses    *)
(* and every timeout.                                                      *)
EXTENDS ProviderLease, TLAPS

Requests == {RequestOf(pc) : pc \in CallPc}
LateReq  == [run : 1 .. MaxStarts, req : Requests]

(* A process: its request is under way only during a call, the server has  *)
(* taken a request only of one that reached the SDK and tried to register. *)
ProcOK(r) ==
  /\ r \in Process_
  /\ r.clock <= Limit(r.pc)
  /\ r.sent => r.pc \in CallPc /\ r.api
  /\ r.pc # "down" => r.run >= 1
  /\ r.live => r.api /\ r.pc # "register"

Typed ==
  /\ proc \in [Process -> Process_]
  /\ \A p \in Process : ProcOK(proc[p])
  /\ late \subseteq LateReq
  /\ inst \in Instance \cup {None}
  /\ starts \in 0 .. MaxStarts

(* The three requests. *)
LEMMA RequestFacts ==
  /\ Registration.op = "register" /\ Registration.ttl \in Nat
  /\ Registration.timeout = RegisterTime
  /\ Beat.op = "heartbeat" /\ Beat.timeout = ApiTimeout
  /\ Deregistration.op = "deregister" /\ Deregistration.timeout = RegisterTime
<1> DEFINE params == TransferToStdMap(Info)
<1>1. Number(params, "ttl") = Number(Info, "ttl")
  BY DEF TransferToStdMap, Number, ArrayKey
<1> HIDE DEF params
<1>2. Registration.ttl = IF Flag(params, "heartbeat") THEN Number(params, "ttl") ELSE 0
  BY DEF Registration, RegisterInstance, InstanceRegisterRequest, params
<1>3. Registration.ttl \in Nat
  BY <1>1, <1>2, LeaseAssumption
<1>4. Registration.op = "register" /\ Registration.timeout = RegisterTime
  BY DEF Registration, RegisterInstance, InstanceRegisterRequest
<1>5. Beat.op = "heartbeat" /\ Beat.timeout = ApiTimeout
  BY DEF Beat, DoHeartbeat, InstanceHeartbeatRequest
<1>6. Deregistration.op = "deregister" /\ Deregistration.timeout = RegisterTime
  BY DEF Deregistration, DeregisterInstance, InstanceDeregisterRequest
<1> QED BY <1>3, <1>4, <1>5, <1>6

LEMMA LimitFacts ==
  /\ Limit("sleep") = SleepTime
  /\ Limit("beating") = CallTime
  /\ \A pc \in Pc \ {"sleep", "beating"} : Limit(pc) = RegisterTime
  /\ \A pc \in Pc : Limit(pc) \in Nat
BY RequestFacts, LeaseAssumption DEF Limit, RequestOf, ApiTimeout, Pc, CallPc, LoopPc

(* Only a registration creates a record, and it is that of Info.           *)
LEMMA OpFacts ==
  ASSUME NEW req \in Requests
  PROVE  /\ req \in {Registration, Beat, Deregistration}
         /\ req.op = "register" => req = Registration
         /\ req.op = "heartbeat" => req = Beat
BY RequestFacts DEF Requests, RequestOf, CallPc

LEMMA ServeTyped ==
  ASSUME inst \in Instance \cup {None}, NEW req \in Requests, NEW seen, Serve(req, seen)
  PROVE  inst' \in Instance \cup {None}
<1>1. CASE ~ Accepts(req, seen)
  BY <1>1 DEF Serve
<1>2. CASE Accepts(req, seen) /\ req.op = "register"
  <2>1. inst' = [req |-> Registration, left |-> Grace * Registration.ttl, fresh |-> SettleTime]
    BY <1>2, OpFacts DEF Serve
  <2>2. Grace * Registration.ttl \in 0 .. Grace * Registration.ttl
        /\ SettleTime \in 0 .. SettleTime
    BY RequestFacts, LeaseAssumption DEF Grace
  <2> QED BY <2>1, <2>2 DEF Instance
<1>3. CASE Accepts(req, seen) /\ req.op = "heartbeat"
  <2>1. inst # None
    BY <1>3 DEF Accepts, Known
  <2>2. inst' = [inst EXCEPT !.left = Grace * inst.req.ttl]
    BY <1>3 DEF Serve
  <2>3. Grace * Registration.ttl \in 0 .. Grace * Registration.ttl
    BY RequestFacts DEF Grace
  <2> QED BY <2>1, <2>2, <2>3 DEF Instance
<1>4. CASE Accepts(req, seen) /\ req.op \notin {"register", "heartbeat"}
  BY <1>4 DEF Serve
<1> QED BY <1>1, <1>2, <1>3, <1>4

(* A step that moves one process. *)
LEMMA OneProcess ==
  ASSUME Typed, NEW p \in Process, NEW r, ProcOK(r), proc' = [proc EXCEPT ![p] = r]
  PROVE  proc' \in [Process -> Process_] /\ \A q \in Process : ProcOK(proc'[q])
BY DEF Typed, ProcOK

LEMMA DownOK == ProcOK(Down)
<1>1. Limit("down") \in Nat
  BY LimitFacts DEF Pc
<1> QED BY <1>1, LeaseAssumption DEF ProcOK, Process_, Down, Pc, CallPc

(* A request under way has the run of its process. *)
LEMMA InFlightTyped ==
  ASSUME NEW r, ProcOK(r)
  PROVE  InFlight(r) \subseteq LateReq
BY DEF ProcOK, Process_, InFlight, LateReq, Requests, CallPc

LEMMA ReturnOK ==
  ASSUME Typed, NEW p \in Process, NEW lost \in 0 .. MaxLost, NEW live \in BOOLEAN,
         live => proc[p].api, proc[p].pc \in CallPc, Return(p, lost, live)
  PROVE  proc' \in [Process -> Process_] /\ \A q \in Process : ProcOK(proc'[q])
<1> DEFINE r == proc[p]
           back == [r EXCEPT !.pc = After(r.pc), !.clock = 0, !.sent = FALSE,
                             !.lost = lost, !.live = live]
<1>1. CASE r.pc = "deregistering"
  BY <1>1, DownOK, OneProcess DEF Return
<1>2. CASE r.pc # "deregistering"
  <2>1. proc' = [proc EXCEPT ![p] = back]
    BY <1>2 DEF Return
  <2>2. ProcOK(r)
    BY DEF Typed
  <2>3. After(r.pc) \in {"beat", "sleep"} /\ After(r.pc) \in Pc
    BY DEF After, Pc, LoopPc
  <2>4. 0 <= Limit(After(r.pc))
    BY <2>3, LimitFacts
  <2>5. ProcOK(back)
    BY <2>2, <2>3, <2>4 DEF ProcOK, Process_, CallPc
  <2> HIDE DEF back
  <2> QED BY <2>1, <2>5, OneProcess
<1> QED BY <1>1, <1>2

LEMMA TypedInit == Init => Typed
BY DownOK, LeaseAssumption DEF Init, Typed, ProcOK, LateReq

(* The calls and pauses of a script. *)
LEMMA CallTyped ==
  ASSUME Typed, NEW p \in Process, NEW from \in {"register", "beat"}, NEW pc \in CallPc,
         Call(p, from, pc)
  PROVE  Typed'
<1> DEFINE r == [proc[p] EXCEPT !.pc = pc, !.clock = 0, !.sent = TRUE]
<1>1. proc' = [proc EXCEPT ![p] = r]
  BY DEF Call, Begin, Typed, Process_
<1>2. 0 <= Limit(pc)
  BY LimitFacts DEF Pc
<1>3. ProcOK(proc[p]) /\ proc[p].pc = from /\ proc[p].api
  BY DEF Typed, Call
<1>4. ProcOK(r)
  BY <1>2, <1>3 DEF ProcOK, Process_, Pc, CallPc
<1> HIDE DEF r
<1>5. proc' \in [Process -> Process_] /\ \A q \in Process : ProcOK(proc'[q])
  BY <1>1, <1>4, OneProcess
<1> QED BY <1>5 DEF Call, Typed

LEMMA CallWithoutApiTyped ==
  ASSUME Typed, NEW p \in Process, NEW from \in {"register", "beat"},
         NEW to \in {"beat", "sleep", "down"}, CallWithoutApi(p, from, to)
  PROVE  Typed'
<1> DEFINE r == IF to = "down" THEN Down ELSE [proc[p] EXCEPT !.pc = to, !.clock = 0]
<1>1. proc' = [proc EXCEPT ![p] = r]
  BY DEF CallWithoutApi
<1>2. to \in Pc /\ 0 <= Limit(to)
  BY LimitFacts DEF Pc, LoopPc
<1>3. ProcOK(proc[p]) /\ proc[p].pc = from /\ ~ proc[p].api
  BY DEF Typed, CallWithoutApi
<1>4. ProcOK(r)
  BY <1>2, <1>3, DownOK DEF ProcOK, Process_, CallPc
<1> HIDE DEF r
<1>5. proc' \in [Process -> Process_] /\ \A q \in Process : ProcOK(proc'[q])
  BY <1>1, <1>4, OneProcess
<1> QED BY <1>5 DEF CallWithoutApi, Typed

LEMMA HandleTyped ==
  ASSUME Typed, NEW p \in Process, NEW seen \in BOOLEAN, NEW answered \in BOOLEAN,
         Handle(p, seen, answered)
  PROVE  Typed'
<1> DEFINE r == proc[p]
           req == RequestOf(r.pc)
           lost == IF seen THEN 0 ELSE r.lost + 1
           live == r.live \/ Accepts(req, seen)
           kept == [r EXCEPT !.sent = FALSE, !.lost = lost, !.live = live]
<1>0. r.pc \in CallPc /\ r.sent /\ ProcOK(r) /\ lost <= MaxLost /\ Serve(req, seen)
      /\ UNCHANGED <<late, starts>>
  BY DEF Handle, Typed
<1>1. req \in Requests
  BY <1>0 DEF Requests
<1>2. inst' \in Instance \cup {None}
  BY <1>0, <1>1, ServeTyped DEF Typed
<1>3. lost \in 0 .. MaxLost /\ live \in BOOLEAN
  BY <1>0, LeaseAssumption DEF ProcOK, Process_, Accepts, Allowed, Known
<1>4. r.api
  BY <1>0 DEF ProcOK
<1>5. proc' \in [Process -> Process_] /\ \A q \in Process : ProcOK(proc'[q])
  <2>1. CASE answered
    <3>1. Return(p, lost, live)
      BY <2>1 DEF Handle
    <3> HIDE DEF lost, live
    <3> QED BY <1>0, <1>3, <1>4, <3>1, ReturnOK
  <2>2. CASE ~ answered
    <3>1. proc' = [proc EXCEPT ![p] = kept]
      BY <2>2 DEF Handle, Typed, Process_
    <3>2. ProcOK(kept)
      BY <1>0, <1>3, <1>4 DEF ProcOK, Process_, CallPc
    <3> HIDE DEF kept
    <3> QED BY <3>1, <3>2, OneProcess
  <2> QED BY <2>1, <2>2
<1> QED BY <1>0, <1>2, <1>5 DEF Typed

LEMMA GiveUpTyped ==
  ASSUME Typed, NEW p \in Process, GiveUp(p)
  PROVE  Typed'
<1> DEFINE r == proc[p]
           lost == IF r.sent /\ r.pc = "beating" THEN r.lost + 1 ELSE r.lost
<1>0. r.pc \in CallPc /\ ProcOK(r) /\ lost <= MaxLost /\ Return(p, lost, r.live)
      /\ UNCHANGED <<inst, starts>> /\ late' \in {late, late \cup InFlight(r)}
  BY DEF GiveUp, Typed
<1>1. lost \in 0 .. MaxLost /\ r.live \in BOOLEAN /\ (r.live => r.api)
  BY <1>0, LeaseAssumption DEF ProcOK, Process_
<1> HIDE DEF lost
<1>2. proc' \in [Process -> Process_] /\ \A q \in Process : ProcOK(proc'[q])
  BY <1>0, <1>1, ReturnOK
<1>3. late' \subseteq LateReq
  BY <1>0, InFlightTyped DEF Typed
<1> QED BY <1>0, <1>2, <1>3 DEF Typed

LEMMA StartTyped ==
  ASSUME Typed, NEW p \in Process, Start(p)
  PROVE  Typed'
<1>1. PICK ok \in BOOLEAN :
        proc' = [proc EXCEPT ![p] = [Down EXCEPT !.pc = "register", !.run = starts + 1, !.api = ok]]
  BY DEF Start
<1> DEFINE r == [Down EXCEPT !.pc = "register", !.run = starts + 1, !.api = ok]
<1>2. starts + 1 \in 1 .. MaxStarts
  BY LeaseAssumption DEF Start, Typed
<1>3. 0 <= Limit("register")
  BY LimitFacts DEF Pc
<1>4. ProcOK(r)
  <2>0. Down \in Process_ /\ Down.clock = 0 /\ ~ Down.sent /\ ~ Down.live
    BY DownOK DEF ProcOK, Down
  <2>1. /\ r \in Process_ /\ r.pc = "register" /\ r.run = starts + 1 /\ r.clock = 0
        /\ ~ r.sent /\ ~ r.live
    <3>1. starts + 1 \in 0 .. MaxStarts /\ "register" \in Pc
      BY <1>2 DEF Pc
    <3> QED BY <2>0, <3>1 DEF Process_
  <2> HIDE DEF r
  <2> QED BY <1>2, <1>3, <2>1 DEF ProcOK
<1> HIDE DEF r
<1>5. proc' \in [Process -> Process_] /\ \A q \in Process : ProcOK(proc'[q])
  BY <1>1, <1>4, OneProcess DEF r
<1> QED BY <1>2, <1>5 DEF Start, Typed

LEMMA CrashTyped ==
  ASSUME Typed, NEW p \in Process, Crash(p)
  PROVE  Typed'
<1>1. proc' \in [Process -> Process_] /\ \A q \in Process : ProcOK(proc'[q])
  BY DownOK, OneProcess DEF Crash
<1>2. late' \subseteq LateReq
  BY InFlightTyped DEF Crash, Typed
<1> QED BY <1>1, <1>2 DEF Crash, Typed

LEMMA WakeTyped ==
  ASSUME Typed, NEW p \in Process, Wake(p)
  PROVE  Typed'
<1> DEFINE r == [proc[p] EXCEPT !.pc = "beat", !.clock = 0]
<1>1. proc' = [proc EXCEPT ![p] = r]
  BY DEF Wake, Typed, Process_
<1>2. 0 <= Limit("beat") /\ "beat" \in Pc
  BY LimitFacts DEF Pc, LoopPc
<1>3. ProcOK(proc[p]) /\ proc[p].pc = "sleep"
  BY DEF Wake, Typed
<1>4. ProcOK(r)
  BY <1>2, <1>3 DEF ProcOK, Process_, CallPc
<1> HIDE DEF r
<1>5. proc' \in [Process -> Process_] /\ \A q \in Process : ProcOK(proc'[q])
  BY <1>1, <1>4, OneProcess
<1> QED BY <1>5 DEF Wake, Typed

LEMMA TickTyped ==
  ASSUME Typed, Tick
  PROVE  Typed'
<1>1. ASSUME NEW p \in Process PROVE proc'[p] \in Process_ /\ ProcOK(proc'[p])
  <2>0. ProcOK(proc[p]) /\ Waiting(p)
    BY DEF Tick, Typed
  <2>1. CASE proc[p].pc = "down"
    BY <2>1, DownOK DEF Tick, ProcOK
  <2>2. CASE proc[p].pc # "down"
    <3>1. proc'[p] = [proc[p] EXCEPT !.clock = @ + 1]
      BY <2>2 DEF Tick
    <3>2. proc[p].clock < Limit(proc[p].pc) /\ Limit(proc[p].pc) \in Nat
      BY <2>0, <2>2, LimitFacts DEF Waiting, ProcOK, Process_
    <3> QED BY <2>0, <3>1, <3>2 DEF ProcOK, Process_
  <2> QED BY <2>1, <2>2
<1>2. proc' \in [Process -> Process_]
  BY <1>1 DEF Tick
<1>3. inst' \in Instance \cup {None}
  <2>1. CASE inst = None
    BY <2>1 DEF Tick
  <2>2. CASE inst # None
    <3>1. inst' = [inst EXCEPT !.left = Older(@), !.fresh = Older(@)] /\ inst \in Instance
      BY <2>2 DEF Tick, Typed
    <3>2. Older(inst.left) \in 0 .. Grace * Registration.ttl /\ Older(inst.fresh) \in 0 .. SettleTime
      BY <3>1, RequestFacts, LeaseAssumption DEF Older, Instance, Grace
    <3> QED BY <3>1, <3>2 DEF Instance
  <2> QED BY <2>1, <2>2
<1> QED BY <1>1, <1>2, <1>3 DEF Tick, Typed

LEMMA LateTyped ==
  ASSUME Typed, NEW m \in late, NEW seen \in BOOLEAN, DropLate(m) \/ HandleLate(m, seen)
  PROVE  Typed'
<1>1. m.req \in Requests
  BY DEF Typed, LateReq
<1>2. inst' \in Instance \cup {None}
  BY <1>1, ServeTyped DEF DropLate, HandleLate, Typed
<1> QED BY <1>2 DEF DropLate, HandleLate, Typed

LEMMA TypedStep == Typed /\ [Next]_vars => Typed'
<1> SUFFICES ASSUME Typed, [Next]_vars PROVE Typed'
  OBVIOUS
<1>1. CASE UNCHANGED vars
  BY <1>1 DEF vars, Typed
<1>2. ASSUME NEW p \in Process, Register(p) \/ Heartbeat(p) \/ Deregister(p) PROVE Typed'
  BY <1>2, CallTyped, CallWithoutApiTyped DEF Register, Heartbeat, Deregister, CallPc
<1>3. ASSUME NEW p \in Process, Wake(p) \/ GiveUp(p) \/ Start(p) \/ Crash(p) PROVE Typed'
  BY <1>3, WakeTyped, GiveUpTyped, StartTyped, CrashTyped
<1>4. ASSUME NEW p \in Process, NEW seen \in BOOLEAN, NEW answered \in BOOLEAN,
             Handle(p, seen, answered)
      PROVE  Typed'
  BY <1>4, HandleTyped
<1>5. ASSUME NEW m \in late, NEW seen \in BOOLEAN, DropLate(m) \/ HandleLate(m, seen)
      PROVE  Typed'
  BY <1>5, LateTyped
<1>6. CASE Tick
  BY <1>6, TickTyped
<1> QED BY <1>1, <1>2, <1>3, <1>4, <1>5, <1>6 DEF Next, Step, Run

(* The variables always have the shape TypeOK states.                      *)
THEOREM TypeCorrect == Spec => []TypeOK
<1>1. Typed => TypeOK
  BY DEF Typed, TypeOK, ProcOK, LateReq, Requests
<1> QED BY <1>1, TypedInit, TypedStep, PTL DEF Spec
-----------------------------------------------------------------------------
(* How long ago the server may last have heard of a process.               *)

Lease    == Grace * Registration.ttl
Round    == CallTime + SleepTime
First    == IF RegisterTime >= Round THEN RegisterTime ELSE Round
Rounds(l) == l * Round

(* Until heartbeat l + 1 begins, and until heartbeat l did.                *)
Before(l) == First + Rounds(l)
Since(l)  == IF l = 0 THEN 0 ELSE Before(l - 1)

(* The lease outlasts the registration, MaxLost rounds and one more call,  *)
(* and the heartbeats are about the instance and allowed to renew it.      *)
LeaseOutlasts    == Before(MaxLost) + CallTime < Lease
BeatsGetAccepted == Allowed(Beat) /\ Address(Beat) = Address(Registration)

Elapsed(r) ==
  IF r.pc = "registering" THEN r.clock
  ELSE IF r.pc = "beat" THEN Before(r.lost)
  ELSE IF r.pc = "beating" /\ r.sent THEN Before(r.lost) + r.clock
  ELSE IF r.pc = "beating" THEN Since(r.lost) + r.clock
  ELSE Since(r.lost) + CallTime + r.clock

Claims(r) == r.live /\ r.pc \in LoopPc \cup {"registering"}

(* What is left of the lease and what has gone by add up to a lease.       *)
LeaseInv ==
  \A p \in Process : Claims(proc[p]) /\ inst # None => Lease <= inst.left + Elapsed(proc[p])

LEMMA RoundFacts ==
  /\ Lease \in Nat /\ Round \in Nat /\ First \in Nat
  /\ RegisterTime <= First /\ Round <= First
  /\ \A l \in Nat : Rounds(l) \in Nat /\ Rounds(l + 1) = Rounds(l) + Round
  /\ \A l \in Nat : Before(l) \in Nat /\ Since(l) \in Nat
<1>1. Lease \in Nat
  BY RequestFacts DEF Lease, Grace
<1>2. Round \in Nat /\ First \in Nat /\ RegisterTime <= First /\ Round <= First
  BY LeaseAssumption DEF Round, First
<1> HIDE DEF Round
<1>3. ASSUME NEW l \in Nat PROVE Rounds(l) \in Nat /\ Rounds(l + 1) = Rounds(l) + Round
  BY <1>2 DEF Rounds
<1>4. \A l \in Nat : Before(l) \in Nat
  BY <1>2, <1>3 DEF Before
<1>5. \A l \in Nat : Since(l) \in Nat
  BY <1>4 DEF Since
<1> QED BY <1>1, <1>2, <1>3, <1>4, <1>5

LEMMA RoundsGrow ==
  ASSUME NEW l \in 0 .. MaxLost
  PROVE  Before(l) <= Before(MaxLost)
<1>1. l \in Nat /\ MaxLost \in Nat /\ Round \in Nat /\ l <= MaxLost
  BY RoundFacts, LeaseAssumption
<1>2. l * Round <= MaxLost * Round
  BY <1>1
<1> QED BY <1>2, RoundFacts, <1>1 DEF Before, Rounds

LEMMA SinceFacts ==
  ASSUME NEW l \in Nat
  PROVE  Since(l + 1) = Before(l) /\ Since(l) + Round <= Before(l)
<1>1. Since(l + 1) = Before(l)
  BY DEF Since
<1>2. CASE l = 0
  BY <1>2, RoundFacts DEF Since, Before
<1>3. CASE l # 0
  <2>1. l - 1 \in Nat /\ (l - 1) + 1 = l
    BY <1>3
  <2>2. Rounds(l) = Rounds(l - 1) + Round /\ Rounds(l - 1) \in Nat
    BY <2>1, RoundFacts
  <2> QED BY <1>3, <2>2, RoundFacts DEF Since, Before
<1> QED BY <1>1, <1>2, <1>3

LEMMA ElapsedNat ==
  ASSUME NEW r \in Process_
  PROVE  Elapsed(r) \in Nat
<1>1. r.lost \in Nat /\ r.clock \in Nat
  BY LeaseAssumption DEF Process_
<1>2. Before(r.lost) \in Nat /\ Since(r.lost) \in Nat
  BY <1>1, RoundFacts
<1> QED BY <1>1, <1>2, LeaseAssumption DEF Elapsed

(* What the server does to the record: nothing, or it starts a new lease,  *)
(* or it removes it.                                                       *)
LEMMA ServeLease ==
  ASSUME inst \in Instance \cup {None}, NEW req \in Requests, NEW seen, Serve(req, seen)
  PROVE  inst' = inst \/ inst' = None \/ inst'.left = Lease
<1>1. Accepts(req, seen) /\ req.op = "heartbeat" => inst \in Instance
  BY DEF Accepts, Known
<1>2. req.op = "register" => req = Registration
  BY OpFacts
<1> QED BY <1>1, <1>2 DEF Serve, Lease, Instance

(* Other processes keep what they have of the lease.                       *)
LEMMA OthersKeep ==
  ASSUME Typed, LeaseInv, NEW q \in Process, proc'[q] = proc[q],
         inst' = inst \/ inst' = None \/ inst'.left = Lease,
         Claims(proc'[q]), inst' # None
  PROVE  Lease <= inst'.left + Elapsed(proc'[q])
<1>1. Elapsed(proc[q]) \in Nat
  BY ElapsedNat DEF Typed
<1>2. CASE inst' = inst
  BY <1>2 DEF LeaseInv
<1>3. CASE inst'.left = Lease
  BY <1>1, <1>3, RoundFacts
<1> QED BY <1>2, <1>3

(* A step that moves one process, to a state in which it keeps its lease.  *)
LEMMA OneLease ==
  ASSUME Typed, LeaseInv, NEW p \in Process, NEW r, proc' = [proc EXCEPT ![p] = r],
         inst' = inst \/ inst' = None \/ inst'.left = Lease,
         Claims(r) /\ inst' # None => Lease <= inst'.left + Elapsed(r)
  PROVE  LeaseInv'
<1> SUFFICES ASSUME NEW q \in Process, Claims(proc'[q]), inst' # None
             PROVE  Lease <= inst'.left + Elapsed(proc'[q])
  BY DEF LeaseInv, Claims, Elapsed
<1>1. CASE q = p
  BY <1>1 DEF Typed
<1>2. CASE q # p
  <2>1. proc'[q] = proc[q]
    BY <1>2 DEF Typed
  <2> QED BY <2>1, OthersKeep
<1> QED BY <1>1, <1>2

LEMMA LeaseInit == Init => LeaseInv
BY DEF Init, LeaseInv, Claims, Down

LEMMA CallLease ==
  ASSUME Typed, LeaseInv, NEW p \in Process, NEW from \in {"register", "beat"},
         NEW pc \in CallPc, pc = "registering" => from = "register", Call(p, from, pc)
  PROVE  LeaseInv'
<1> DEFINE r == [proc[p] EXCEPT !.pc = pc, !.clock = 0, !.sent = TRUE]
<1>1. proc' = [proc EXCEPT ![p] = r] /\ inst' = inst
  BY DEF Call, Begin, Typed, Process_
<1>2. ProcOK(proc[p]) /\ proc[p].pc = from
  BY DEF Typed, Call
<1>3. r.pc = pc /\ r.clock = 0 /\ r.sent /\ r.lost = proc[p].lost /\ r.live = proc[p].live
  BY <1>2 DEF ProcOK, Process_
<1> HIDE DEF r
<1>4. Claims(r) => from = "beat" /\ pc = "beating" /\ proc[p].live
  BY <1>2, <1>3 DEF Claims, ProcOK, LoopPc, CallPc
<1>5. Claims(r) => Claims(proc[p]) /\ Elapsed(r) = Elapsed(proc[p])
  <2>1. r.lost \in Nat /\ Before(r.lost) \in Nat
    BY <1>2, <1>3, RoundFacts, LeaseAssumption DEF ProcOK, Process_
  <2> QED BY <1>2, <1>3, <1>4, <2>1 DEF Claims, Elapsed, LoopPc
<1> QED BY <1>1, <1>5, OneLease DEF LeaseInv

LEMMA WithoutApiLease ==
  ASSUME Typed, LeaseInv, NEW p \in Process, NEW from, NEW to, CallWithoutApi(p, from, to)
  PROVE  LeaseInv'
<1> DEFINE r == IF to = "down" THEN Down ELSE [proc[p] EXCEPT !.pc = to, !.clock = 0]
<1>1. proc' = [proc EXCEPT ![p] = r] /\ inst' = inst
  BY DEF CallWithoutApi
<1>2. ProcOK(proc[p]) /\ ~ proc[p].api
  BY DEF Typed, CallWithoutApi
<1>3. ~ r.live
  BY <1>2 DEF ProcOK, Process_, Down
<1> HIDE DEF r
<1> QED BY <1>1, <1>3, OneLease DEF Claims

LEMMA WakeLease ==
  ASSUME Typed, LeaseInv, NEW p \in Process, Wake(p)
  PROVE  LeaseInv'
<1> DEFINE r == [proc[p] EXCEPT !.pc = "beat", !.clock = 0]
<1>1. proc' = [proc EXCEPT ![p] = r] /\ inst' = inst
  BY DEF Wake, Typed, Process_
<1>2. ProcOK(proc[p]) /\ proc[p].pc = "sleep" /\ proc[p].clock = SleepTime
  BY DEF Wake, Typed
<1>3. r.pc = "beat" /\ r.lost = proc[p].lost /\ r.live = proc[p].live
  BY <1>2 DEF ProcOK, Process_
<1> HIDE DEF r
<1>4. r.lost \in Nat
  BY <1>2, <1>3, LeaseAssumption DEF ProcOK, Process_
<1>5. Elapsed(proc[p]) = Since(r.lost) + CallTime + SleepTime /\ Elapsed(r) = Before(r.lost)
  BY <1>2, <1>3 DEF Elapsed
<1>6. Elapsed(proc[p]) <= Elapsed(r) /\ Elapsed(proc[p]) \in Nat /\ Elapsed(r) \in Nat
  <2>1. Since(r.lost) + Round <= Before(r.lost) /\ Since(r.lost) \in Nat /\ Before(r.lost) \in Nat
    BY <1>4, SinceFacts, RoundFacts
  <2>2. CallTime \in Nat /\ SleepTime \in Nat
    BY LeaseAssumption
  <2> QED BY <1>5, <2>1, <2>2 DEF Round
<1>7. Claims(r) => Claims(proc[p])
  BY <1>2, <1>3 DEF Claims, LoopPc
<1>8. Claims(r) /\ inst' # None => Lease <= inst'.left + Elapsed(r)
  <2>1. inst # None => inst.left \in Nat
    BY RequestFacts DEF Typed, Instance, Grace
  <2> QED BY <1>1, <1>6, <1>7, <2>1, RoundFacts DEF LeaseInv
<1> QED BY <1>1, <1>8, OneLease

(* A call that returns, with what the server did to the record.            *)
LEMMA ReturnLease ==
  ASSUME Typed, LeaseInv, NEW p \in Process, proc[p].pc \in CallPc,
         NEW lost \in 0 .. MaxLost, NEW live \in BOOLEAN, Return(p, lost, live),
         inst' = inst \/ inst' = None \/ inst'.left = Lease,
         live /\ inst' # None /\ proc[p].pc # "deregistering" =>
           \/ inst'.left = Lease
           \/ /\ inst' = inst /\ proc[p].live
              /\ proc[p].pc = "beating" =>
                   lost = IF proc[p].sent THEN proc[p].lost + 1 ELSE proc[p].lost
  PROVE  LeaseInv'
<1> DEFINE r == proc[p]
           back == [r EXCEPT !.pc = After(r.pc), !.clock = 0, !.sent = FALSE,
                             !.lost = lost, !.live = live]
<1>0. ProcOK(r) /\ Elapsed(r) \in Nat /\ (inst # None => inst.left \in Nat)
  BY ElapsedNat, RequestFacts DEF Typed, Instance, Grace
<1>1. CASE r.pc = "deregistering"
  <2>1. proc' = [proc EXCEPT ![p] = Down] /\ ~ Claims(Down)
    BY <1>1 DEF Return, Claims, Down
  <2> QED BY <2>1, OneLease
<1>2. CASE r.pc # "deregistering"
  <2>1. proc' = [proc EXCEPT ![p] = back]
    BY <1>2 DEF Return
  <2>2. /\ back.pc = IF r.pc = "registering" THEN "beat" ELSE "sleep"
        /\ back.clock = 0 /\ back.lost = lost /\ back.live = live
    BY <1>0 DEF ProcOK, Process_, After
  <2> HIDE DEF back
  <2>3. lost \in Nat /\ Before(lost) \in Nat /\ Since(lost) \in Nat
        /\ First <= Before(lost) /\ CallTime \in Nat
    BY RoundFacts, LeaseAssumption DEF Before
  <2>4. Elapsed(back) = IF r.pc = "registering" THEN Before(lost) ELSE Since(lost) + CallTime
    BY <2>2, <2>3 DEF Elapsed
  <2>5. Claims(back) /\ inst' # None => Lease <= inst'.left + Elapsed(back)
    <3> SUFFICES ASSUME Claims(back), inst' # None PROVE Lease <= inst'.left + Elapsed(back)
      OBVIOUS
    <3>1. live
      BY <2>2 DEF Claims
    <3>2. CASE inst'.left = Lease
      BY <2>3, <2>4, <3>2, RoundFacts
    <3>3. CASE inst' = inst /\ r.live /\ r.pc = "registering"
      <4>1. r.clock <= RegisterTime /\ r.clock \in Nat /\ Elapsed(r) = r.clock /\ Claims(r)
        BY <1>0, <3>3, LimitFacts DEF ProcOK, Process_, Elapsed, Claims, Pc, CallPc
      <4>2. r.clock <= Elapsed(back)
        BY <2>3, <2>4, <3>3, <4>1, RoundFacts, LeaseAssumption
      <4> QED BY <1>0, <2>3, <2>4, <3>3, <4>1, <4>2, RoundFacts DEF LeaseInv
    <3>4. CASE /\ inst' = inst /\ r.live /\ r.pc = "beating"
               /\ lost = IF r.sent THEN r.lost + 1 ELSE r.lost
      <4>1. r.clock <= CallTime /\ r.clock \in Nat /\ r.lost \in Nat /\ Claims(r)
        BY <1>0, <3>4, LimitFacts, LeaseAssumption DEF ProcOK, Process_, Claims, LoopPc
      <4>2. Elapsed(r) = Since(lost) + r.clock
        BY <3>4, <4>1, SinceFacts DEF Elapsed
      <4> QED BY <1>0, <2>3, <2>4, <3>4, <4>1, <4>2, RoundFacts DEF LeaseInv
    <3> QED BY <1>2, <3>1, <3>2, <3>3, <3>4 DEF CallPc
  <2> QED BY <2>1, <2>5, OneLease
<1> QED BY <1>1, <1>2

LEMMA GiveUpLease ==
  ASSUME Typed, LeaseInv, NEW p \in Process, GiveUp(p)
  PROVE  LeaseInv'
<1> DEFINE r == proc[p]
           lost == IF r.sent /\ r.pc = "beating" THEN r.lost + 1 ELSE r.lost
<1>0. r.pc \in CallPc /\ ProcOK(r) /\ lost <= MaxLost /\ Return(p, lost, r.live) /\ inst' = inst
  BY DEF GiveUp, Typed
<1>1. lost \in 0 .. MaxLost /\ r.live \in BOOLEAN
  BY <1>0, LeaseAssumption DEF ProcOK, Process_
<1>2. r.pc = "beating" => lost = IF r.sent THEN r.lost + 1 ELSE r.lost
  OBVIOUS
<1> HIDE DEF lost
<1> QED BY <1>0, <1>1, <1>2, ReturnLease

(* The server takes the request of a call: a heartbeat it sees renews the  *)
(* lease, and only an unseen one leaves it as it is.                       *)
LEMMA HandleLease ==
  ASSUME BeatsGetAccepted, Typed, LeaseInv, NEW p \in Process, NEW seen \in BOOLEAN,
         NEW answered \in BOOLEAN, Handle(p, seen, answered)
  PROVE  LeaseInv'
<1> DEFINE r == proc[p]
           req == RequestOf(r.pc)
           lost == IF seen THEN 0 ELSE r.lost + 1
           live == r.live \/ Accepts(req, seen)
           kept == [r EXCEPT !.sent = FALSE, !.lost = lost, !.live = live]
<1>0. r.pc \in CallPc /\ r.sent /\ ProcOK(r) /\ lost <= MaxLost /\ Serve(req, seen)
      /\ MaySee(req, seen)
  BY DEF Handle, Typed
<1>1. req \in Requests /\ inst \in Instance \cup {None}
  BY <1>0 DEF Requests, Typed
<1>2. inst' = inst \/ inst' = None \/ inst'.left = Lease
  BY <1>0, <1>1, ServeLease
<1>3. lost \in 0 .. MaxLost /\ live \in BOOLEAN
  BY <1>0, LeaseAssumption DEF ProcOK, Process_, Accepts, Allowed, Known
<1>4. live /\ inst' # None /\ r.pc # "deregistering" =>
        \/ inst'.left = Lease
        \/ inst' = inst /\ r.live /\ (r.pc = "beating" => lost = r.lost + 1)
  <2> SUFFICES ASSUME live, inst' # None, r.pc # "deregistering"
               PROVE  \/ inst'.left = Lease
                      \/ inst' = inst /\ r.live /\ (r.pc = "beating" => lost = r.lost + 1)
    OBVIOUS
  <2>1. CASE r.pc = "registering"
    <3>1. req.op = "register" /\ req = Registration
      BY <2>1, RequestFacts DEF RequestOf
    <3>2. CASE Accepts(req, seen)
      BY <1>0, <3>1, <3>2 DEF Serve, Lease
    <3>3. CASE ~ Accepts(req, seen)
      BY <1>0, <2>1, <3>3 DEF Serve
    <3> QED BY <3>2, <3>3
  <2>2. CASE r.pc = "beating"
    <3>1. req = Beat /\ req.op = "heartbeat"
      BY <2>2, RequestFacts DEF RequestOf
    <3>2. CASE Accepts(req, seen)
      <4>1. inst \in Instance
        BY <1>1, <3>1, <3>2 DEF Accepts, Known
      <4> QED BY <1>0, <3>1, <3>2, <4>1 DEF Serve, Lease, Instance
    <3>3. CASE ~ Accepts(req, seen)
      <4>1. inst' = inst
        BY <1>0, <3>3 DEF Serve
      <4>2. ~ seen
        BY <1>1, <3>1, <3>3, <4>1 DEF Accepts, Known, Instance, BeatsGetAccepted
      <4> QED BY <3>3, <4>1, <4>2
    <3> QED BY <3>2, <3>3
  <2> QED BY <1>0, <2>1, <2>2 DEF CallPc
<1>5. CASE answered
  <2>1. Return(p, lost, live)
    BY <1>5 DEF Handle
  <2> HIDE DEF lost, live
  <2> QED BY <1>0, <1>2, <1>3, <1>4, <2>1, ReturnLease
<1>6. CASE ~ answered
  <2>1. proc' = [proc EXCEPT ![p] = kept]
    BY <1>6 DEF Handle, Typed, Process_
  <2>2. kept.pc = r.pc /\ kept.clock = r.clock /\ kept.sent = FALSE /\ kept.lost = lost
        /\ kept.live = live
    BY <1>0 DEF ProcOK, Process_
  <2> HIDE DEF kept, lost, live
  <2>3. Claims(kept) /\ inst' # None => Lease <= inst'.left + Elapsed(kept)
    <3> SUFFICES ASSUME Claims(kept), inst' # None
                 PROVE  Lease <= inst'.left + Elapsed(kept)
      OBVIOUS
    <3>1. live /\ r.pc # "deregistering" /\ r.pc \in {"registering", "beating"}
      BY <1>0, <2>2 DEF Claims, LoopPc, CallPc
    <3>2. lost \in Nat /\ r.lost \in Nat /\ r.clock \in Nat /\ Since(lost) \in Nat
      BY <1>0, <1>3, RoundFacts, LeaseAssumption DEF ProcOK, Process_
    <3>3. Elapsed(kept) = IF r.pc = "registering" THEN r.clock ELSE Since(lost) + r.clock
      BY <2>2, <3>1 DEF Elapsed
    <3>4. CASE inst'.left = Lease
      BY <3>2, <3>3, <3>4, RoundFacts
    <3>5. CASE inst' = inst /\ r.live /\ (r.pc = "beating" => lost = r.lost + 1)
      <4>1. Claims(r)
        BY <3>1, <3>5 DEF Claims, LoopPc
      <4>2. Elapsed(r) = Elapsed(kept)
        BY <1>0, <3>1, <3>2, <3>3, <3>5, SinceFacts DEF Elapsed
      <4> QED BY <3>5, <4>1, <4>2 DEF LeaseInv
    <3> QED BY <1>4, <3>1, <3>4, <3>5
  <2> QED BY <1>2, <2>1, <2>3, OneLease
<1> QED BY <1>5, <1>6

LEMMA TickLease ==
  ASSUME Typed, LeaseInv, Tick
  PROVE  LeaseInv'
<1> SUFFICES ASSUME NEW q \in Process, Claims(proc'[q]), inst' # None
             PROVE  Lease <= inst'.left + Elapsed(proc'[q])
  BY DEF LeaseInv, Claims, Elapsed
<1> DEFINE r == proc[q]
<1>0. ProcOK(r) /\ Waiting(q) /\ Elapsed(r) \in Nat
  BY ElapsedNat DEF Typed, Tick
<1>1. r.pc # "down" /\ proc'[q] = [r EXCEPT !.clock = @ + 1]
  BY DEF Tick, Claims, Down
<1>2. /\ proc'[q].pc = r.pc /\ proc'[q].clock = r.clock + 1 /\ proc'[q].lost = r.lost
      /\ proc'[q].sent = r.sent /\ proc'[q].live = r.live
  BY <1>0, <1>1 DEF ProcOK, Process_
<1>3. Claims(r) /\ r.pc # "beat"
  BY <1>0, <1>1, <1>2 DEF Claims, Waiting, CallPc
<1>4. Elapsed(proc'[q]) = Elapsed(r) + 1
  <2>1. r.clock \in Nat /\ r.lost \in Nat /\ CallTime \in Nat
    BY <1>0, LeaseAssumption DEF ProcOK, Process_
  <2>2. Before(r.lost) \in Nat /\ Since(r.lost) \in Nat
    BY <2>1, RoundFacts
  <2> QED BY <1>2, <1>3, <2>1, <2>2 DEF Elapsed
<1>5. inst # None /\ inst' = [inst EXCEPT !.left = Older(@), !.fresh = Older(@)]
      /\ inst \in Instance
  BY DEF Tick, Typed
<1>6. inst.left \in Nat /\ inst'.left \in Nat /\ inst.left <= inst'.left + 1
  BY <1>5, RequestFacts DEF Instance, Older, Grace
<1>7. Lease <= inst.left + Elapsed(r)
  BY <1>3, <1>5 DEF LeaseInv
<1> HIDE DEF r
<1> QED BY <1>0, <1>4, <1>6, <1>7, RoundFacts

LEMMA LateLease ==
  ASSUME Typed, LeaseInv, NEW m \in late, NEW seen \in BOOLEAN,
         DropLate(m) \/ HandleLate(m, seen)
  PROVE  LeaseInv'
<1>1. m.req \in Requests
  BY DEF Typed, LateReq
<1>2. proc' = proc /\ (inst' = inst \/ inst' = None \/ inst'.left = Lease)
  BY <1>1, ServeLease DEF DropLate, HandleLate, Typed
<1>3. \A q \in Process : Claims(proc'[q]) /\ inst' # None =>
                           Lease <= inst'.left + Elapsed(proc'[q])
  BY <1>2, OthersKeep
<1> QED BY <1>3 DEF LeaseInv, Claims, Elapsed

LEMMA LeaseStep ==
  ASSUME BeatsGetAccepted, Typed, LeaseInv, [Next]_vars
  PROVE  LeaseInv'
<1>1. CASE UNCHANGED vars
  BY <1>1 DEF vars, LeaseInv, Claims, Elapsed
<1>2. ASSUME NEW p \in Process, Register(p) \/ Heartbeat(p) \/ Deregister(p) PROVE LeaseInv'
  BY <1>2, CallLease, WithoutApiLease DEF Register, Heartbeat, Deregister, CallPc
<1>3. ASSUME NEW p \in Process, Wake(p) \/ GiveUp(p) PROVE LeaseInv'
  BY <1>3, WakeLease, GiveUpLease
<1>4. ASSUME NEW p \in Process, Start(p) PROVE LeaseInv'
  <2>1. PICK ok \in BOOLEAN :
          proc' = [proc EXCEPT ![p] = [Down EXCEPT !.pc = "register", !.run = starts + 1, !.api = ok]]
    BY <1>4 DEF Start
  <2>2. ~ Claims([Down EXCEPT !.pc = "register", !.run = starts + 1, !.api = ok])
    BY DEF Claims, Down
  <2> QED BY <1>4, <2>1, <2>2, OneLease DEF Start
<1>5. ASSUME NEW p \in Process, Crash(p) PROVE LeaseInv'
  <2>1. ~ Claims(Down)
    BY DEF Claims, Down
  <2> QED BY <1>5, <2>1, OneLease DEF Crash
<1>6. ASSUME NEW p \in Process, NEW seen \in BOOLEAN, NEW answered \in BOOLEAN,
             Handle(p, seen, answered)
      PROVE  LeaseInv'
  BY <1>6, HandleLease
<1>7. ASSUME NEW m \in late, NEW seen \in BOOLEAN, DropLate(m) \/ HandleLate(m, seen)
      PROVE  LeaseInv'
  BY <1>7, LateLease
<1>8. CASE Tick
  BY <1>8, TickLease
<1> QED BY <1>1, <1>2, <1>3, <1>4, <1>5, <1>6, <1>7, <1>8 DEF Next, Step, Run

(* While a lease outlasts the time between two renewals, there is some of  *)
(* it left.                                                                *)
LEMMA LeaseHealthy ==
  ASSUME LeaseOutlasts, Typed, LeaseInv
  PROVE  HealthyWhileBeating
<1> SUFFICES ASSUME NEW p \in Process, proc[p].live, proc[p].pc \in LoopPc, inst # None
             PROVE  inst.left > 0
  BY DEF HealthyWhileBeating, Healthy
<1> DEFINE r == proc[p]
<1>1. ProcOK(r) /\ inst.left \in Nat /\ Elapsed(r) \in Nat
  BY RequestFacts, ElapsedNat DEF Typed, Instance, Grace
<1>2. r.lost \in 0 .. MaxLost /\ r.lost \in Nat /\ r.clock \in Nat /\ r.clock <= Limit(r.pc)
  BY <1>1, LeaseAssumption DEF ProcOK, Process_
<1>3. Before(r.lost) <= Before(MaxLost) /\ Since(r.lost) + Round <= Before(r.lost)
  BY <1>2, RoundsGrow, SinceFacts
<1>4. Before(r.lost) \in Nat /\ Since(r.lost) \in Nat /\ Before(MaxLost) \in Nat
  BY <1>2, RoundFacts, LeaseAssumption
<1>5. Elapsed(r) <= Before(MaxLost) + CallTime
  BY <1>2, <1>3, <1>4, LimitFacts, LeaseAssumption DEF Elapsed, LoopPc, Round
<1>6. Lease <= inst.left + Elapsed(r)
  BY DEF LeaseInv, Claims
<1> HIDE DEF r
<1> QED BY <1>1, <1>4, <1>5, <1>6, RoundFacts, LeaseAssumption DEF LeaseOutlasts

(* The instance of a process that loops is healthy: whatever arrives late  *)
(* or is lost, for any timeouts the lease outlasts.                        *)
THEOREM BeatingKeepsHealthy ==
  ASSUME LeaseOutlasts, BeatsGetAccepted
  PROVE  Spec => []HealthyWhileBeating
<1>1. Typed /\ LeaseInv => HealthyWhileBeating
  BY LeaseHealthy
<1>2. Typed /\ LeaseInv /\ [Next]_vars => LeaseInv'
  BY LeaseStep
<1> QED BY <1>1, <1>2, TypedInit, TypedStep, LeaseInit, PTL DEF Spec

-----------------------------------------------------------------------------
(* Which arrays of a script the server takes heartbeats from.              *)

(* The two arrays of a script name the same instance, and its token.       *)
SameInstance ==
  /\ \A k \in {"namespace", "service", "host", "vpc_id"} : Text(BeatInfo, k) = Text(Info, k)
  /\ Number(BeatInfo, "port") = Number(Info, "port")

TokenFits == ServiceToken \in {None, Token(BeatInfo)}

(* A scalar entry of an array reads the same after TransferToStdMap.       *)
LEMMA Scalar ==
  ASSUME NEW a, NEW k, k \notin ArrayKey
  PROVE  /\ Text(TransferToStdMap(a), k) = Text(a, k)
         /\ Number(TransferToStdMap(a), k) = Number(a, k)
BY DEF TransferToStdMap, Text, Number

LEMMA ScalarKeys ==
  {"namespace", "service", "host", "port", "vpc_id", "token"} \cap ArrayKey = {}
BY DEF ArrayKey

(* What the requests take from the arrays.                                 *)
LEMMA FromArrays ==
  /\ Address(Registration) = <<Key(Info), Text(Info, "host"), Number(Info, "port"),
                               Text(Info, "vpc_id")>>
  /\ Address(Beat) = <<Key(BeatInfo), Text(BeatInfo, "host"), Number(BeatInfo, "port"),
                       Text(BeatInfo, "vpc_id")>>
  /\ Beat.token = Token(BeatInfo)
<1>1. ASSUME NEW a
      PROVE  /\ Key(TransferToStdMap(a)) = Key(a)
             /\ Token(TransferToStdMap(a)) = Token(a)
             /\ Text(TransferToStdMap(a), "host") = Text(a, "host")
             /\ Number(TransferToStdMap(a), "port") = Number(a, "port")
             /\ Text(TransferToStdMap(a), "vpc_id") = Text(a, "vpc_id")
  <2>1. \A k \in {"namespace", "service", "host", "port", "vpc_id", "token"} :
          /\ Text(TransferToStdMap(a), k) = Text(a, k)
          /\ Number(TransferToStdMap(a), k) = Number(a, k)
    BY Scalar, ScalarKeys
  <2> QED BY <2>1 DEF Key, Token
<1> DEFINE info == TransferToStdMap(Info)
           beat == TransferToStdMap(BeatInfo)
<1>2. /\ Registration.key = Key(info) /\ Registration.host = Text(info, "host")
      /\ Registration.port = Number(info, "port") /\ Registration.vpc_id = Text(info, "vpc_id")
  BY DEF Registration, RegisterInstance, InstanceRegisterRequest
<1>3. /\ Beat.key = Key(beat) /\ Beat.host = Text(beat, "host")
      /\ Beat.port = Number(beat, "port") /\ Beat.vpc_id = Text(beat, "vpc_id")
      /\ Beat.token = Token(beat)
  BY DEF Beat, DoHeartbeat, InstanceHeartbeatRequest
<1> QED BY <1>1, <1>2, <1>3 DEF Address

LEMMA ArraysAccepted ==
  ASSUME SameInstance, TokenFits
  PROVE  BeatsGetAccepted
<1>1. Key(BeatInfo) = Key(Info)
  BY DEF Key, SameInstance
<1> QED BY <1>1, FromArrays DEF SameInstance, TokenFits, BeatsGetAccepted, Allowed

(* The loop of examples/quickstart keeps its instance healthy with its own *)
(* numbers: a ttl of 5, a register timeout of 5, heartbeats of at most 1   *)
(* second 4 seconds apart, of which one after another may be lost; for any *)
(* number of processes and restarts, and any arrays that agree.            *)
THEOREM QuickstartKeepsHealthy ==
  ASSUME Flag(Info, "heartbeat"), Number(Info, "ttl") = 5, RegisterTime = 5,
         CallTime = 1, SleepTime = 4, MaxLost = 1, SameInstance, TokenFits
  PROVE  Spec => []HealthyWhileBeating
<1>1. Registration.ttl = 5
  <2> DEFINE params == TransferToStdMap(Info)
  <2>1. Flag(params, "heartbeat") /\ Number(params, "ttl") = 5
    BY Scalar DEF Flag, ArrayKey
  <2> HIDE DEF params
  <2> QED BY <2>1 DEF Registration, RegisterInstance, InstanceRegisterRequest, params
<1>2. LeaseOutlasts
  BY <1>1 DEF LeaseOutlasts, Before, First, Rounds, Round, Lease, Grace
<1> QED BY <1>2, ArraysAccepted, BeatingKeepsHealthy

(* Class Polaris names the instance of Register in its heartbeats, but     *)
(* leaves the token out (polaris.class.php).                               *)
LEMMA WrapperArray ==
  ASSUME BeatInfo = HeartbeatArray(Info)
  PROVE  SameInstance /\ Text(BeatInfo, "token") = ""
BY DEF HeartbeatArray, SameInstance, Text, Number

(* A lease is never renewed: it runs down, whoever beats.                  *)
NeverRenewed ==
  [][inst # None /\ inst' # None => inst'.left <= inst.left]_vars

(* So no service whose token is not the one made up from its name ever     *)
(* hears of class Polaris after the registration: what lease_wrapper shows *)
(* for one array holds for all.                                            *)
THEOREM WrapperNeverRenews ==
  ASSUME BeatInfo = HeartbeatArray(Info),
         ServiceToken # None, ServiceToken # Token([service |-> Text(Info, "service")])
  PROVE  Spec => NeverRenewed
<1> DEFINE Sinks == inst # None /\ inst' # None => inst'.left <= inst.left
<1>1. ~ Allowed(Beat)
  <2>1. Beat.token = <<"polaris_php_sdk__", Text(BeatInfo, "service")>>
    BY WrapperArray, FromArrays DEF Token
  <2>2. Text(BeatInfo, "service") = Text(Info, "service")
    BY WrapperArray DEF SameInstance
  <2>3. Token([service |-> Text(Info, "service")]) =
          <<"polaris_php_sdk__", Text(Info, "service")>>
    BY DEF Token, Text
  <2> QED BY <2>1, <2>2, <2>3 DEF Allowed
<1>2. ASSUME Typed, NEW req \in Requests, NEW seen, Serve(req, seen) PROVE Sinks
  <2>1. CASE ~ Accepts(req, seen)
    BY <1>2, <2>1, RequestFacts DEF Serve, Typed, Instance, Grace
  <2>2. CASE Accepts(req, seen)
    <3>1. req.op # "heartbeat"
      BY <1>1, <1>2, <2>2, OpFacts DEF Accepts
    <3>2. inst = None \/ inst' = None
      BY <1>2, <2>2, <3>1 DEF Serve, Accepts
    <3> QED BY <3>2
  <2> QED BY <2>1, <2>2
<1>3. ASSUME Typed, inst' = inst PROVE Sinks
  BY <1>3, RequestFacts DEF Typed, Instance, Grace
<1>4. Typed /\ [Next]_vars => Sinks
  <2> SUFFICES ASSUME Typed, [Next]_vars PROVE Sinks
    OBVIOUS
  <2>1. ASSUME NEW p \in Process, NEW seen \in BOOLEAN, NEW answered \in BOOLEAN,
               Handle(p, seen, answered)
        PROVE  Sinks
    <3>1. RequestOf(proc[p].pc) \in Requests
      BY <2>1 DEF Handle, Requests
    <3> QED BY <1>2, <2>1, <3>1 DEF Handle
  <2>2. ASSUME NEW m \in late, NEW seen \in BOOLEAN, HandleLate(m, seen) PROVE Sinks
    <3>1. m.req \in Requests
      BY DEF Typed, LateReq
    <3> QED BY <1>2, <2>2, <3>1 DEF HandleLate
  <2>3. CASE Tick
    <3>1. ASSUME inst # None PROVE inst.left \in Nat /\ inst'.left = Older(inst.left)
      BY <2>3, <3>1, RequestFacts DEF Tick, Typed, Instance, Grace
    <3> QED BY <3>1 DEF Older
  <2>4. CASE inst' = inst
    BY <1>3, <2>4
  <2> HIDE DEF Sinks
  <2> QED BY <2>1, <2>2, <2>3, <2>4
          DEF Next, Step, Run, vars, Register, Heartbeat, Deregister, Call, CallWithoutApi,
              Wake, GiveUp, Start, Crash, DropLate
<1>5. Sinks => [Sinks]_vars
  OBVIOUS
<1>6. Spec => [][Sinks]_vars
  BY <1>4, <1>5, TypedInit, TypedStep, PTL DEF Spec
<1> QED BY <1>6 DEF NeverRenewed
=============================================================================
