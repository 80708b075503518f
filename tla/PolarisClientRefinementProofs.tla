------------------- MODULE PolarisClientRefinementProofs -------------------
(* PolarisClient implements ClientContract, for every set of objects,      *)
(* threads and addresses and any number of constructor calls.              *)
EXTENDS PolarisClientRefinement, PolarisClientProofs

(* The abstract state. *)
Phase == [o \in Object |-> PhaseOf(o)]
Ready == [o \in Object |-> ReadyOf(o)]
Call  == [t \in Thread |-> CallOf(t)]

(* A thread outside the API methods has no call open.                      *)
LEMMA IdleMapsToNoCall ==
  ASSUME NEW t \in Thread, thr[t].pc \notin CallPc
  PROVE  Call[t] = Contract!NoCall
BY DEF Call, CallOf, Contract!NoCall

(* No call is open on an object whose threads are all outside API methods. *)
LEMMA NoOpenCall ==
  ASSUME IndInv, NEW o \in Object,
         \A t \in Thread : thr[t].obj = o => thr[t].pc \notin CallPc
  PROVE  ~ Contract!Open(o)
BY NoneAssumption DEF Contract!Open, Call, CallOf

(* A thread that moves outside the API methods leaves the calls alone. *)
LEMMA CallsUnchanged ==
  ASSUME NEW t \in Thread, thr[t].pc \notin CallPc, thr'[t].pc \notin CallPc,
         \A u \in Thread : u # t => thr'[u] = thr[u]
  PROVE  Call' = Call
<1>1. \A u \in Thread : CallOf(u)' = CallOf(u)
  BY DEF CallOf
<1> QED BY <1>1 DEF Call

(* Phase and Ready depend on life and api alone.                           *)
LEMMA ObjectsUnchanged ==
  ASSUME UNCHANGED <<life, api>>
  PROVE  Phase' = Phase /\ Ready' = Ready
BY DEF Phase, Ready, PhaseOf, ReadyOf, Usable

(* The initial states map to initial states.                               *)
LEMMA InitRefines == Init => Contract!CInit
BY DEF Init, Idle, CallPc, Contract!CInit, Contract!NoCall,
       PhaseOf, ReadyOf, Usable, CallOf

(* A thread inside the extension works on an object.                       *)
LEMMA ThreadFacts ==
  ASSUME IndInv, NEW t \in Thread, thr[t].pc # "idle"
  PROVE  thr[t].obj \in Object /\ thr[t].kind \in Kind
BY DEF IndInv, TypeOK, ThreadState, ThreadsInv

(* Creation, construction, destruction. *)
LEMMA CreateRefines ==
  ASSUME IndInv, NEW t \in Thread, NEW o \in Object, CreateHandler(t, o)
  PROVE  Contract!Allocate(o)
<1>1. life' = [life EXCEPT ![o] = "raw"] /\ life[o] = "none" /\ up
      /\ UNCHANGED <<up, api, thr>>
  BY DEF CreateHandler
<1>2. Phase' = [Phase EXCEPT ![o] = "raw"] /\ Phase[o] = "none"
  BY <1>1 DEF Phase, PhaseOf, IndInv, TypeOK
<1>3. \A k \in Kind : api[o][k] = None
  BY <1>1 DEF IndInv, ApiField, ApiAt, ContextField
<1>4. Ready' = Ready
  BY <1>1, <1>3 DEF Ready, ReadyOf, Usable, IndInv, TypeOK
<1>5. Call' = Call
  BY <1>1 DEF Call, CallOf
<1> QED BY <1>1, <1>2, <1>4, <1>5 DEF Contract!Allocate, Phase, Ready, Call

(* The end of a successful constructor is Construct.                       *)
LEMMA ConstructRefines ==
  ASSUME IndInv, NEW t \in Thread, NEW h \in Handle, ConstructContext(t, h)
  PROVE  \E o \in Object : Contract!Construct(o)
<1>1. PICK o \in Object : o = thr[t].obj
  BY ThreadFacts DEF ConstructContext
<1>2. /\ up /\ UNCHANGED up /\ life[o] \in {"raw", "ready"}
      /\ life' = [life EXCEPT ![o] = "ready"]
      /\ api' = [api EXCEPT ![o] = [k \in Kind |-> None]]
  BY <1>1 DEF IndInv, LifeInv, Usable, ConstructContext, Leave
<1>3. ~ Contract!Open(o)
  BY <1>1, NoOpenCall DEF IndInv, AloneInv, ConstructContext, CallPc
<1>4. Phase' = [Phase EXCEPT ![o] = "built"] /\ Phase[o] \in {"raw", "built"}
  BY <1>2 DEF Phase, PhaseOf, IndInv, TypeOK
<1>5. Ready' = [Ready EXCEPT ![o] = {}]
  BY <1>2 DEF Ready, ReadyOf, Usable, IndInv, TypeOK
<1>6. Call' = Call
  BY LeaveFacts, CallsUnchanged DEF ConstructContext, CallPc, IndInv
<1> QED BY <1>2, <1>3, <1>4, <1>5, <1>6 DEF Contract!Construct, Phase, Ready, Call

(* The exits of the constructor are ConstructFails.                        *)
LEMMA ConstructFailureRefines ==
  ASSUME IndInv, NEW t \in Thread, ConstructNoConfig(t) \/ ConstructNoContext(t)
  PROVE  \E o \in Object : Contract!ConstructFails(o)
<1>1. PICK o \in Object : o = thr[t].obj
  BY ThreadFacts DEF ConstructNoConfig, ConstructNoContext
<1>2. /\ up /\ ~ up' /\ life[o] \in {"raw", "ready"} /\ UNCHANGED <<life, thr>>
      /\ thr[t].pc = "construct"
      /\ api' \in {api, [api EXCEPT ![o] = [k \in Kind |-> None]]}
  BY <1>1 DEF IndInv, LifeInv, Usable, ConstructNoConfig, ConstructNoContext, Exit
<1>3. ~ Contract!Open(o)
  BY <1>1, <1>2, NoOpenCall DEF IndInv, AloneInv, CallPc
<1>4. Phase' = Phase /\ Phase[o] \in {"raw", "built"}
  BY <1>2 DEF Phase, PhaseOf
<1>5. Ready' \in {Ready, [Ready EXCEPT ![o] = {}]}
  <2>1. CASE api' = api
    BY <1>2, <2>1 DEF Ready, ReadyOf, Usable
  <2>2. CASE api' = [api EXCEPT ![o] = [k \in Kind |-> None]]
    BY <1>2, <2>2 DEF Ready, ReadyOf, Usable, IndInv, TypeOK
  <2> QED BY <1>2, <2>1, <2>2
<1>6. Call' = Call
  BY <1>2 DEF Call, CallOf
<1>7. up' = FALSE
  BY <1>2 DEF ConstructNoConfig, ConstructNoContext, Exit
<1> QED BY <1>2, <1>3, <1>4, <1>5, <1>6, <1>7 DEF Contract!ConstructFails, Phase, Ready, Call

(* The begin of the destructor is Destroy.                                 *)
LEMMA FreeRefines ==
  ASSUME IndInv, NEW t \in Thread, NEW o \in Object, FreeEnter(t, o)
  PROVE  Contract!Destroy(o)
<1>1. /\ up /\ UNCHANGED <<up, api>> /\ life[o] \in {"raw", "ready"}
      /\ life' = [life EXCEPT ![o] = "freeing"]
      /\ \A u \in Thread : thr[u].obj # o
  BY DEF FreeEnter, Enter, Usable, InUse
<1>2. ~ Contract!Open(o)
  BY <1>1, NoOpenCall
<1>3. Phase' = [Phase EXCEPT ![o] = "gone"] /\ Phase[o] \in {"raw", "built"}
  BY <1>1 DEF Phase, PhaseOf, IndInv, TypeOK
<1>4. Ready' = [Ready EXCEPT ![o] = {}]
  BY <1>1 DEF Ready, ReadyOf, Usable, IndInv, TypeOK
<1>5. Call' = Call
  BY MoveFacts, CallsUnchanged DEF FreeEnter, Enter, FirstKind, Pc, FreePc, CallPc, Kind, IndInv
<1> QED BY <1>1, <1>2, <1>3, <1>4, <1>5 DEF Contract!Destroy, Phase, Ready, Call

(* InitX: storing a created API enables the capability. *)
LEMMA StoreRefines ==
  ASSUME IndInv, NEW t \in Thread, InitStore(t)
  PROVE  \/ \E o \in Object, k \in Kind : Contract!Enable(o, k)
         \/ UNCHANGED Contract!cvars
<1>1. PICK o \in Object, k \in Kind : o = thr[t].obj /\ k = thr[t].kind
  BY ThreadFacts DEF InitStore, Goto
<1>2. PICK h \in Handle \cup {None} : h = thr[t].handle
  BY DEF IndInv, TypeOK, ThreadState
<1>3. /\ up /\ UNCHANGED <<up, life>> /\ life[o] \in {"raw", "ready"}
      /\ api[o][k] = None
      /\ api' = [api EXCEPT ![o][k] = h]
      /\ h # None => life[o] = "ready"
  BY <1>1, <1>2 DEF IndInv, InitInv, LifeInv, ContextField, Usable, InitPc, InitStore, Goto
<1>4. Phase' = Phase
  BY <1>3 DEF Phase, PhaseOf
<1>5. Call' = Call
  <2>1. Move(t, "init_unlock", o, k, h) /\ thr[t].pc = "init_store"
    BY <1>1, <1>2 DEF InitStore, Goto
  <2>2. thr'[t].pc = "init_unlock" /\ \A u \in Thread : u # t => thr'[u] = thr[u]
    BY <2>1, MoveFacts DEF Pc, InitPc, IndInv
  <2> QED BY <2>1, <2>2, CallsUnchanged DEF CallPc
<1>6. CASE h = None
  <2>1. api' = api
    BY <1>3, <1>6 DEF IndInv, TypeOK
  <2>2. Ready' = Ready
    BY <1>3, <2>1 DEF Ready, ReadyOf, Usable
  <2> QED BY <1>3, <1>4, <1>5, <2>2 DEF Contract!cvars, Phase, Ready, Call
<1>7. CASE h # None
  <2>1. k \notin Ready[o]
    BY <1>3 DEF Ready, ReadyOf
  <2>2. ASSUME NEW p \in Object
        PROVE  Ready'[p] = IF p = o THEN Ready[p] \cup {k} ELSE Ready[p]
    BY <1>3, <1>7, <2>2 DEF Ready, ReadyOf, Usable, IndInv, TypeOK
  <2>3. Ready' = [Ready EXCEPT ![o] = @ \cup {k}]
    BY <2>2 DEF Ready
  <2>4. Phase[o] = "built"
    BY <1>3, <1>7 DEF Phase, PhaseOf
  <2> QED BY <1>3, <1>4, <1>5, <2>1, <2>3, <2>4 DEF Contract!Enable, Phase, Ready, Call
<1> QED BY <1>6, <1>7

(* API methods: the pointer read decides. *)
LEMMA CallEnterRefines ==
  ASSUME IndInv, NEW t \in Thread, NEW o \in Object, NEW k \in Kind, CallEnter(t, o, k)
  PROVE  Contract!Request(t, o, k)
<1>1. /\ up /\ UNCHANGED <<up, life, api>> /\ life[o] \in {"raw", "ready"}
      /\ thr[t].pc = "idle"
  BY DEF CallEnter, Enter, Usable
<1>2. /\ thr'[t].pc = "call_read" /\ thr'[t].obj = o /\ thr'[t].kind = k
      /\ \A u \in Thread : u # t => thr'[u] = thr[u]
  BY MoveFacts DEF CallEnter, Enter, Pc, CallPc, IndInv
<1>3. Call[t] = Contract!NoCall
  BY <1>1, IdleMapsToNoCall DEF CallPc
<1>4. Call' = [Call EXCEPT ![t] = [obj |-> o, kind |-> k, outcome |-> "pending"]]
  BY <1>2 DEF Call, CallOf, OutcomeOf, CallPc
<1>5. Phase[o] \in {"raw", "built"}
  BY <1>1 DEF Phase, PhaseOf
<1> QED BY <1>1, <1>3, <1>4, <1>5, ObjectsUnchanged DEF Contract!Request, Phase, Ready, Call

(* Reading the pointer is Decide.                                          *)
LEMMA CallReadRefines ==
  ASSUME IndInv, NEW t \in Thread, CallRead(t)
  PROVE  Contract!Decide(t)
<1>1. PICK o \in Object, k \in Kind : o = thr[t].obj /\ k = thr[t].kind
  BY ThreadFacts DEF CallRead
<1>2. PICK h \in Handle \cup {None} : h = api[o][k]
  BY DEF IndInv, TypeOK
<1>3. /\ up /\ UNCHANGED <<up, life, api>> /\ thr[t].pc = "call_read"
      /\ Move(t, IF h = None THEN "call_null" ELSE "call_sdk", o, k, h)
      /\ Usable(o)
  BY <1>1, <1>2 DEF CallRead, IndInv, LifeInv, CallPc
<1>4. /\ thr'[t].pc = IF h = None THEN "call_null" ELSE "call_sdk"
      /\ thr'[t].obj = o /\ thr'[t].kind = k
      /\ \A u \in Thread : u # t => thr'[u] = thr[u]
  <2>1. (IF h = None THEN "call_null" ELSE "call_sdk") \in Pc
    BY DEF Pc, CallPc
  <2> QED BY <1>3, <2>1, MoveFacts DEF IndInv
<1>5. Call[t] = [obj |-> o, kind |-> k, outcome |-> "pending"]
  BY <1>1, <1>3 DEF Call, CallOf, OutcomeOf, CallPc
<1>6. k \in Ready[o] <=> h # None
  BY <1>2, <1>3 DEF Ready, ReadyOf
<1>7. \A u \in Thread : u # t => CallOf(u)' = CallOf(u)
  BY <1>4 DEF CallOf
<1>8. CallOf(t)' = [obj |-> o, kind |-> k,
                    outcome |-> IF k \in Ready[o] THEN "served" ELSE "refused"]
  BY <1>4, <1>6 DEF CallOf, OutcomeOf, CallPc
<1>9. Call' = [Call EXCEPT ![t] = [obj |-> o, kind |-> k,
                 outcome |-> IF k \in Ready[o] THEN "served" ELSE "refused"]]
  BY <1>5, <1>7, <1>8 DEF Call
<1>10. Call[t].obj = o /\ Call[t].kind = k /\ Call[t].outcome = "pending"
  BY <1>5
<1>11. Phase' = Phase /\ Ready' = Ready
  BY <1>3, ObjectsUnchanged
<1> QED BY <1>3, <1>9, <1>10, <1>11 DEF Contract!Decide, Phase, Ready, Call

(* The return of the method is Return.                                     *)
LEMMA CallReturnRefines ==
  ASSUME IndInv, NEW t \in Thread, CallSdk(t) \/ CallNull(t)
  PROVE  Contract!Return(t)
<1>1. /\ up /\ UNCHANGED <<up, life, api>> /\ thr[t].pc \in {"call_sdk", "call_null"}
      /\ Leave(t)
  BY DEF CallSdk, CallNull, Leave
<1>2. thr'[t].pc = "idle" /\ \A u \in Thread : u # t => thr'[u] = thr[u]
  BY <1>1, LeaveFacts DEF IndInv
<1>3. Call[t].outcome \in {"served", "refused"}
  BY <1>1 DEF Call, CallOf, OutcomeOf, CallPc
<1>4. Call' = [Call EXCEPT ![t] = Contract!NoCall]
  BY <1>2 DEF Call, CallOf, Contract!NoCall, CallPc
<1> QED BY <1>1, <1>3, <1>4, ObjectsUnchanged DEF Contract!Return, Phase, Ready, Call

(* The steps a script cannot see. *)
LEMMA HiddenMove ==
  ASSUME IndInv, NEW t \in Thread, UNCHANGED <<up, life, api>>,
         thr[t].pc \notin CallPc, thr'[t].pc \notin CallPc,
         \A u \in Thread : u # t => thr'[u] = thr[u]
  PROVE  UNCHANGED Contract!cvars
BY ObjectsUnchanged, CallsUnchanged DEF Contract!cvars, Phase, Ready, Call

(* Entering a constructor or an InitX, locking, testing, creating,         *)
(* unlocking and deleting an API.                                          *)
LEMMA HiddenSteps ==
  ASSUME IndInv, NEW t \in Thread,
         \/ InitLock(t) \/ InitCheck(t) \/ InitCreateFails(t) \/ InitUnlock(t)
         \/ (\E h \in Handle : InitCreate(t, h))
         \/ FreeApi(t)
         \/ (\E o \in Object : ConstructEnter(t, o))
         \/ (\E o \in Object, k \in Kind : InitEnter(t, o, k))
  PROVE  UNCHANGED Contract!cvars
<1>1. UNCHANGED <<up, life, api>> /\ thr[t].pc \notin CallPc
  BY DEF InitLock, InitCheck, InitCreateFails, InitUnlock, InitCreate, FreeApi,
         ConstructEnter, InitEnter, Enter, Goto, CallPc
<1>2. thr'[t].pc \notin CallPc /\ \A u \in Thread : u # t => thr'[u] = thr[u]
  <2>1. CASE InitUnlock(t)
    BY <2>1, LeaveFacts DEF InitUnlock, IndInv, CallPc
  <2>2. CASE ~ InitUnlock(t)
    <3>1. PICK pc \in Pc \ CallPc, o \in Object \cup {None}, k \in Kind,
               h \in Handle \cup {None} : Move(t, pc, o, k, h)
      BY <2>2, ThreadFacts
         DEF InitLock, InitCheck, InitCreateFails, InitCreate, FreeApi, NextKind,
             ConstructEnter, InitEnter, Enter, Goto, Pc, InitPc, FreePc, CallPc, Kind,
             IndInv, TypeOK, ThreadState
    <3> QED BY <3>1, MoveFacts DEF IndInv
  <2> QED BY <2>1, <2>2
<1> QED BY <1>1, <1>2, HiddenMove

(* The end of the destructor.                                              *)
LEMMA FreeContextHidden ==
  ASSUME IndInv, NEW t \in Thread, FreeContext(t)
  PROVE  UNCHANGED Contract!cvars
<1>1. PICK o \in Object : o = thr[t].obj
  BY ThreadFacts DEF FreeContext
<1>2. /\ UNCHANGED <<up, api>> /\ life[o] = "freeing"
      /\ life' = [life EXCEPT ![o] = "freed"]
  BY <1>1 DEF FreeContext, IndInv, LifeInv, FreePc
<1>3. Phase' = Phase /\ Ready' = Ready
  BY <1>2 DEF Phase, PhaseOf, Ready, ReadyOf, Usable, IndInv, TypeOK
<1>4. Call' = Call
  BY LeaveFacts, CallsUnchanged DEF FreeContext, CallPc, IndInv
<1> QED BY <1>2, <1>3, <1>4 DEF Contract!cvars, Phase, Ready, Call

(* Every step maps to a step of the contract or to a stutter.              *)
LEMMA NextRefines ==
  ASSUME IndInv, [Next]_vars
  PROVE  [Contract!CNext]_Contract!cvars
<1>1. CASE UNCHANGED vars \/ Stopped
  <2>1. UNCHANGED <<up, life, api, thr>>
    BY <1>1 DEF Stopped, vars
  <2>2. Call' = Call
    BY <2>1 DEF Call, CallOf
  <2> QED BY <2>1, <2>2, ObjectsUnchanged DEF Contract!cvars, Phase, Ready, Call
<1>2. ASSUME NEW t \in Thread, Begin(t)
      PROVE  [Contract!CNext]_Contract!cvars
  <2>1. ASSUME NEW o \in Object, CreateHandler(t, o)
        PROVE  Contract!CNext
    BY <2>1, CreateRefines DEF Contract!CNext
  <2>2. ASSUME NEW o \in Object, FreeEnter(t, o)
        PROVE  Contract!CNext
    BY <2>2, FreeRefines DEF Contract!CNext
  <2>3. ASSUME NEW o \in Object, NEW k \in Kind, CallEnter(t, o, k)
        PROVE  Contract!CNext
    BY <2>3, CallEnterRefines DEF Contract!CNext
  <2> QED BY <1>2, <2>1, <2>2, <2>3, HiddenSteps DEF Begin
<1>3. ASSUME NEW t \in Thread, Step(t)
      PROVE  [Contract!CNext]_Contract!cvars
  <2>1. ASSUME NEW h \in Handle, ConstructContext(t, h)
        PROVE  Contract!CNext
    BY <2>1, ConstructRefines DEF Contract!CNext
  <2>2. CASE ConstructNoConfig(t) \/ ConstructNoContext(t)
    BY <2>2, ConstructFailureRefines DEF Contract!CNext
  <2>3. CASE InitStore(t)
    BY <2>3, StoreRefines DEF Contract!CNext
  <2>4. CASE CallRead(t)
    BY <2>4, CallReadRefines DEF Contract!CNext
  <2>5. CASE CallSdk(t) \/ CallNull(t)
    BY <2>5, CallReturnRefines DEF Contract!CNext
  <2> QED BY <1>3, <2>1, <2>2, <2>3, <2>4, <2>5, HiddenSteps, FreeContextHidden DEF Step
<1> QED BY <1>1, <1>2, <1>3 DEF Next

(* PolarisClient implements ClientContract: every initial state and every  *)
(* step of the native object is one of the atomic object a script sees, or *)
(* leaves it unchanged.                                                    *)
THEOREM Refinement == Spec => ImplementsContract
<1>1. Init => Contract!CInit
  BY InitRefines
<1>2. IndInv /\ [Next]_vars => [Contract!CNext]_Contract!cvars
  BY NextRefines
<1> QED BY <1>1, <1>2, Inductive, PTL DEF Spec, ImplementsContract, Contract!CSpec
=============================================================================
