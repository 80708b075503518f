--------------------------- MODULE PolarisClient ---------------------------
(***************************************************************************)
(* The native object behind the PHP class PolarisClient                    *)
(* (polaris/polaris_core.hpp): one Context of the polaris-cpp SDK and up   *)
(* to three API objects created from it on demand.  Every object carries   *)
(* a mutex that only the InitX methods take; all other methods read the    *)
(* API pointer without it.                                                 *)
(*                                                                         *)
(* What a method does with the API pointer is one step here (CallSdk):     *)
(* this module is about who creates, sees, uses and deletes the pointers.  *)
(***************************************************************************)
EXTENDS Naturals

CONSTANTS
  Object,        \* PolarisClient objects a script may create
  Thread,        \* threads of the PHP process
  Handle,        \* heap addresses of SDK objects (contexts and APIs)
  MaxConstructs, \* bound: how often __construct is run on one object
  None           \* nullptr

ASSUME NoneAssumption ==
  /\ None \notin Object
  /\ None \notin Thread
  /\ None \notin Handle

ASSUME BoundAssumption == MaxConstructs \in Nat

(* The three API pointers of struct polaris_core_object. *)
Kind == {"provider", "consumer", "limit"}

VARIABLES
  up,      \* FALSE once a constructor has called exit(EXIT_FAILURE)
  life,    \* life[o]: where the zend_object is between allocation and efree
  ctx,     \* ctx[o]: obj->globalCtx
  api,     \* api[o][k]: obj->provider, obj->consumer, obj->limit
  mtx,     \* mtx[o]: the thread that holds obj->mtx
  thr,     \* thr[t]: the native call thread t is executing
  heap,    \* heap[h]: the SDK object at address h
  built    \* built[o]: how often __construct was entered on o

vars == <<up, life, ctx, api, mtx, thr, heap, built>>

(***************************************************************************)
(* A thread outside the extension is Idle.  A record of thr says what the  *)
(* call is (obj, kind), how far it got (pc) and the pointer it has read    *)
(* into a local variable (handle).                                         *)
(***************************************************************************)
Idle == [pc |-> "idle", obj |-> None, kind |-> "provider", handle |-> None]

InitPc == {"init_lock", "init_check", "init_create", "init_store", "init_unlock"}
CallPc == {"call_read", "call_sdk", "call_null"}
FreePc == {"free_api", "free_ctx"}

(* The statements between obj->mtx.lock() and obj->mtx.unlock(). *)
CriticalPc == InitPc \ {"init_lock"}

Pc == {"idle", "construct"} \cup InitPc \cup CallPc \cup FreePc

ThreadState ==
  [pc     : Pc,
   obj    : Object \cup {None},
   kind   : Kind,
   handle : Handle \cup {None}]

(* An address: never allocated, a Context, or an API made from Context ctx. *)
Unused == [state |-> "unused", kind |-> "context", ctx |-> None, owner |-> None]

HeapCell ==
  [state : {"unused", "live", "deleted", "double_free"},
   kind  : Kind \cup {"context"},
   ctx   : Handle \cup {None},
   owner : Object \cup {None}]

Live(h)  == heap[h].state = "live"
InUse(o) == \E t \in Thread : thr[t].obj = o
Constructing(o) == \E t \in Thread : thr[t].pc = "construct" /\ thr[t].obj = o
Usable(o) == life[o] \in {"raw", "ready"}

Init ==
  /\ up = TRUE
  /\ life  = [o \in Object |-> "none"]
  /\ ctx   = [o \in Object |-> None]
  /\ api   = [o \in Object |-> [k \in Kind |-> None]]
  /\ mtx   = [o \in Object |-> None]
  /\ thr   = [t \in Thread |-> Idle]
  /\ heap  = [h \in Handle |-> Unused]
  /\ built = [o \in Object |-> 0]

-----------------------------------------------------------------------------
(* Steps shared by the methods. *)

Move(t, pc, o, k, h) ==
  thr' = [thr EXCEPT ![t] = [pc |-> pc, obj |-> o, kind |-> k, handle |-> h]]

Enter(t, o, k, pc) ==
  /\ up
  /\ thr[t].pc = "idle"
  /\ Usable(o)
  /\ Move(t, pc, o, k, None)

Goto(t, from, to) ==
  /\ up
  /\ thr[t].pc = from
  /\ Move(t, to, thr[t].obj, thr[t].kind, thr[t].handle)

Leave(t) ==
  /\ up
  /\ thr' = [thr EXCEPT ![t] = Idle]

(* new and delete of the SDK's objects; delete on a null pointer does      *)
(* nothing, on a dangling one it corrupts the heap.                        *)
Allocate(h, k, c, o) ==
  /\ heap[h].state = "unused"
  /\ heap' = [heap EXCEPT ![h] = [state |-> "live", kind |-> k, ctx |-> c, owner |-> o]]

Delete(h) ==
  heap' = IF h = None THEN heap
          ELSE [heap EXCEPT ![h].state = IF Live(h) THEN "deleted" ELSE "double_free"]

Exit ==
  /\ up' = FALSE
  /\ UNCHANGED <<life, ctx, api, mtx, thr, heap, built>>

-----------------------------------------------------------------------------
(* Creation and construction.                                              *)

(* Mutant: emalloc in the place of ecalloc. *)
CreateHandlerUncleared(t, o) ==
  /\ up
  /\ thr[t].pc = "idle"
  /\ life[o] = "none"
  /\ life' = [life EXCEPT ![o] = "raw"]
  /\ ctx' = [ctx EXCEPT ![o] = "garbage"]
  /\ UNCHANGED <<up, api, mtx, thr, heap, built>>

(* polaris_core_create_handler: ecalloc leaves every native field null. *)
CreateHandler(t, o) ==
  /\ up
  /\ thr[t].pc = "idle"
  /\ life[o] = "none"
  /\ life' = [life EXCEPT ![o] = "raw"]
  /\ UNCHANGED <<up, ctx, api, mtx, thr, heap, built>>

(***************************************************************************)
(* __construct.  A subclass may never call it, and a script may call it    *)
(* again on a constructed object; it runs while no other method of the     *)
(* object does (the reference has not been handed out yet, or the script   *)
(* re-constructs between its own calls).                                   *)
(***************************************************************************)
ConstructEnter(t, o) ==
  /\ Enter(t, o, "provider", "construct")
  /\ ~ InUse(o)
  /\ built[o] < MaxConstructs
  /\ built' = [built EXCEPT ![o] = @ + 1]
  /\ UNCHANGED <<up, life, ctx, api, mtx, heap>>

(* The argument is no array, or Config::CreateFromFile returned NULL. *)
ConstructNoConfig(t) ==
  /\ up
  /\ thr[t].pc = "construct"
  /\ Exit

(* Context::Create, the three null assignments, the end of the constructor. *)
ConstructContext(t, h) ==
  LET o == thr[t].obj IN
  /\ thr[t].pc = "construct"
  /\ Leave(t)
  /\ api' = [api EXCEPT ![o] = [k \in Kind |-> None]]
  /\ Allocate(h, "context", None, o)
  /\ ctx' = [ctx EXCEPT ![o] = h]
  /\ life' = [life EXCEPT ![o] = "ready"]
  /\ UNCHANGED <<up, mtx, built>>

(* Context::Create returned NULL: the fields are written, then exit(). *)
ConstructNoContext(t) ==
  LET o == thr[t].obj IN
  /\ up
  /\ thr[t].pc = "construct"
  /\ ctx' = [ctx EXCEPT ![o] = None]
  /\ api' = [api EXCEPT ![o] = [k \in Kind |-> None]]
  /\ up' = FALSE
  /\ UNCHANGED <<life, mtx, thr, heap, built>>

-----------------------------------------------------------------------------
(* InitProvider, InitConsumer, InitLimit: one body for the three kinds.    *)

InitEnter(t, o, k) ==
  /\ Enter(t, o, k, "init_lock")
  /\ ~ Constructing(o)
  /\ UNCHANGED <<up, life, ctx, api, mtx, heap, built>>

(* Mutants: the lock is not waited for; the pointer is reset before the test. *)
InitLockBarges(t) ==
  LET o == thr[t].obj IN
  /\ Goto(t, "init_lock", "init_check")
  /\ mtx' = [mtx EXCEPT ![o] = t]
  /\ UNCHANGED <<up, life, ctx, api, heap, built>>

InitLockResets(t) ==
  LET o == thr[t].obj IN
  /\ Goto(t, "init_lock", "init_check")
  /\ mtx[o] = None
  /\ mtx' = [mtx EXCEPT ![o] = t]
  /\ api' = [api EXCEPT ![o][thr[t].kind] = None]
  /\ UNCHANGED <<up, life, ctx, heap, built>>

InitLock(t) ==
  LET o == thr[t].obj IN
  /\ Goto(t, "init_lock", "init_check")
  /\ mtx[o] = None
  /\ mtx' = [mtx EXCEPT ![o] = t]
  /\ UNCHANGED <<up, life, ctx, api, heap, built>>

(* Mutant: a pointer found is deleted and made anew. *)
InitCheckRefreshes(t) ==
  /\ Goto(t, "init_check", "init_create")
  /\ Delete(api[thr[t].obj][thr[t].kind])
  /\ UNCHANGED <<up, life, ctx, api, mtx, built>>

InitCheck(t) ==
  /\ Goto(t, "init_check",
          IF api[thr[t].obj][thr[t].kind] = None THEN "init_create" ELSE "init_unlock")
  /\ UNCHANGED <<up, life, ctx, api, mtx, heap, built>>

(* Mutant: the lock is given back before the pointer is stored. *)
InitCreateUnlocks(t, h) ==
  LET o == thr[t].obj IN
  /\ up
  /\ thr[t].pc = "init_create"
  /\ ctx[o] # None
  /\ Allocate(h, thr[t].kind, ctx[o], o)
  /\ Move(t, "init_store", o, thr[t].kind, h)
  /\ mtx' = [mtx EXCEPT ![o] = None]
  /\ UNCHANGED <<up, life, ctx, api, built>>

(* XxxApi::Create(obj->globalCtx) answers a new API, or NULL on failure,   *)
(* which is the only outcome for a null context.                           *)
InitCreate(t, h) ==
  LET o == thr[t].obj IN
  /\ up
  /\ thr[t].pc = "init_create"
  /\ ctx[o] # None
  /\ Allocate(h, thr[t].kind, ctx[o], o)
  /\ Move(t, "init_store", o, thr[t].kind, h)
  /\ UNCHANGED <<up, life, ctx, api, mtx, built>>

(* Mutant: a failure is retried with the lock held. *)
InitCreateFailsRetries(t) ==
  /\ Goto(t, "init_create", "init_check")
  /\ UNCHANGED <<up, life, ctx, api, mtx, heap, built>>

InitCreateFails(t) ==
  /\ up
  /\ thr[t].pc = "init_create"
  /\ Move(t, "init_store", thr[t].obj, thr[t].kind, None)
  /\ UNCHANGED <<up, life, ctx, api, mtx, heap, built>>

InitStore(t) ==
  /\ Goto(t, "init_store", "init_unlock")
  /\ api' = [api EXCEPT ![thr[t].obj][thr[t].kind] = thr[t].handle]
  /\ UNCHANGED <<up, life, ctx, mtx, heap, built>>

InitUnlock(t) ==
  /\ thr[t].pc = "init_unlock"
  /\ Leave(t)
  /\ mtx' = [mtx EXCEPT ![thr[t].obj] = None]
  /\ UNCHANGED <<up, life, ctx, api, heap, built>>

-----------------------------------------------------------------------------
(* The eleven API methods: Register, Deregister, Heartbeat (provider);     *)
(* InitService, GetOneInstance, GetInstances, GetAllInstances,             *)
(* UpdateServiceCallResult (consumer); GetQuota, UpdateCallResult,         *)
(* InitQuotaWindow (limit).                                                *)

(* A wrong number or type of arguments returns before obj is looked at and *)
(* changes nothing, so a call enters the model when its arguments parsed.  *)
CallEnter(t, o, k) ==
  /\ Enter(t, o, k, "call_read")
  /\ ~ Constructing(o)
  /\ UNCHANGED <<up, life, ctx, api, mtx, heap, built>>

(* Mutants: the read waits for the lock to be free; every method also      *)
(* wants the provider, as the one it was copied from.                      *)
CallReadLocked(t) ==
  LET h == api[thr[t].obj][thr[t].kind] IN
  /\ up
  /\ thr[t].pc = "call_read"
  /\ mtx[thr[t].obj] = None
  /\ Move(t, IF h = None THEN "call_null" ELSE "call_sdk", thr[t].obj, thr[t].kind, h)
  /\ UNCHANGED <<up, life, ctx, api, mtx, heap, built>>

CallReadWantsProvider(t) ==
  LET o == thr[t].obj
      h == api[o][thr[t].kind] IN
  /\ up
  /\ thr[t].pc = "call_read"
  /\ Move(t, IF None \in {h, api[o]["provider"]} THEN "call_null" ELSE "call_sdk",
          o, thr[t].kind, h)
  /\ UNCHANGED <<up, life, ctx, api, mtx, heap, built>>

(* The unlocked read of obj->provider, obj->consumer or obj->limit. *)
CallRead(t) ==
  LET h == api[thr[t].obj][thr[t].kind] IN
  /\ up
  /\ thr[t].pc = "call_read"
  /\ Move(t, IF h = None THEN "call_null" ELSE "call_sdk", thr[t].obj, thr[t].kind, h)
  /\ UNCHANGED <<up, life, ctx, api, mtx, heap, built>>

(* The call into the SDK returns; code and err_msg are its answer. *)
CallSdk(t) ==
  /\ thr[t].pc = "call_sdk"
  /\ Leave(t)
  /\ UNCHANGED <<up, life, ctx, api, mtx, heap, built>>

(* code -1 and err_msg "polaris ... instance is nullptr". *)
CallNull(t) ==
  /\ thr[t].pc = "call_null"
  /\ Leave(t)
  /\ UNCHANGED <<up, life, ctx, api, mtx, heap, built>>

-----------------------------------------------------------------------------
(* polaris_core_free_storage: the engine runs it when the last reference   *)
(* is gone, so no method of the object is running.                         *)

(* delete obj->provider; delete obj->consumer; delete obj->limit. *)
FirstKind == "provider"
NextKind(k) == IF k = "provider" THEN "consumer" ELSE "limit"

FreeEnter(t, o) ==
  /\ Enter(t, o, FirstKind, "free_api")
  /\ ~ InUse(o)
  /\ life' = [life EXCEPT ![o] = "freeing"]
  /\ UNCHANGED <<up, ctx, api, mtx, heap, built>>

(* Mutants: obj->limit is forgotten; consumer is deleted in its place.      *)
FreeApiForgetsLimit(t) ==
  LET o == thr[t].obj
      k == thr[t].kind IN
  /\ up
  /\ thr[t].pc = "free_api"
  /\ Delete(api[o][k])
  /\ Move(t, IF k = "consumer" THEN "free_ctx" ELSE "free_api", o, NextKind(k), None)
  /\ UNCHANGED <<up, life, ctx, api, mtx, built>>

FreeApiCopyPaste(t) ==
  LET o == thr[t].obj
      k == thr[t].kind IN
  /\ up
  /\ thr[t].pc = "free_api"
  /\ Delete(api[o][IF k = "limit" THEN "consumer" ELSE k])
  /\ Move(t, IF k = "limit" THEN "free_ctx" ELSE "free_api", o, NextKind(k), None)
  /\ UNCHANGED <<up, life, ctx, api, mtx, built>>

FreeApi(t) ==
  LET o == thr[t].obj
      k == thr[t].kind IN
  /\ up
  /\ thr[t].pc = "free_api"
  /\ Delete(api[o][k])
  /\ Move(t, IF k = "limit" THEN "free_ctx" ELSE "free_api", o, NextKind(k), None)
  /\ UNCHANGED <<up, life, ctx, api, mtx, built>>

(* Mutant: the context is taken for one its APIs own. *)
FreeContextKeepsIt(t) ==
  LET o == thr[t].obj IN
  /\ thr[t].pc = "free_ctx"
  /\ Leave(t)
  /\ life' = [life EXCEPT ![o] = "freed"]
  /\ UNCHANGED <<up, ctx, api, mtx, heap, built>>

(* delete obj->globalCtx, zend_object_std_dtor, efree. *)
FreeContext(t) ==
  LET o == thr[t].obj IN
  /\ thr[t].pc = "free_ctx"
  /\ Leave(t)
  /\ Delete(ctx[o])
  /\ life' = [life EXCEPT ![o] = "freed"]
  /\ UNCHANGED <<up, ctx, api, mtx, built>>

-----------------------------------------------------------------------------
(* The process is gone, or every object is: nothing is left to do. *)
Stopped ==
  /\ \/ ~ up
     \/ \A o \in Object : life[o] = "freed"
  /\ UNCHANGED vars

(* What thread t does once it is inside the extension. *)
Step(t) ==
  \/ ConstructNoConfig(t) \/ ConstructNoContext(t)
  \/ InitLock(t) \/ InitCheck(t) \/ InitCreateFails(t) \/ InitStore(t) \/ InitUnlock(t)
  \/ CallRead(t) \/ CallSdk(t) \/ CallNull(t)
  \/ FreeApi(t) \/ FreeContext(t)
  \/ \E h \in Handle : ConstructContext(t, h) \/ InitCreate(t, h)

(* What the script makes thread t begin. *)
Begin(t) ==
  \E o \in Object :
    \/ CreateHandler(t, o)
    \/ ConstructEnter(t, o)
    \/ FreeEnter(t, o)
    \/ \E k \in Kind : InitEnter(t, o, k) \/ CallEnter(t, o, k)

Next == (\E t \in Thread : Begin(t) \/ Step(t)) \/ Stopped

Spec == Init /\ [][Next]_vars

(* A native call is never abandoned half-way: the operating system keeps   *)
(* scheduling its thread, and SDK calls return (they have timeouts).       *)
Fairness == \A t \in Thread : WF_vars(Step(t))

FairSpec == Spec /\ Fairness
-----------------------------------------------------------------------------
(* Properties.                                                             *)

(* Type invariant: every variable keeps the shape its declaration states.  *)
TypeOK ==
  /\ up \in BOOLEAN
  /\ life \in [Object -> {"none", "raw", "ready", "freeing", "freed"}]
  /\ ctx \in [Object -> Handle \cup {None}]
  /\ api \in [Object -> [Kind -> Handle \cup {None}]]
  /\ mtx \in [Object -> Thread \cup {None}]
  /\ thr \in [Thread -> ThreadState]
  /\ heap \in [Handle -> HeapCell]
  /\ built \in [Object -> Nat]

(* At most one API of a kind is ever made from one context, although       *)
(* several threads may run the same InitX at once and the null test and    *)
(* the assignment of InitX are separate steps (the lock/test/create/unlock *)
(* of InitProvider, InitLimit, InitConsumer).                              *)
OneApiPerContext ==
  \A g, h \in Handle :
    /\ Live(g) /\ heap[g].kind \in Kind
    /\ Live(h) /\ heap[h].kind = heap[g].kind
    /\ heap[h].ctx = heap[g].ctx
    => g = h

(* A method that is inside the SDK holds, although it read the pointer     *)
(* without the lock, a live API of its own kind whose context is live too: *)
(* neither InitX, __construct nor polaris_core_free_storage pulls it away. *)
NoUseAfterFree ==
  \A t \in Thread :
    up /\ thr[t].pc = "call_sdk" =>
      LET h == thr[t].handle IN
      /\ h # None
      /\ Live(h)
      /\ heap[h].kind = thr[t].kind
      /\ heap[h].ctx # None
      /\ Live(heap[h].ctx)

(* A context in share mode is not owned by the APIs made from it and must  *)
(* outlive them: no live API refers to a deleted context, at any point of  *)
(* polaris_core_free_storage either.                                       *)
ContextOutlivesApis ==
  \A h \in Handle :
    Live(h) /\ heap[h].kind \in Kind =>
      heap[h].ctx # None /\ Live(heap[h].ctx)

(* Once an object has been freed, every context and every API created for  *)
(* it has been deleted: polaris_core_free_storage is the only place that   *)
(* deletes, and sees only what the fields hold at the end.                 *)
NothingLeaked ==
  \A h \in Handle :
    Live(h) /\ heap[h].owner # None => life[heap[h].owner] # "freed"

(* A thread that found an API pointer may keep relying on it: once set, a  *)
(* field of an object changes only in a constructor of that object, never  *)
(* in an InitX that lost a race.                                           *)
KeepsPointers ==
  \A o \in Object, k \in Kind :
    /\ api[o][k] # None
    /\ api'[o][k] # api[o][k]
    => Constructing(o)

PointerStable == [][KeepsPointers]_vars

(* Nothing is deleted twice: the share-mode context belongs to the object  *)
(* alone and no two fields hold the same pointer.                          *)
NoDoubleFree == \A h \in Handle : heap[h].state # "double_free"

(* obj->mtx is always given back, unless the process exits: no path of     *)
(* InitX returns between lock() and unlock().                              *)
LockReleased ==
  \A o \in Object : mtx[o] # None ~> (mtx[o] = None \/ ~ up)

(* Every API method returns: it never waits for obj->mtx, whatever the     *)
(* threads inside InitX do.                                                *)
CallReturns ==
  \A t \in Thread : thr[t].pc \in CallPc ~> (thr[t].pc = "idle" \/ ~ up)
-----------------------------------------------------------------------------
(* The inductive invariant behind the safety properties. *)

(* A thread is outside the extension exactly when it works on no object. *)
ThreadsInv == \A t \in Thread : (thr[t].pc = "idle") <=> (thr[t].obj = None)

(* Whoever is between lock() and unlock() holds the mutex of its object. *)
LockInv == \A t \in Thread : thr[t].pc \in CriticalPc => mtx[thr[t].obj] = t

(* A constructor and polaris_core_free_storage have the object to themselves. *)
AloneInv ==
  \A t, u \in Thread :
    /\ thr[t].pc \in FreePc \cup {"construct"}
    /\ thr[u].obj = thr[t].obj
    => u = t

(* Methods and constructors run on an object that is not being freed. *)
LifeInv ==
  \A t \in Thread :
    /\ thr[t].pc \in FreePc => life[thr[t].obj] = "freeing"
    /\ thr[t].pc \in InitPc \cup CallPc \cup {"construct"} => Usable(thr[t].obj)

(* obj->globalCtx is null or the object's own context, live until freed. *)
ContextField ==
  \A o \in Object :
    /\ life[o] \in {"none", "raw"} => ctx[o] = None
    /\ ctx[o] # None =>
         /\ heap[ctx[o]].kind = "context"
         /\ heap[ctx[o]].owner = o
         /\ heap[ctx[o]].state # "unused"
         /\ life[o] # "freed" => Live(ctx[o])

(* An API field is null or an API of its kind made from obj->globalCtx. *)
ApiAt(o, k) ==
  api[o][k] # None =>
    /\ ctx[o] # None
    /\ heap[api[o][k]].kind = k
    /\ heap[api[o][k]].ctx = ctx[o]
    /\ heap[api[o][k]].owner = o
    /\ heap[api[o][k]].state # "unused"
    /\ Usable(o) => Live(api[o][k])

ApiField == \A o \in Object, k \in Kind : ApiAt(o, k)

(* What polaris_core_free_storage has still to delete is live, what it has *)
(* passed is not.                                                          *)
Pending(k) ==
  IF k = "provider" THEN Kind ELSE {"limit", k}

FreeInv ==
  \A t \in Thread, k \in Kind :
    LET h == api[thr[t].obj][k] IN
    /\ thr[t].pc = "free_api" /\ h # None =>
         (Live(h) <=> k \in Pending(thr[t].kind))
    /\ thr[t].pc = "free_ctx" /\ h # None => ~ Live(h)

(* A thread that creates an API found the field null, and holds in handle  *)
(* what it is about to store.                                              *)
InitInv ==
  \A t \in Thread :
    LET o == thr[t].obj
        h == thr[t].handle IN
    /\ thr[t].pc \in {"init_create", "init_store"} => api[o][thr[t].kind] = None
    /\ thr[t].pc = "init_store" /\ h # None =>
         /\ ctx[o] # None
         /\ heap[h] = [state |-> "live", kind |-> thr[t].kind,
                       ctx |-> ctx[o], owner |-> o]

(* A thread inside the SDK uses the pointer the object still holds. *)
CallInv ==
  \A t \in Thread :
    thr[t].pc = "call_sdk" =>
      /\ thr[t].handle # None
      /\ thr[t].handle = api[thr[t].obj][thr[t].kind]

(* A live API belongs to a live context of the same object.  While that is *)
(* the object's present context, the API is in its field or in the hands   *)
(* of the one thread about to store it.                                    *)
Storing(t, h) ==
  /\ thr[t].pc = "init_store"
  /\ thr[t].handle = h
  /\ thr[t].obj = heap[h].owner
  /\ thr[t].kind = heap[h].kind

Home(h) ==
  Live(h) /\ heap[h].kind \in Kind =>
    /\ heap[h].ctx # None
    /\ Live(heap[h].ctx)
    /\ heap[heap[h].ctx].kind = "context"
    /\ heap[heap[h].ctx].owner = heap[h].owner
    /\ heap[h].owner # None
    /\ ctx[heap[h].owner] = heap[h].ctx =>
         \/ api[heap[h].owner][heap[h].kind] = h
         \/ \E t \in Thread : Storing(t, h)

HomeInv == \A h \in Handle : Home(h)

IndInv ==
  /\ TypeOK
  /\ ThreadsInv
  /\ LockInv
  /\ AloneInv
  /\ LifeInv
  /\ ContextField
  /\ ApiField
  /\ FreeInv
  /\ InitInv
  /\ CallInv
  /\ HomeInv
  /\ OneApiPerContext
  /\ NoDoubleFree

(* With one constructor per object, a live context is the one its object   *)
(* still refers to.                                                        *)
OwnInv ==
  /\ \A o \in Object : Constructing(o) => built[o] # 0
  /\ \A h \in Handle :
       Live(h) /\ heap[h].kind = "context" =>
         LET o == heap[h].owner IN
         /\ o # None
         /\ built[o] # 0
         /\ ctx[o] = h
         /\ life[o] # "freed"
         /\ ~ Constructing(o)
=============================================================================
