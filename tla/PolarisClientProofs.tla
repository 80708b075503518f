----------------------- MODULE PolarisClientProofs -------------------------
(***************************************************************************)
(* The invariant IndInv of PolarisClient is inductive, and the safety      *)
(* properties follow from it, for every set of objects, threads and        *)
(* addresses and every number of constructor calls.                        *)
(***************************************************************************)
EXTENDS PolarisClient, TLAPS

-----------------------------------------------------------------------------
(* Facts about the operators the actions are built from.                   *)

(* What thr is after a step that puts one thread somewhere.                *)
LEMMA MoveFacts ==
  ASSUME TypeOK, NEW t \in Thread,
         NEW pc \in Pc, NEW o \in Object \cup {None}, NEW k \in Kind,
         NEW h \in Handle \cup {None},
         Move(t, pc, o, k, h)
  PROVE  /\ thr' \in [Thread -> ThreadState]
         /\ thr'[t].pc = pc
         /\ thr'[t].obj = o
         /\ thr'[t].kind = k
         /\ thr'[t].handle = h
         /\ \A u \in Thread : u # t => thr'[u] = thr[u]
BY DEF Move, TypeOK, ThreadState

(* What thr is after a native call returned.                               *)
LEMMA LeaveFacts ==
  ASSUME TypeOK, NEW t \in Thread, Leave(t)
  PROVE  /\ thr' \in [Thread -> ThreadState]
         /\ thr'[t].pc = "idle"
         /\ thr'[t].obj = None
         /\ thr'[t].kind = "provider"
         /\ thr'[t].handle = None
         /\ \A u \in Thread : u # t => thr'[u] = thr[u]
BY DEF Leave, Idle, TypeOK, ThreadState, Pc, Kind

(* What the heap is after an SDK object was created.                       *)
LEMMA AllocateFacts ==
  ASSUME TypeOK, NEW h \in Handle, NEW k \in Kind \cup {"context"},
         NEW c \in Handle \cup {None}, NEW o \in Object \cup {None},
         Allocate(h, k, c, o)
  PROVE  /\ heap[h].state = "unused"
         /\ heap' \in [Handle -> HeapCell]
         /\ heap'[h] = [state |-> "live", kind |-> k, ctx |-> c, owner |-> o]
         /\ \A g \in Handle : g # h => heap'[g] = heap[g]
BY DEF Allocate, TypeOK, HeapCell

(* What the heap is after delete on a live pointer.                        *)
LEMMA DeleteFacts ==
  ASSUME TypeOK, NEW h \in Handle, h # None, Live(h), Delete(h)
  PROVE  /\ heap' \in [Handle -> HeapCell]
         /\ heap'[h].state = "deleted"
         /\ heap'[h].kind = heap[h].kind
         /\ heap'[h].ctx = heap[h].ctx
         /\ heap'[h].owner = heap[h].owner
         /\ \A g \in Handle : g # h => heap'[g] = heap[g]
BY DEF Delete, TypeOK, HeapCell, Live

(* HomeInv survives a step that leaves the pointers and every storing      *)
(* thread alone.                                                           *)
LEMMA HomeFrame ==
  ASSUME HomeInv, UNCHANGED <<ctx, api, heap>>,
         \A u \in Thread : thr[u].pc = "init_store" => thr'[u] = thr[u]
  PROVE  HomeInv'
<1>1. ASSUME NEW h \in Handle, NEW u \in Thread, Storing(u, h)
      PROVE  Storing(u, h)'
  BY <1>1 DEF Storing
<1> QED BY <1>1 DEF HomeInv, Home, Live

(* So do the other parts that are about pointers only.                     *)
LEMMA HeapFrame ==
  ASSUME IndInv, UNCHANGED <<life, ctx, api, heap>>,
         \A u \in Thread : thr[u].pc = "init_store" => thr'[u] = thr[u]
  PROVE  /\ ContextField' /\ ApiField' /\ HomeInv'
         /\ OneApiPerContext' /\ NoDoubleFree'
<1>1. ContextField' /\ ApiField' /\ OneApiPerContext' /\ NoDoubleFree'
  BY DEF IndInv, ContextField, ApiField, ApiAt, OneApiPerContext, NoDoubleFree, Live, Usable
<1>2. HomeInv'
  BY HomeFrame DEF IndInv
<1> QED BY <1>1, <1>2

(* A thread about to store an API holds a live one made for its object.    *)
LEMMA InHand ==
  ASSUME InitInv, NEW t \in Thread,
         thr[t].pc = "init_store", thr[t].handle # None
  PROVE  /\ heap[thr[t].handle].state = "live"
         /\ heap[thr[t].handle].kind = thr[t].kind
         /\ heap[thr[t].handle].owner = thr[t].obj
<1>1. heap[thr[t].handle] = [state |-> "live", kind |-> thr[t].kind,
                             ctx |-> ctx[thr[t].obj], owner |-> thr[t].obj]
  BY DEF InitInv
<1> QED BY <1>1

(* A step of a thread outside the destructor does not disturb FreeInv.     *)
LEMMA FreeFrame ==
  ASSUME FreeInv, UNCHANGED <<api, heap>>,
         NEW t \in Thread, thr'[t].pc \notin FreePc,
         \A u \in Thread : u # t => thr'[u] = thr[u]
  PROVE  FreeInv'
<1>1. SUFFICES ASSUME NEW u \in Thread, NEW k \in Kind, thr'[u].pc \in FreePc
               PROVE  LET h == api'[thr'[u].obj][k] IN
                      /\ thr'[u].pc = "free_api" /\ h # None =>
                           (heap'[h].state = "live" <=> k \in Pending(thr'[u].kind))
                      /\ thr'[u].pc = "free_ctx" /\ h # None => ~ heap'[h].state = "live"
  BY DEF FreeInv, Live, FreePc, Pending
<1>2. thr'[u] = thr[u]
  BY <1>1
<1> QED BY <1>1, <1>2 DEF FreeInv, Live

(* The constructor begins: nobody else is in the object.                   *)
LEMMA ConstructEnterStep ==
  ASSUME IndInv, NEW t \in Thread, NEW o \in Object, ConstructEnter(t, o)
  PROVE  IndInv'
<1> USE NoneAssumption
<1>1. TypeOK /\ thr[t] \in ThreadState
  BY DEF IndInv, TypeOK
<1>2. /\ thr' \in [Thread -> ThreadState]
      /\ \A u \in Thread : u # t => thr'[u] = thr[u]
      /\ thr'[t].pc = "construct"
      /\ thr'[t].obj = o /\ thr'[t].kind = "provider" /\ thr'[t].handle = None
  BY <1>1, MoveFacts DEF ConstructEnter, Enter, IndInv, ThreadsInv, TypeOK, ThreadState, Pc, InitPc, CallPc, Kind
<1>3. /\ ContextField' /\ ApiField' /\ HomeInv'
      /\ OneApiPerContext' /\ NoDoubleFree'
  BY <1>2, HeapFrame DEF ConstructEnter, Enter
<1>4. TypeOK'
  BY <1>1, <1>2 DEF IndInv, ConstructEnter, Enter, TypeOK, Pc, ThreadState, HeapCell, InUse
<1>5. ThreadsInv'
  BY <1>1, <1>2 DEF IndInv, ConstructEnter, Enter, TypeOK, ThreadsInv, InUse
<1>6. LockInv'
  BY <1>1, <1>2 DEF IndInv, ConstructEnter, Enter, TypeOK, ThreadState, ThreadsInv, LockInv, InitPc, CallPc, FreePc, CriticalPc, InUse
<1>7. AloneInv'
  BY <1>1, <1>2 DEF IndInv, ConstructEnter, Enter, TypeOK, ThreadsInv, AloneInv, LifeInv, Usable, InitPc, CallPc, FreePc, CriticalPc, InUse
<1>8. LifeInv'
  BY <1>1, <1>2 DEF IndInv, ConstructEnter, Enter, TypeOK, ThreadsInv, AloneInv, LifeInv, Usable, InitPc, CallPc, FreePc, CriticalPc, InUse
<1>9. FreeInv'
  BY <1>2, FreeFrame DEF IndInv, FreePc, ConstructEnter, Enter
<1>10. InitInv'
  BY <1>1, <1>2 DEF IndInv, ConstructEnter, Enter, TypeOK, ThreadsInv, AloneInv, LifeInv, LockInv, InitInv, InitPc, CallPc, FreePc, CriticalPc, InUse
<1>11. CallInv'
  BY <1>1, <1>2 DEF IndInv, ConstructEnter, Enter, TypeOK, ThreadsInv, AloneInv, LifeInv, CallInv, InitInv, InitPc, CallPc, FreePc, CriticalPc, InUse
<1> QED BY <1>3, <1>4, <1>5, <1>6, <1>7, <1>8, <1>9, <1>10, <1>11 DEF IndInv

(* An InitX is called.                                                     *)
LEMMA InitEnterStep ==
  ASSUME IndInv, NEW t \in Thread, NEW o \in Object, NEW k \in Kind, InitEnter(t, o, k)
  PROVE  IndInv'
<1> USE NoneAssumption
<1>1. TypeOK /\ thr[t] \in ThreadState
  BY DEF IndInv, TypeOK
<1>2. /\ thr' \in [Thread -> ThreadState]
      /\ \A u \in Thread : u # t => thr'[u] = thr[u]
      /\ thr'[t].pc = "init_lock"
      /\ thr'[t].obj = o /\ thr'[t].kind = k /\ thr'[t].handle = None
  BY <1>1, MoveFacts DEF InitEnter, Enter, IndInv, ThreadsInv, TypeOK, ThreadState, Pc, InitPc, CallPc, Kind
<1>3. /\ ContextField' /\ ApiField' /\ HomeInv'
      /\ OneApiPerContext' /\ NoDoubleFree'
  BY <1>2, HeapFrame DEF InitEnter, Enter
<1>4. TypeOK'
  BY <1>1, <1>2 DEF IndInv, InitEnter, Enter, TypeOK, Pc, ThreadState, HeapCell, Constructing
<1>5. ThreadsInv'
  BY <1>1, <1>2 DEF IndInv, InitEnter, Enter, TypeOK, ThreadsInv, Constructing
<1>6. LockInv'
  BY <1>1, <1>2 DEF IndInv, InitEnter, Enter, TypeOK, ThreadState, ThreadsInv, LockInv, InitPc, CallPc, FreePc, CriticalPc, Constructing
<1>7. AloneInv'
  BY <1>1, <1>2 DEF IndInv, InitEnter, Enter, TypeOK, ThreadsInv, AloneInv, LifeInv, Usable, InitPc, CallPc, FreePc, CriticalPc, Constructing
<1>8. LifeInv'
  BY <1>1, <1>2 DEF IndInv, InitEnter, Enter, TypeOK, ThreadsInv, AloneInv, LifeInv, Usable, InitPc, CallPc, FreePc, CriticalPc, Constructing
<1>9. FreeInv'
  BY <1>2, FreeFrame DEF IndInv, FreePc, InitEnter, Enter
<1>10. InitInv'
  BY <1>1, <1>2 DEF IndInv, InitEnter, Enter, TypeOK, ThreadsInv, AloneInv, LifeInv, LockInv, InitInv, InitPc, CallPc, FreePc, CriticalPc, Constructing
<1>11. CallInv'
  BY <1>1, <1>2 DEF IndInv, InitEnter, Enter, TypeOK, ThreadsInv, AloneInv, LifeInv, CallInv, InitInv, InitPc, CallPc, FreePc, CriticalPc, Constructing
<1> QED BY <1>3, <1>4, <1>5, <1>6, <1>7, <1>8, <1>9, <1>10, <1>11 DEF IndInv

(* An InitX takes the mutex, which was free.                               *)
LEMMA InitLockStep ==
  ASSUME IndInv, NEW t \in Thread, InitLock(t)
  PROVE  IndInv'
<1> USE NoneAssumption
<1>1. TypeOK /\ thr[t] \in ThreadState
  BY DEF IndInv, TypeOK
<1>2. /\ thr' \in [Thread -> ThreadState]
      /\ \A u \in Thread : u # t => thr'[u] = thr[u]
      /\ thr'[t].pc = "init_check"
      /\ thr'[t].obj = thr[t].obj /\ thr'[t].kind = thr[t].kind /\ thr'[t].handle = thr[t].handle
  BY <1>1, MoveFacts DEF InitLock, Goto, IndInv, ThreadsInv, TypeOK, ThreadState, Pc, InitPc, CallPc, Kind
<1>3. /\ ContextField' /\ ApiField' /\ HomeInv'
      /\ OneApiPerContext' /\ NoDoubleFree'
  BY <1>2, HeapFrame DEF InitLock, Goto
<1>4. TypeOK'
  BY <1>1, <1>2 DEF IndInv, InitLock, Goto, TypeOK, Pc, ThreadState, HeapCell
<1>5. ThreadsInv'
  BY <1>1, <1>2 DEF IndInv, InitLock, Goto, TypeOK, ThreadsInv
<1>6. LockInv'
  <2>1. thr[t].obj \in Object
    BY <1>1 DEF IndInv, InitLock, Goto, ThreadsInv, ThreadState
  <2>2. mtx' = [mtx EXCEPT ![thr[t].obj] = t] /\ mtx[thr[t].obj] = None
    BY DEF InitLock
  <2>3. ASSUME NEW u \in Thread, u # t, thr[u].pc \in CriticalPc
        PROVE  mtx'[thr[u].obj] = u
    BY <2>1, <2>2, <2>3, <1>1 DEF IndInv, LockInv, TypeOK
  <2> QED BY <1>1, <1>2, <2>1, <2>2, <2>3 DEF LockInv, TypeOK
<1>7. AloneInv'
  BY <1>1, <1>2 DEF IndInv, InitLock, Goto, TypeOK, ThreadsInv, AloneInv, LifeInv, Usable, InitPc, CallPc, FreePc, CriticalPc
<1>8. LifeInv'
  BY <1>1, <1>2 DEF IndInv, InitLock, Goto, TypeOK, ThreadsInv, AloneInv, LifeInv, Usable, InitPc, CallPc, FreePc, CriticalPc
<1>9. FreeInv'
  BY <1>2, FreeFrame DEF IndInv, FreePc, InitLock, Goto
<1>10. InitInv'
  BY <1>1, <1>2 DEF IndInv, InitLock, Goto, TypeOK, ThreadsInv, AloneInv, LifeInv, LockInv, InitInv, InitPc, CallPc, FreePc, CriticalPc
<1>11. CallInv'
  BY <1>1, <1>2 DEF IndInv, InitLock, Goto, TypeOK, ThreadsInv, AloneInv, LifeInv, CallInv, InitInv, InitPc, CallPc, FreePc, CriticalPc
<1> QED BY <1>3, <1>4, <1>5, <1>6, <1>7, <1>8, <1>9, <1>10, <1>11 DEF IndInv

(* An InitX tests its field under the mutex.                               *)
LEMMA InitCheckStep ==
  ASSUME IndInv, NEW t \in Thread, InitCheck(t)
  PROVE  IndInv'
<1> USE NoneAssumption
<1>1. TypeOK /\ thr[t] \in ThreadState
  BY DEF IndInv, TypeOK
<1>2. /\ thr' \in [Thread -> ThreadState]
      /\ \A u \in Thread : u # t => thr'[u] = thr[u]
      /\ thr'[t].pc = IF api[thr[t].obj][thr[t].kind] = None
                   THEN "init_create" ELSE "init_unlock"
      /\ thr'[t].obj = thr[t].obj /\ thr'[t].kind = thr[t].kind /\ thr'[t].handle = thr[t].handle
  BY <1>1, MoveFacts DEF InitCheck, Goto, IndInv, ThreadsInv, TypeOK, ThreadState, Pc, InitPc, CallPc, Kind
<1>3. /\ ContextField' /\ ApiField' /\ HomeInv'
      /\ OneApiPerContext' /\ NoDoubleFree'
  BY <1>2, HeapFrame DEF InitCheck, Goto
<1>4. TypeOK'
  BY <1>1, <1>2 DEF IndInv, InitCheck, Goto, TypeOK, Pc, ThreadState, HeapCell
<1>5. ThreadsInv'
  BY <1>1, <1>2 DEF IndInv, InitCheck, Goto, TypeOK, ThreadsInv
<1>6. LockInv'
  BY <1>1, <1>2 DEF IndInv, InitCheck, Goto, TypeOK, ThreadState, ThreadsInv, LockInv, InitPc, CallPc, FreePc, CriticalPc
<1>7. AloneInv'
  BY <1>1, <1>2 DEF IndInv, InitCheck, Goto, TypeOK, ThreadsInv, AloneInv, LifeInv, Usable, InitPc, CallPc, FreePc, CriticalPc
<1>8. LifeInv'
  BY <1>1, <1>2 DEF IndInv, InitCheck, Goto, TypeOK, ThreadsInv, AloneInv, LifeInv, Usable, InitPc, CallPc, FreePc, CriticalPc
<1>9. FreeInv'
  BY <1>2, FreeFrame DEF IndInv, FreePc, InitCheck, Goto
<1>10. InitInv'
  BY <1>1, <1>2 DEF IndInv, InitCheck, Goto, TypeOK, ThreadsInv, AloneInv, LifeInv, LockInv, InitInv, InitPc, CallPc, FreePc, CriticalPc
<1>11. CallInv'
  BY <1>1, <1>2 DEF IndInv, InitCheck, Goto, TypeOK, ThreadsInv, AloneInv, LifeInv, CallInv, InitInv, InitPc, CallPc, FreePc, CriticalPc
<1> QED BY <1>3, <1>4, <1>5, <1>6, <1>7, <1>8, <1>9, <1>10, <1>11 DEF IndInv

(* XxxApi::Create returns NULL.                                            *)
LEMMA InitCreateFailsStep ==
  ASSUME IndInv, NEW t \in Thread, InitCreateFails(t)
  PROVE  IndInv'
<1> USE NoneAssumption
<1>1. TypeOK /\ thr[t] \in ThreadState
  BY DEF IndInv, TypeOK
<1>2. /\ thr' \in [Thread -> ThreadState]
      /\ \A u \in Thread : u # t => thr'[u] = thr[u]
      /\ thr'[t].pc = "init_store"
      /\ thr'[t].obj = thr[t].obj /\ thr'[t].kind = thr[t].kind /\ thr'[t].handle = None
  BY <1>1, MoveFacts DEF InitCreateFails, IndInv, ThreadsInv, TypeOK, ThreadState, Pc, InitPc, CallPc, Kind
<1>3. /\ ContextField' /\ ApiField' /\ HomeInv'
      /\ OneApiPerContext' /\ NoDoubleFree'
  BY <1>2, HeapFrame DEF InitCreateFails
<1>4. TypeOK'
  BY <1>1, <1>2 DEF IndInv, InitCreateFails, TypeOK, Pc, ThreadState, HeapCell
<1>5. ThreadsInv'
  BY <1>1, <1>2 DEF IndInv, InitCreateFails, TypeOK, ThreadsInv
<1>6. LockInv'
  BY <1>1, <1>2 DEF IndInv, InitCreateFails, TypeOK, ThreadState, ThreadsInv, LockInv, InitPc, CallPc, FreePc, CriticalPc
<1>7. AloneInv'
  BY <1>1, <1>2 DEF IndInv, InitCreateFails, TypeOK, ThreadsInv, AloneInv, LifeInv, Usable, InitPc, CallPc, FreePc, CriticalPc
<1>8. LifeInv'
  BY <1>1, <1>2 DEF IndInv, InitCreateFails, TypeOK, ThreadsInv, AloneInv, LifeInv, Usable, InitPc, CallPc, FreePc, CriticalPc
<1>9. FreeInv'
  BY <1>2, FreeFrame DEF IndInv, FreePc, InitCreateFails
<1>10. InitInv'
  BY <1>1, <1>2 DEF IndInv, InitCreateFails, TypeOK, ThreadsInv, AloneInv, LifeInv, LockInv, InitInv, InitPc, CallPc, FreePc, CriticalPc
<1>11. CallInv'
  BY <1>1, <1>2 DEF IndInv, InitCreateFails, TypeOK, ThreadsInv, AloneInv, LifeInv, CallInv, InitInv, InitPc, CallPc, FreePc, CriticalPc
<1> QED BY <1>3, <1>4, <1>5, <1>6, <1>7, <1>8, <1>9, <1>10, <1>11 DEF IndInv

(* An InitX releases the mutex and returns.                                *)
LEMMA InitUnlockStep ==
  ASSUME IndInv, NEW t \in Thread, InitUnlock(t)
  PROVE  IndInv'
<1> USE NoneAssumption
<1>1. TypeOK /\ thr[t] \in ThreadState
  BY DEF IndInv, TypeOK
<1>2. /\ thr' \in [Thread -> ThreadState]
      /\ \A u \in Thread : u # t => thr'[u] = thr[u]
      /\ thr'[t].pc = "idle" /\ thr'[t].obj = None
  BY <1>1, LeaveFacts DEF InitUnlock
<1>3. /\ ContextField' /\ ApiField' /\ HomeInv'
      /\ OneApiPerContext' /\ NoDoubleFree'
  BY <1>2, HeapFrame DEF InitUnlock
<1>4. TypeOK'
  BY <1>1, <1>2 DEF IndInv, InitUnlock, TypeOK, Pc, ThreadState, HeapCell
<1>5. ThreadsInv'
  BY <1>1, <1>2 DEF IndInv, InitUnlock, TypeOK, ThreadsInv
<1>6. LockInv'
  BY <1>1, <1>2 DEF IndInv, InitUnlock, TypeOK, ThreadState, ThreadsInv, LockInv, InitPc, CallPc, FreePc, CriticalPc
<1>7. AloneInv'
  BY <1>1, <1>2 DEF IndInv, InitUnlock, TypeOK, ThreadsInv, AloneInv, LifeInv, Usable, InitPc, CallPc, FreePc, CriticalPc
<1>8. LifeInv'
  BY <1>1, <1>2 DEF IndInv, InitUnlock, TypeOK, ThreadsInv, AloneInv, LifeInv, Usable, InitPc, CallPc, FreePc, CriticalPc
<1>9. FreeInv'
  BY <1>2, FreeFrame DEF IndInv, FreePc, InitUnlock
<1>10. InitInv'
  BY <1>1, <1>2 DEF IndInv, InitUnlock, TypeOK, ThreadsInv, AloneInv, LifeInv, LockInv, InitInv, InitPc, CallPc, FreePc, CriticalPc
<1>11. CallInv'
  BY <1>1, <1>2 DEF IndInv, InitUnlock, TypeOK, ThreadsInv, AloneInv, LifeInv, CallInv, InitInv, InitPc, CallPc, FreePc, CriticalPc
<1> QED BY <1>3, <1>4, <1>5, <1>6, <1>7, <1>8, <1>9, <1>10, <1>11 DEF IndInv

(* An API method is called.                                                *)
LEMMA CallEnterStep ==
  ASSUME IndInv, NEW t \in Thread, NEW o \in Object, NEW k \in Kind, CallEnter(t, o, k)
  PROVE  IndInv'
<1> USE NoneAssumption
<1>1. TypeOK /\ thr[t] \in ThreadState
  BY DEF IndInv, TypeOK
<1>2. /\ thr' \in [Thread -> ThreadState]
      /\ \A u \in Thread : u # t => thr'[u] = thr[u]
      /\ thr'[t].pc = "call_read"
      /\ thr'[t].obj = o /\ thr'[t].kind = k /\ thr'[t].handle = None
  BY <1>1, MoveFacts DEF CallEnter, Enter, IndInv, ThreadsInv, TypeOK, ThreadState, Pc, InitPc, CallPc, Kind
<1>3. /\ ContextField' /\ ApiField' /\ HomeInv'
      /\ OneApiPerContext' /\ NoDoubleFree'
  BY <1>2, HeapFrame DEF CallEnter, Enter
<1>4. TypeOK'
  BY <1>1, <1>2 DEF IndInv, CallEnter, Enter, TypeOK, Pc, ThreadState, HeapCell, Constructing
<1>5. ThreadsInv'
  BY <1>1, <1>2 DEF IndInv, CallEnter, Enter, TypeOK, ThreadsInv, Constructing
<1>6. LockInv'
  BY <1>1, <1>2 DEF IndInv, CallEnter, Enter, TypeOK, ThreadState, ThreadsInv, LockInv, InitPc, CallPc, FreePc, CriticalPc, Constructing
<1>7. AloneInv'
  BY <1>1, <1>2 DEF IndInv, CallEnter, Enter, TypeOK, ThreadsInv, AloneInv, LifeInv, Usable, InitPc, CallPc, FreePc, CriticalPc, Constructing
<1>8. LifeInv'
  BY <1>1, <1>2 DEF IndInv, CallEnter, Enter, TypeOK, ThreadsInv, AloneInv, LifeInv, Usable, InitPc, CallPc, FreePc, CriticalPc, Constructing
<1>9. FreeInv'
  BY <1>2, FreeFrame DEF IndInv, FreePc, CallEnter, Enter
<1>10. InitInv'
  BY <1>1, <1>2 DEF IndInv, CallEnter, Enter, TypeOK, ThreadsInv, AloneInv, LifeInv, LockInv, InitInv, InitPc, CallPc, FreePc, CriticalPc, Constructing
<1>11. CallInv'
  BY <1>1, <1>2 DEF IndInv, CallEnter, Enter, TypeOK, ThreadsInv, AloneInv, LifeInv, CallInv, InitInv, InitPc, CallPc, FreePc, CriticalPc, Constructing
<1> QED BY <1>3, <1>4, <1>5, <1>6, <1>7, <1>8, <1>9, <1>10, <1>11 DEF IndInv

(* An API method reads the field without the mutex.                        *)
LEMMA CallReadStep ==
  ASSUME IndInv, NEW t \in Thread, CallRead(t)
  PROVE  IndInv'
<1> USE NoneAssumption
<1>1. TypeOK /\ thr[t] \in ThreadState
  BY DEF IndInv, TypeOK
<1>2. /\ thr' \in [Thread -> ThreadState]
      /\ \A u \in Thread : u # t => thr'[u] = thr[u]
      /\ thr'[t].pc = IF thr'[t].handle = None THEN "call_null" ELSE "call_sdk"
      /\ thr'[t].obj = thr[t].obj /\ thr'[t].kind = thr[t].kind /\ thr'[t].handle = api[thr[t].obj][thr[t].kind]
  BY <1>1, MoveFacts DEF CallRead, IndInv, ThreadsInv, TypeOK, ThreadState, Pc, InitPc, CallPc, Kind
<1>3. /\ ContextField' /\ ApiField' /\ HomeInv'
      /\ OneApiPerContext' /\ NoDoubleFree'
  BY <1>2, HeapFrame DEF CallRead
<1>4. TypeOK'
  BY <1>1, <1>2 DEF IndInv, CallRead, TypeOK, Pc, ThreadState, HeapCell
<1>5. ThreadsInv'
  BY <1>1, <1>2 DEF IndInv, CallRead, TypeOK, ThreadsInv
<1>6. LockInv'
  BY <1>1, <1>2 DEF IndInv, CallRead, TypeOK, ThreadState, ThreadsInv, LockInv, InitPc, CallPc, FreePc, CriticalPc
<1>7. AloneInv'
  BY <1>1, <1>2 DEF IndInv, CallRead, TypeOK, ThreadsInv, AloneInv, LifeInv, Usable, InitPc, CallPc, FreePc, CriticalPc
<1>8. LifeInv'
  BY <1>1, <1>2 DEF IndInv, CallRead, TypeOK, ThreadsInv, AloneInv, LifeInv, Usable, InitPc, CallPc, FreePc, CriticalPc
<1>9. FreeInv'
  BY <1>2, FreeFrame DEF IndInv, FreePc, CallRead
<1>10. InitInv'
  BY <1>1, <1>2 DEF IndInv, CallRead, TypeOK, ThreadsInv, AloneInv, LifeInv, LockInv, InitInv, InitPc, CallPc, FreePc, CriticalPc
<1>11. CallInv'
  BY <1>1, <1>2 DEF IndInv, CallRead, TypeOK, ThreadsInv, AloneInv, LifeInv, CallInv, InitInv, InitPc, CallPc, FreePc, CriticalPc
<1> QED BY <1>3, <1>4, <1>5, <1>6, <1>7, <1>8, <1>9, <1>10, <1>11 DEF IndInv

(* The SDK returns.                                                        *)
LEMMA CallSdkStep ==
  ASSUME IndInv, NEW t \in Thread, CallSdk(t)
  PROVE  IndInv'
<1> USE NoneAssumption
<1>1. TypeOK /\ thr[t] \in ThreadState
  BY DEF IndInv, TypeOK
<1>2. /\ thr' \in [Thread -> ThreadState]
      /\ \A u \in Thread : u # t => thr'[u] = thr[u]
      /\ thr'[t].pc = "idle" /\ thr'[t].obj = None
  BY <1>1, LeaveFacts DEF CallSdk
<1>3. /\ ContextField' /\ ApiField' /\ HomeInv'
      /\ OneApiPerContext' /\ NoDoubleFree'
  BY <1>2, HeapFrame DEF CallSdk
<1>4. TypeOK'
  BY <1>1, <1>2 DEF IndInv, CallSdk, TypeOK, Pc, ThreadState, HeapCell
<1>5. ThreadsInv'
  BY <1>1, <1>2 DEF IndInv, CallSdk, TypeOK, ThreadsInv
<1>6. LockInv'
  BY <1>1, <1>2 DEF IndInv, CallSdk, TypeOK, ThreadState, ThreadsInv, LockInv, InitPc, CallPc, FreePc, CriticalPc
<1>7. AloneInv'
  BY <1>1, <1>2 DEF IndInv, CallSdk, TypeOK, ThreadsInv, AloneInv, LifeInv, Usable, InitPc, CallPc, FreePc, CriticalPc
<1>8. LifeInv'
  BY <1>1, <1>2 DEF IndInv, CallSdk, TypeOK, ThreadsInv, AloneInv, LifeInv, Usable, InitPc, CallPc, FreePc, CriticalPc
<1>9. FreeInv'
  BY <1>2, FreeFrame DEF IndInv, FreePc, CallSdk
<1>10. InitInv'
  BY <1>1, <1>2 DEF IndInv, CallSdk, TypeOK, ThreadsInv, AloneInv, LifeInv, LockInv, InitInv, InitPc, CallPc, FreePc, CriticalPc
<1>11. CallInv'
  BY <1>1, <1>2 DEF IndInv, CallSdk, TypeOK, ThreadsInv, AloneInv, LifeInv, CallInv, InitInv, InitPc, CallPc, FreePc, CriticalPc
<1> QED BY <1>3, <1>4, <1>5, <1>6, <1>7, <1>8, <1>9, <1>10, <1>11 DEF IndInv

(* The null pointer is reported.                                           *)
LEMMA CallNullStep ==
  ASSUME IndInv, NEW t \in Thread, CallNull(t)
  PROVE  IndInv'
<1> USE NoneAssumption
<1>1. TypeOK /\ thr[t] \in ThreadState
  BY DEF IndInv, TypeOK
<1>2. /\ thr' \in [Thread -> ThreadState]
      /\ \A u \in Thread : u # t => thr'[u] = thr[u]
      /\ thr'[t].pc = "idle" /\ thr'[t].obj = None
  BY <1>1, LeaveFacts DEF CallNull
<1>3. /\ ContextField' /\ ApiField' /\ HomeInv'
      /\ OneApiPerContext' /\ NoDoubleFree'
  BY <1>2, HeapFrame DEF CallNull
<1>4. TypeOK'
  BY <1>1, <1>2 DEF IndInv, CallNull, TypeOK, Pc, ThreadState, HeapCell
<1>5. ThreadsInv'
  BY <1>1, <1>2 DEF IndInv, CallNull, TypeOK, ThreadsInv
<1>6. LockInv'
  BY <1>1, <1>2 DEF IndInv, CallNull, TypeOK, ThreadState, ThreadsInv, LockInv, InitPc, CallPc, FreePc, CriticalPc
<1>7. AloneInv'
  BY <1>1, <1>2 DEF IndInv, CallNull, TypeOK, ThreadsInv, AloneInv, LifeInv, Usable, InitPc, CallPc, FreePc, CriticalPc
<1>8. LifeInv'
  BY <1>1, <1>2 DEF IndInv, CallNull, TypeOK, ThreadsInv, AloneInv, LifeInv, Usable, InitPc, CallPc, FreePc, CriticalPc
<1>9. FreeInv'
  BY <1>2, FreeFrame DEF IndInv, FreePc, CallNull
<1>10. InitInv'
  BY <1>1, <1>2 DEF IndInv, CallNull, TypeOK, ThreadsInv, AloneInv, LifeInv, LockInv, InitInv, InitPc, CallPc, FreePc, CriticalPc
<1>11. CallInv'
  BY <1>1, <1>2 DEF IndInv, CallNull, TypeOK, ThreadsInv, AloneInv, LifeInv, CallInv, InitInv, InitPc, CallPc, FreePc, CriticalPc
<1> QED BY <1>3, <1>4, <1>5, <1>6, <1>7, <1>8, <1>9, <1>10, <1>11 DEF IndInv

(* The engine allocates the object.                                        *)
LEMMA CreateHandlerStep ==
  ASSUME IndInv, NEW t \in Thread, NEW o \in Object, CreateHandler(t, o)
  PROVE  IndInv'
<1> USE NoneAssumption
<1>1. TypeOK
  BY DEF IndInv
<1>2. TypeOK'
  BY <1>1 DEF IndInv, CreateHandler, TypeOK, Pc, ThreadState, HeapCell
<1>3. ThreadsInv'
  BY <1>1 DEF IndInv, CreateHandler, TypeOK, ThreadsInv
<1>4. LockInv'
  BY <1>1 DEF IndInv, CreateHandler, TypeOK, ThreadState, ThreadsInv, LockInv, InitPc, CallPc, FreePc, CriticalPc
<1>5. AloneInv'
  BY <1>1 DEF IndInv, CreateHandler, TypeOK, ThreadsInv, AloneInv, LifeInv, Usable, InitPc, CallPc, FreePc, CriticalPc
<1>6. LifeInv'
  BY <1>1 DEF IndInv, CreateHandler, TypeOK, ThreadsInv, AloneInv, LifeInv, Usable, InitPc, CallPc, FreePc, CriticalPc
<1>7. ContextField'
  BY <1>1 DEF IndInv, CreateHandler, TypeOK, ThreadsInv, AloneInv, LifeInv, ContextField, Usable, Live, HeapCell, ThreadState, InitPc, CallPc, FreePc, CriticalPc
<1>8. ApiField'
  BY <1>1 DEF IndInv, CreateHandler, TypeOK, ThreadsInv, AloneInv, LifeInv, ContextField, InitInv, ApiField, ApiAt, Usable, Live, HeapCell, ThreadState, InitPc, CallPc, FreePc, CriticalPc
<1>9. FreeInv'
  BY DEF IndInv, CreateHandler, FreeInv, Live
<1>10. InitInv'
  BY <1>1 DEF IndInv, CreateHandler, TypeOK, ThreadsInv, AloneInv, LifeInv, LockInv, InitInv, InitPc, CallPc, FreePc, CriticalPc
<1>11. CallInv'
  BY <1>1 DEF IndInv, CreateHandler, TypeOK, ThreadsInv, AloneInv, LifeInv, CallInv, InitInv, InitPc, CallPc, FreePc, CriticalPc
<1>12. HomeInv'
  BY HomeFrame DEF IndInv, CreateHandler
<1>13. OneApiPerContext'
  BY <1>1 DEF IndInv, CreateHandler, TypeOK, ThreadsInv, AloneInv, LifeInv, LockInv, ContextField, ApiField, InitInv, FreeInv, HomeInv, OneApiPerContext, Storing, Usable, Live, HeapCell, ThreadState, Kind, InitPc, CallPc, FreePc, CriticalPc
<1>14. NoDoubleFree'
  BY <1>1 DEF IndInv, CreateHandler, TypeOK, ThreadsInv, AloneInv, LifeInv, ContextField, ApiField, ApiAt, FreeInv, Pending, NoDoubleFree, Live, HeapCell, ThreadState, Kind, InitPc, CallPc, FreePc, CriticalPc
<1> QED BY <1>2, <1>3, <1>4, <1>5, <1>6, <1>7, <1>8, <1>9, <1>10, <1>11, <1>12, <1>13, <1>14 DEF IndInv

(* The constructor exits for want of a configuration.                      *)
LEMMA ConstructNoConfigStep ==
  ASSUME IndInv, NEW t \in Thread, ConstructNoConfig(t)
  PROVE  IndInv'
<1> USE NoneAssumption
<1>1. TypeOK
  BY DEF IndInv
<1>2. TypeOK'
  BY <1>1 DEF IndInv, ConstructNoConfig, Exit, TypeOK, Pc, ThreadState, HeapCell
<1>3. ThreadsInv'
  BY <1>1 DEF IndInv, ConstructNoConfig, Exit, TypeOK, ThreadsInv
<1>4. LockInv'
  BY <1>1 DEF IndInv, ConstructNoConfig, Exit, TypeOK, ThreadState, ThreadsInv, LockInv, InitPc, CallPc, FreePc, CriticalPc
<1>5. AloneInv'
  BY <1>1 DEF IndInv, ConstructNoConfig, Exit, TypeOK, ThreadsInv, AloneInv, LifeInv, Usable, InitPc, CallPc, FreePc, CriticalPc
<1>6. LifeInv'
  BY <1>1 DEF IndInv, ConstructNoConfig, Exit, TypeOK, ThreadsInv, AloneInv, LifeInv, Usable, InitPc, CallPc, FreePc, CriticalPc
<1>7. ContextField'
  BY <1>1 DEF IndInv, ConstructNoConfig, Exit, TypeOK, ThreadsInv, AloneInv, LifeInv, ContextField, Usable, Live, HeapCell, ThreadState, InitPc, CallPc, FreePc, CriticalPc
<1>8. ApiField'
  BY <1>1 DEF IndInv, ConstructNoConfig, Exit, TypeOK, ThreadsInv, AloneInv, LifeInv, ContextField, InitInv, ApiField, ApiAt, Usable, Live, HeapCell, ThreadState, InitPc, CallPc, FreePc, CriticalPc
<1>9. FreeInv'
  BY DEF IndInv, ConstructNoConfig, Exit, FreeInv, Live
<1>10. InitInv'
  BY <1>1 DEF IndInv, ConstructNoConfig, Exit, TypeOK, ThreadsInv, AloneInv, LifeInv, LockInv, InitInv, InitPc, CallPc, FreePc, CriticalPc
<1>11. CallInv'
  BY <1>1 DEF IndInv, ConstructNoConfig, Exit, TypeOK, ThreadsInv, AloneInv, LifeInv, CallInv, InitInv, InitPc, CallPc, FreePc, CriticalPc
<1>12. HomeInv'
  BY HomeFrame DEF IndInv, ConstructNoConfig, Exit
<1>13. OneApiPerContext'
  BY <1>1 DEF IndInv, ConstructNoConfig, Exit, TypeOK, ThreadsInv, AloneInv, LifeInv, LockInv, ContextField, ApiField, InitInv, FreeInv, HomeInv, OneApiPerContext, Storing, Usable, Live, HeapCell, ThreadState, Kind, InitPc, CallPc, FreePc, CriticalPc
<1>14. NoDoubleFree'
  BY <1>1 DEF IndInv, ConstructNoConfig, Exit, TypeOK, ThreadsInv, AloneInv, LifeInv, ContextField, ApiField, ApiAt, FreeInv, Pending, NoDoubleFree, Live, HeapCell, ThreadState, Kind, InitPc, CallPc, FreePc, CriticalPc
<1> QED BY <1>2, <1>3, <1>4, <1>5, <1>6, <1>7, <1>8, <1>9, <1>10, <1>11, <1>12, <1>13, <1>14 DEF IndInv

(* The constructor clears the fields and exits.                            *)
LEMMA ConstructNoContextStep ==
  ASSUME IndInv, NEW t \in Thread, ConstructNoContext(t)
  PROVE  IndInv'
<1> USE NoneAssumption
<1> DEFINE o == thr[t].obj
<1>1. TypeOK /\ o \in Object
  BY DEF IndInv, TypeOK, ThreadState, ThreadsInv, ConstructNoContext
<1>2. \A u \in Thread : thr[u].obj = o => u = t
  BY DEF IndInv, AloneInv, ConstructNoContext
<1>3. /\ ctx'[o] = None /\ \A k \in Kind : api'[o][k] = None
      /\ \A p \in Object : p # o => ctx'[p] = ctx[p] /\ api'[p] = api[p]
  BY <1>1 DEF ConstructNoContext, TypeOK
<1>4. TypeOK'
  BY <1>1, <1>2, <1>3 DEF IndInv, ConstructNoContext, TypeOK, Pc, ThreadState, HeapCell
<1>5. ThreadsInv'
  BY <1>1, <1>2, <1>3 DEF IndInv, ConstructNoContext, TypeOK, ThreadsInv
<1>6. LockInv'
  BY <1>1, <1>2, <1>3 DEF IndInv, ConstructNoContext, TypeOK, ThreadState, ThreadsInv, LockInv, InitPc, CallPc, FreePc, CriticalPc
<1>7. AloneInv'
  BY <1>1, <1>2, <1>3 DEF IndInv, ConstructNoContext, TypeOK, ThreadsInv, AloneInv, LifeInv, Usable, InitPc, CallPc, FreePc, CriticalPc
<1>8. LifeInv'
  BY <1>1, <1>2, <1>3 DEF IndInv, ConstructNoContext, TypeOK, ThreadsInv, AloneInv, LifeInv, Usable, InitPc, CallPc, FreePc, CriticalPc
<1>9. ContextField'
  BY <1>1, <1>2, <1>3 DEF IndInv, ConstructNoContext, TypeOK, ThreadsInv, AloneInv, LifeInv, ContextField, Usable, Live, HeapCell, ThreadState, InitPc, CallPc, FreePc, CriticalPc
<1>10. ApiField'
  BY <1>1, <1>2, <1>3 DEF IndInv, ConstructNoContext, TypeOK, ThreadsInv, AloneInv, LifeInv, ContextField, InitInv, ApiField, ApiAt, Usable, Live, HeapCell, ThreadState, InitPc, CallPc, FreePc, CriticalPc
<1>11. FreeInv'
  BY <1>1, <1>2, <1>3 DEF IndInv, ConstructNoContext, TypeOK, ThreadsInv, AloneInv, LifeInv, FreeInv, ApiField, ApiAt, Usable, Live, Pending, Kind, InitPc, CallPc, FreePc, CriticalPc
<1>12. InitInv'
  BY <1>1, <1>2, <1>3 DEF IndInv, ConstructNoContext, TypeOK, ThreadsInv, AloneInv, LifeInv, LockInv, InitInv, InitPc, CallPc, FreePc, CriticalPc
<1>13. CallInv'
  BY <1>1, <1>2, <1>3 DEF IndInv, ConstructNoContext, TypeOK, ThreadsInv, AloneInv, LifeInv, CallInv, InitInv, InitPc, CallPc, FreePc, CriticalPc
<1>14. HomeInv'
  BY <1>1, <1>2, <1>3 DEF IndInv, ConstructNoContext, TypeOK, ThreadsInv, AloneInv, LifeInv, LockInv, ContextField, ApiField, InitInv, FreeInv, HomeInv, Home, Storing, Usable, Live, HeapCell, ThreadState, InitPc, CallPc, FreePc, CriticalPc
<1>15. OneApiPerContext'
  BY <1>1, <1>2, <1>3 DEF IndInv, ConstructNoContext, TypeOK, ThreadsInv, AloneInv, LifeInv, LockInv, ContextField, ApiField, InitInv, FreeInv, HomeInv, OneApiPerContext, Storing, Usable, Live, HeapCell, ThreadState, Kind, InitPc, CallPc, FreePc, CriticalPc
<1>16. NoDoubleFree'
  BY <1>1, <1>2, <1>3 DEF IndInv, ConstructNoContext, TypeOK, ThreadsInv, AloneInv, LifeInv, ContextField, ApiField, ApiAt, FreeInv, Pending, NoDoubleFree, Live, HeapCell, ThreadState, Kind, InitPc, CallPc, FreePc, CriticalPc
<1> QED BY <1>4, <1>5, <1>6, <1>7, <1>8, <1>9, <1>10, <1>11, <1>12, <1>13, <1>14, <1>15, <1>16 DEF IndInv

(* The constructor installs a new context and clears the API fields; the   *)
(* APIs of an earlier context keep it as their home.                       *)
LEMMA ConstructContextStep ==
  ASSUME IndInv, NEW t \in Thread, NEW h \in Handle, ConstructContext(t, h)
  PROVE  IndInv'
<1> USE NoneAssumption
<1> DEFINE o == thr[t].obj
<1>1. TypeOK /\ o \in Object
  BY DEF IndInv, TypeOK, ThreadState, ThreadsInv, ConstructContext
<1>2. \A u \in Thread : thr[u].obj = o => u = t
  BY DEF IndInv, AloneInv, ConstructContext
<1>3. /\ ctx'[o] = h /\ \A k \in Kind : api'[o][k] = None
      /\ \A p \in Object : p # o => ctx'[p] = ctx[p] /\ api'[p] = api[p]
  BY <1>1 DEF ConstructContext, TypeOK
<1>4. /\ thr' \in [Thread -> ThreadState]
      /\ \A u \in Thread : u # t => thr'[u] = thr[u]
      /\ thr'[t].pc = "idle" /\ thr'[t].obj = None
  BY <1>1, LeaveFacts DEF ConstructContext
<1>5. /\ heap[h].state = "unused"
      /\ heap' \in [Handle -> HeapCell]
      /\ heap'[h] = [state |-> "live", kind |-> "context", ctx |-> None, owner |-> o]
      /\ \A g \in Handle : g # h => heap'[g] = heap[g]
  BY <1>1, AllocateFacts DEF ConstructContext
<1>6. TypeOK'
  BY <1>1, <1>2, <1>3, <1>4, <1>5 DEF IndInv, ConstructContext, TypeOK, Pc, ThreadState, HeapCell, Kind
<1>7. ThreadsInv'
  BY <1>1, <1>2, <1>3, <1>4, <1>5 DEF IndInv, ConstructContext, TypeOK, ThreadsInv, Kind
<1>8. LockInv'
  BY <1>1, <1>2, <1>3, <1>4, <1>5 DEF IndInv, ConstructContext, TypeOK, ThreadState, ThreadsInv, LockInv, InitPc, CallPc, FreePc, CriticalPc, Kind
<1>9. AloneInv'
  BY <1>1, <1>2, <1>3, <1>4, <1>5 DEF IndInv, ConstructContext, TypeOK, ThreadsInv, AloneInv, LifeInv, Usable, InitPc, CallPc, FreePc, CriticalPc, Kind
<1>10. LifeInv'
  BY <1>1, <1>2, <1>3, <1>4, <1>5 DEF IndInv, ConstructContext, TypeOK, ThreadsInv, AloneInv, LifeInv, Usable, InitPc, CallPc, FreePc, CriticalPc, Kind
<1>11. ContextField'
  BY <1>1, <1>2, <1>3, <1>4, <1>5 DEF IndInv, ConstructContext, TypeOK, ThreadsInv, AloneInv, LifeInv, ContextField, Usable, Live, HeapCell, ThreadState, InitPc, CallPc, FreePc, CriticalPc, Kind
<1>12. ApiField'
  <2>1. ASSUME NEW p \in Object, NEW k \in Kind
        PROVE  ApiAt(p, k)'
    <3>1. CASE p = o
      BY <1>3, <3>1 DEF ApiAt
    <3>2. CASE p # o
      <4>1. ApiAt(p, k) /\ api'[p] = api[p] /\ ctx'[p] = ctx[p]
        BY <1>3, <3>2 DEF IndInv, ApiField
      <4>2. api[p][k] # None => api[p][k] \in Handle /\ api[p][k] # h
        BY <1>1, <1>5, <4>1 DEF ApiAt, TypeOK
      <4>3. Usable(p)' => Usable(p)
        BY <1>1, <3>2 DEF Usable, ConstructContext, TypeOK
      <4> QED BY <1>5, <4>1, <4>2, <4>3 DEF ApiAt, Live
    <3> QED BY <3>1, <3>2
  <2> QED BY <2>1 DEF ApiField
<1>13. FreeInv'
  <2>1. ASSUME NEW u \in Thread, NEW k \in Kind, thr'[u].pc \in FreePc
        PROVE  /\ u # t /\ thr'[u] = thr[u] /\ api'[thr[u].obj][k] = api[thr[u].obj][k]
               /\ LET g == api[thr[u].obj][k] IN
                  g # None => heap'[g] = heap[g]
    <3>1. u # t /\ thr'[u] = thr[u]
      BY <1>4, <2>1 DEF FreePc
    <3>2. thr[u].obj \in Object /\ thr[u].obj # o
      BY <1>1, <1>2, <2>1, <3>1 DEF IndInv, ThreadsInv, TypeOK, ThreadState, FreePc
    <3>3. ApiAt(thr[u].obj, k)
      BY <3>2 DEF IndInv, ApiField
    <3> QED BY <1>1, <1>3, <1>5, <3>1, <3>2, <3>3 DEF ApiAt, TypeOK
  <2> QED BY <2>1 DEF IndInv, FreeInv, Live, FreePc
<1>14. InitInv'
  <2>1. ASSUME NEW u \in Thread, thr'[u].pc \in {"init_create", "init_store"}
        PROVE  /\ u # t /\ thr'[u] = thr[u] /\ thr[u].obj \in Object /\ thr[u].obj # o
               /\ thr[u].kind \in Kind /\ thr[u].handle \in Handle \cup {None}
    BY <1>1, <1>2, <1>4, <2>1 DEF IndInv, ThreadsInv, TypeOK, ThreadState
  <2>2. ASSUME NEW u \in Thread, thr'[u].pc = "init_store", thr[u].handle # None
        PROVE  heap'[thr[u].handle] = heap[thr[u].handle]
    <3>1. thr[u].pc = "init_store" /\ thr[u].handle \in Handle
      BY <2>1, <2>2
    <3>2. heap[thr[u].handle].state = "live"
      BY <2>2, <3>1, InHand DEF IndInv
    <3> QED BY <1>5, <3>1, <3>2
  <2> QED BY <1>3, <2>1, <2>2 DEF IndInv, InitInv
<1>15. CallInv'
  BY <1>1, <1>2, <1>3, <1>4, <1>5 DEF IndInv, ConstructContext, TypeOK, ThreadsInv, AloneInv, LifeInv, CallInv, InitInv, InitPc, CallPc, FreePc, CriticalPc, Kind
<1>16. HomeInv'
  <2>1. ASSUME NEW g \in Handle, Live(g)', heap'[g].kind \in Kind
        PROVE  Home(g)'
    <3>1. g # h /\ heap'[g] = heap[g] /\ Live(g) /\ Home(g)
      BY <1>5, <2>1 DEF IndInv, HomeInv, Live, Kind
    <3>2. /\ heap[g].ctx \in Handle /\ heap[g].ctx # h
          /\ heap'[heap[g].ctx] = heap[heap[g].ctx]
          /\ heap[g].owner \in Object
      BY <1>1, <1>5, <2>1, <3>1 DEF Home, Live, TypeOK, HeapCell
    <3>3. ASSUME NEW u \in Thread, Storing(u, g)
          PROVE  Storing(u, g)'
      BY <1>4, <3>1, <3>3 DEF Storing, ConstructContext
    <3> QED BY <1>3, <2>1, <3>1, <3>2, <3>3 DEF Home, Live
  <2> QED BY <2>1 DEF HomeInv, Home
<1>17. OneApiPerContext'
  BY <1>5 DEF IndInv, OneApiPerContext, Live, Kind
<1>18. NoDoubleFree'
  BY <1>1, <1>2, <1>3, <1>4, <1>5 DEF IndInv, ConstructContext, TypeOK, ThreadsInv, AloneInv, LifeInv, ContextField, ApiField, ApiAt, FreeInv, Pending, NoDoubleFree, Live, HeapCell, ThreadState, Kind, InitPc, CallPc, FreePc, CriticalPc, Kind
<1> QED BY <1>6, <1>7, <1>8, <1>9, <1>10, <1>11, <1>12, <1>13, <1>14, <1>15, <1>16, <1>17, <1>18 DEF IndInv

(* An InitX creates an API: no live one of its kind exists for the         *)
(* context, because it would be in the field (which is null) or in the     *)
(* hands of another thread (which would hold the mutex).                   *)
LEMMA InitCreateStep ==
  ASSUME IndInv, NEW t \in Thread, NEW h \in Handle, InitCreate(t, h)
  PROVE  IndInv'
<1> USE NoneAssumption
<1> DEFINE o == thr[t].obj
           k == thr[t].kind
<1>1. /\ TypeOK /\ o \in Object /\ k \in Kind /\ ctx[o] \in Handle
      /\ thr[t].pc = "init_create" /\ mtx[o] = t /\ Usable(o)
  BY DEF IndInv, TypeOK, ThreadState, ThreadsInv, LockInv, LifeInv, CriticalPc, InitPc, InitCreate
<1>2. /\ UNCHANGED <<up, life, ctx, api, mtx, built>>
      /\ ctx[o] # None /\ api[o][k] = None
      /\ heap[ctx[o]].kind = "context" /\ heap[ctx[o]].owner = o /\ Live(ctx[o])
  BY <1>1 DEF IndInv, InitCreate, InitInv, ContextField, Usable
<1>3. /\ thr' \in [Thread -> ThreadState]
      /\ \A u \in Thread : u # t => thr'[u] = thr[u]
      /\ thr'[t].pc = "init_store" /\ thr'[t].obj = o /\ thr'[t].kind = k /\ thr'[t].handle = h
  BY <1>1, MoveFacts DEF InitCreate, Pc, InitPc
<1>4. /\ heap[h].state = "unused"
      /\ heap' \in [Handle -> HeapCell]
      /\ heap'[h] = [state |-> "live", kind |-> k, ctx |-> ctx[o], owner |-> o]
      /\ \A g \in Handle : g # h => heap'[g] = heap[g]
  BY <1>1, AllocateFacts DEF InitCreate
<1>5. \A u \in Thread : thr[u].obj = o /\ thr[u].pc \in CriticalPc => u = t
  BY <1>1 DEF IndInv, LockInv
<1>6. ASSUME NEW g \in Handle, Live(g), heap[g].kind = k, heap[g].ctx = ctx[o]
      PROVE  FALSE
  <2>1. Home(g) /\ heap[g].owner = o
    BY <1>1, <1>2, <1>6 DEF IndInv, HomeInv, Home
  <2>2. \E u \in Thread : Storing(u, g)
    BY <1>1, <1>2, <1>6, <2>1, NoneAssumption DEF Home
  <2> QED BY <1>1, <1>5, <2>1, <2>2 DEF Storing, CriticalPc, InitPc
<1>7. TypeOK'
  BY <1>1, <1>2, <1>3, <1>4, <1>5, <1>6 DEF IndInv, InitCreate, TypeOK, Pc, ThreadState, HeapCell
<1>8. ThreadsInv'
  BY <1>1, <1>3 DEF IndInv, ThreadsInv
<1>9. LockInv'
  BY <1>1, <1>2, <1>3 DEF IndInv, LockInv
<1>10. AloneInv'
  BY <1>1, <1>3 DEF IndInv, AloneInv, LifeInv, Usable, FreePc
<1>11. LifeInv'
  BY <1>1, <1>2, <1>3 DEF IndInv, LifeInv, Usable, InitPc, CallPc, FreePc
<1>12. ContextField'
  BY <1>1, <1>2, <1>4 DEF IndInv, ContextField, TypeOK, Live
<1>13. ApiField'
  <2>1. ASSUME NEW p \in Object, NEW kk \in Kind
        PROVE  ApiAt(p, kk)'
    <3>1. ApiAt(p, kk)
      BY DEF IndInv, ApiField
    <3>2. api[p][kk] # None => heap'[api[p][kk]] = heap[api[p][kk]]
      BY <1>1, <1>4, <3>1 DEF ApiAt, TypeOK
    <3> QED BY <1>2, <3>1, <3>2 DEF ApiAt, Live, Usable
  <2> QED BY <2>1 DEF ApiField
<1>14. FreeInv'
  <2>1. ASSUME NEW u \in Thread, NEW kk \in Kind, thr'[u].pc \in FreePc
        PROVE  /\ u # t /\ thr'[u] = thr[u]
               /\ LET g == api[thr[u].obj][kk] IN
                  g # None => heap'[g] = heap[g]
    <3>1. u # t /\ thr'[u] = thr[u] /\ thr[u].obj \in Object
      BY <1>1, <1>3, <2>1 DEF IndInv, ThreadsInv, TypeOK, ThreadState, FreePc
    <3>2. ApiAt(thr[u].obj, kk)
      BY <3>1 DEF IndInv, ApiField
    <3> QED BY <1>1, <1>4, <3>1, <3>2 DEF ApiAt, TypeOK
  <2> QED BY <1>2, <2>1 DEF IndInv, FreeInv, Live, FreePc
<1>15. InitInv'
  <2>1. ASSUME NEW u \in Thread, u # t, thr'[u].pc = "init_store", thr[u].handle # None
        PROVE  heap'[thr[u].handle] = heap[thr[u].handle]
    <3>1. thr[u].pc = "init_store" /\ thr[u].handle \in Handle
      BY <1>1, <1>3, <2>1 DEF TypeOK, ThreadState
    <3>2. heap[thr[u].handle].state = "live"
      BY <2>1, <3>1, InHand DEF IndInv
    <3> QED BY <1>4, <3>1, <3>2
  <2>2. ASSUME NEW u \in Thread, u # t, thr'[u].pc \in {"init_create", "init_store"}
        PROVE  /\ api'[thr'[u].obj][thr'[u].kind] = None
               /\ thr'[u].pc = "init_store" /\ thr'[u].handle # None =>
                    /\ ctx'[thr'[u].obj] # None
                    /\ heap'[thr'[u].handle] = [state |-> "live", kind |-> thr'[u].kind,
                                                ctx |-> ctx'[thr'[u].obj], owner |-> thr'[u].obj]
    <3>1. thr'[u] = thr[u] /\ api' = api /\ ctx' = ctx
      BY <1>2, <1>3, <2>2
    <3>2. /\ api[thr[u].obj][thr[u].kind] = None
          /\ thr[u].pc = "init_store" /\ thr[u].handle # None =>
               /\ ctx[thr[u].obj] # None
               /\ heap[thr[u].handle] = [state |-> "live", kind |-> thr[u].kind,
                                         ctx |-> ctx[thr[u].obj], owner |-> thr[u].obj]
      BY <2>2, <3>1 DEF IndInv, InitInv
    <3> QED BY <2>1, <2>2, <3>1, <3>2
  <2>3. /\ api'[o][k] = None
        /\ ctx'[o] # None
        /\ heap'[h] = [state |-> "live", kind |-> k, ctx |-> ctx'[o], owner |-> o]
    BY <1>2, <1>4
  <2>4. ASSUME NEW u \in Thread
        PROVE  /\ thr'[u].pc \in {"init_create", "init_store"} =>
                     api'[thr'[u].obj][thr'[u].kind] = None
               /\ thr'[u].pc = "init_store" /\ thr'[u].handle # None =>
                    /\ ctx'[thr'[u].obj] # None
                    /\ heap'[thr'[u].handle] = [state |-> "live", kind |-> thr'[u].kind,
                                                ctx |-> ctx'[thr'[u].obj], owner |-> thr'[u].obj]
    <3>1. CASE u = t
      BY <1>3, <2>3, <3>1
    <3>2. CASE u # t
      BY <2>2, <3>2
    <3> QED BY <3>1, <3>2
  <2> QED BY <2>4 DEF InitInv
<1>16. CallInv'
  BY <1>2, <1>3 DEF IndInv, CallInv
<1>17. HomeInv'
  <2>1. Home(h)'
    BY <1>1, <1>2, <1>3, <1>4 DEF Home, Live, Storing
  <2>2. ASSUME NEW g \in Handle, g # h, Live(g)', heap'[g].kind \in Kind
        PROVE  Home(g)'
    <3>1. heap'[g] = heap[g] /\ Live(g) /\ Home(g)
      BY <1>4, <2>2 DEF IndInv, HomeInv, Live
    <3>2. heap[g].ctx \in Handle /\ heap'[heap[g].ctx] = heap[heap[g].ctx]
      BY <1>1, <1>4, <2>2, <3>1 DEF Home, Live, TypeOK, HeapCell
    <3>3. ASSUME NEW u \in Thread, Storing(u, g)
          PROVE  Storing(u, g)'
      BY <1>1, <1>3, <3>1, <3>3 DEF Storing
    <3> QED BY <1>2, <2>2, <3>1, <3>2, <3>3 DEF Home, Live
  <2> QED BY <2>1, <2>2 DEF HomeInv, Home
<1>18. OneApiPerContext'
  BY <1>2, <1>4, <1>6 DEF IndInv, OneApiPerContext, Live
<1>19. NoDoubleFree'
  BY <1>4 DEF IndInv, NoDoubleFree
<1> QED BY <1>7, <1>8, <1>9, <1>10, <1>11, <1>12, <1>13, <1>14, <1>15, <1>16, <1>17, <1>18, <1>19 DEF IndInv

(* An InitX stores what it created into the field, which is still null.    *)
LEMMA InitStoreStep ==
  ASSUME IndInv, NEW t \in Thread, InitStore(t)
  PROVE  IndInv'
<1> USE NoneAssumption
<1> DEFINE o == thr[t].obj
           k == thr[t].kind
           h == thr[t].handle
<1>1. /\ TypeOK /\ o \in Object /\ k \in Kind /\ h \in Handle \cup {None}
      /\ thr[t].pc = "init_store" /\ mtx[o] = t /\ Usable(o)
  BY DEF IndInv, TypeOK, ThreadState, ThreadsInv, LockInv, LifeInv, CriticalPc, InitPc, InitStore, Goto
<1>2. /\ UNCHANGED <<up, life, ctx, heap, mtx, built>>
      /\ api[o][k] = None
      /\ h # None => /\ ctx[o] # None
                     /\ heap[h] = [state |-> "live", kind |-> k, ctx |-> ctx[o], owner |-> o]
  BY <1>1 DEF IndInv, InitStore, InitInv
<1>3. /\ thr' \in [Thread -> ThreadState]
      /\ \A u \in Thread : u # t => thr'[u] = thr[u]
      /\ thr'[t].pc = "init_unlock" /\ thr'[t].obj = o /\ thr'[t].kind = k /\ thr'[t].handle = h
  BY <1>1, MoveFacts DEF InitStore, Goto, Pc, InitPc
<1>4. /\ api' \in [Object -> [Kind -> Handle \cup {None}]]
      /\ api'[o][k] = h
      /\ \A p \in Object, kk \in Kind : <<p, kk>> # <<o, k>> => api'[p][kk] = api[p][kk]
  BY <1>1 DEF InitStore, TypeOK
<1>5. TypeOK'
  BY <1>1, <1>2, <1>3, <1>4 DEF TypeOK
<1>6. ThreadsInv'
  BY <1>1, <1>3 DEF IndInv, ThreadsInv
<1>7. LockInv'
  BY <1>1, <1>2, <1>3 DEF IndInv, LockInv
<1>8. AloneInv'
  BY <1>1, <1>3 DEF IndInv, AloneInv, LifeInv, Usable, FreePc
<1>9. LifeInv'
  BY <1>1, <1>2, <1>3 DEF IndInv, LifeInv, Usable, InitPc, CallPc, FreePc
<1>10. ContextField'
  BY <1>1, <1>2, <1>3, <1>4 DEF IndInv, InitStore, TypeOK, ThreadsInv, AloneInv, LifeInv, ContextField, Usable, Live, HeapCell, ThreadState, InitPc, CallPc, FreePc, CriticalPc
<1>11. ApiField'
  <2>1. ASSUME NEW p \in Object, NEW kk \in Kind
        PROVE  ApiAt(p, kk)'
    BY <1>1, <1>2, <1>4 DEF IndInv, ApiField, ApiAt, Live, Usable
  <2> QED BY <2>1 DEF ApiField
<1>12. FreeInv'
  <2>1. ASSUME NEW u \in Thread, thr'[u].pc \in FreePc
        PROVE  /\ u # t /\ thr'[u] = thr[u]
               /\ \A kk \in Kind : api'[thr[u].obj][kk] = api[thr[u].obj][kk]
    BY <1>1, <1>3, <1>4, <2>1
       DEF IndInv, ThreadsInv, LifeInv, TypeOK, ThreadState, Usable, FreePc
  <2> QED BY <1>2, <2>1 DEF IndInv, FreeInv, Live, FreePc
<1>13. InitInv'
  <2>1. ASSUME NEW u \in Thread, thr'[u].pc \in {"init_create", "init_store"}
        PROVE  /\ u # t /\ thr'[u] = thr[u] /\ thr[u].kind \in Kind
               /\ thr[u].obj \in Object /\ thr[u].obj # o
    BY <1>1, <1>3, <2>1
       DEF IndInv, ThreadsInv, LockInv, TypeOK, ThreadState, CriticalPc, InitPc
  <2>2. ASSUME NEW u \in Thread, thr'[u].pc \in {"init_create", "init_store"}
        PROVE  api'[thr[u].obj][thr[u].kind] = api[thr[u].obj][thr[u].kind]
    BY <1>4, <2>1, <2>2
  <2> QED BY <1>2, <2>1, <2>2 DEF IndInv, InitInv
<1>14. CallInv'
  <2>1. ASSUME NEW u \in Thread, thr'[u].pc = "call_sdk"
        PROVE  /\ u # t /\ thr'[u] = thr[u] /\ thr[u].kind \in Kind
               /\ thr[u].obj \in Object
    BY <1>1, <1>3, <2>1 DEF IndInv, ThreadsInv, TypeOK, ThreadState
  <2> QED BY <1>2, <1>4, <2>1 DEF IndInv, CallInv
<1>15. HomeInv'
  <2>1. ASSUME NEW g \in Handle, Live(g), heap[g].kind \in Kind
        PROVE  Home(g)'
    <3>1. Home(g) /\ heap[g].owner \in Object
      BY <1>1, <2>1 DEF IndInv, HomeInv, Home, TypeOK, HeapCell
    <3>2. ASSUME NEW u \in Thread, Storing(u, g), u # t
          PROVE  Storing(u, g)'
      BY <1>2, <1>3, <3>2 DEF Storing
    <3>3. Storing(t, g) => api'[heap[g].owner][heap[g].kind] = g
      BY <1>4 DEF Storing
    <3>4. api[heap[g].owner][heap[g].kind] = g => api'[heap[g].owner][heap[g].kind] = g
      BY <1>2, <1>4, <2>1, <3>1
    <3> QED BY <1>2, <2>1, <3>1, <3>2, <3>3, <3>4 DEF Home, Live
  <2> QED BY <1>2, <2>1 DEF HomeInv, Home, Live
<1>16. OneApiPerContext'
  BY <1>2 DEF IndInv, OneApiPerContext, Live
<1>17. NoDoubleFree'
  BY <1>2 DEF IndInv, NoDoubleFree
<1> QED BY <1>5, <1>6, <1>7, <1>8, <1>9, <1>10, <1>11, <1>12, <1>13, <1>14, <1>15, <1>16, <1>17 DEF IndInv

(* The destructor begins: every field that is not null is live.            *)
LEMMA FreeEnterStep ==
  ASSUME IndInv, NEW t \in Thread, NEW o \in Object, FreeEnter(t, o)
  PROVE  IndInv'
<1> USE NoneAssumption
<1>1. /\ TypeOK /\ Usable(o) /\ thr[t].pc = "idle"
      /\ \A u \in Thread : thr[u].obj # o
      /\ life' = [life EXCEPT ![o] = "freeing"]
      /\ UNCHANGED <<up, ctx, api, mtx, heap, built>>
  BY DEF IndInv, FreeEnter, Enter, InUse
<1>2. /\ thr' \in [Thread -> ThreadState]
      /\ \A u \in Thread : u # t => thr'[u] = thr[u]
      /\ thr'[t].pc = "free_api" /\ thr'[t].obj = o /\ thr'[t].kind = "provider"
  BY <1>1, MoveFacts DEF FreeEnter, Enter, FirstKind, Pc, FreePc, Kind
<1>3. TypeOK'
  BY <1>1, <1>2 DEF IndInv, FreeEnter, TypeOK, Pc, ThreadState, HeapCell
<1>4. ThreadsInv'
  BY <1>1, <1>2 DEF IndInv, FreeEnter, TypeOK, ThreadsInv
<1>5. LockInv'
  BY <1>1, <1>2 DEF IndInv, FreeEnter, TypeOK, ThreadState, ThreadsInv, LockInv, InitPc, CallPc, FreePc, CriticalPc
<1>6. AloneInv'
  BY <1>1, <1>2 DEF IndInv, FreeEnter, TypeOK, ThreadsInv, AloneInv, LifeInv, Usable, InitPc, CallPc, FreePc, CriticalPc
<1>7. LifeInv'
  BY <1>1, <1>2 DEF IndInv, FreeEnter, TypeOK, ThreadsInv, AloneInv, LifeInv, Usable, InitPc, CallPc, FreePc, CriticalPc
<1>8. ContextField'
  BY <1>1, <1>2 DEF IndInv, FreeEnter, TypeOK, ThreadsInv, AloneInv, LifeInv, ContextField, Usable, Live, HeapCell, ThreadState, InitPc, CallPc, FreePc, CriticalPc
<1>9. ApiField'
  BY <1>1, <1>2 DEF IndInv, FreeEnter, TypeOK, ThreadsInv, AloneInv, LifeInv, ContextField, InitInv, ApiField, ApiAt, Usable, Live, HeapCell, ThreadState, InitPc, CallPc, FreePc, CriticalPc
<1>10. FreeInv'
  <2>1. \A k \in Kind : api[o][k] # None => Live(api[o][k])
    BY <1>1 DEF IndInv, ApiField, ApiAt
  <2> QED BY <1>1, <1>2, <2>1 DEF IndInv, FreeInv, Live, Pending
<1>11. InitInv'
  BY <1>1, <1>2 DEF IndInv, FreeEnter, TypeOK, ThreadsInv, AloneInv, LifeInv, LockInv, InitInv, InitPc, CallPc, FreePc, CriticalPc
<1>12. CallInv'
  BY <1>1, <1>2 DEF IndInv, FreeEnter, TypeOK, ThreadsInv, AloneInv, LifeInv, CallInv, InitInv, InitPc, CallPc, FreePc, CriticalPc
<1>13. HomeInv'
  BY <1>1, <1>2, HomeFrame DEF IndInv
<1>14. OneApiPerContext'
  BY <1>1 DEF IndInv, OneApiPerContext, Live
<1>15. NoDoubleFree'
  BY <1>1, <1>2 DEF IndInv, FreeEnter, TypeOK, ThreadsInv, AloneInv, LifeInv, ContextField, ApiField, ApiAt, FreeInv, Pending, NoDoubleFree, Live, HeapCell, ThreadState, Kind, InitPc, CallPc, FreePc, CriticalPc
<1> QED BY <1>3, <1>4, <1>5, <1>6, <1>7, <1>8, <1>9, <1>10, <1>11, <1>12, <1>13, <1>14, <1>15 DEF IndInv

(* The destructor deletes one API; the pointers of other fields and of     *)
(* other objects differ from it, by kind or by owner.                      *)
LEMMA FreeApiStep ==
  ASSUME IndInv, NEW t \in Thread, FreeApi(t)
  PROVE  IndInv'
<1> USE NoneAssumption
<1> DEFINE o == thr[t].obj
           k == thr[t].kind
           d == api[o][k]
<1>1. /\ TypeOK /\ o \in Object /\ k \in Kind /\ d \in Handle \cup {None}
      /\ thr[t].pc = "free_api" /\ life[o] = "freeing"
  BY DEF IndInv, TypeOK, ThreadState, ThreadsInv, LifeInv, FreePc, FreeApi
<1>2. /\ UNCHANGED <<up, life, ctx, api, mtx, built>>
      /\ \A u \in Thread : thr[u].obj = o => u = t
  BY <1>1 DEF IndInv, FreeApi, AloneInv, FreePc
<1>3. /\ thr' \in [Thread -> ThreadState]
      /\ \A u \in Thread : u # t => thr'[u] = thr[u]
      /\ thr'[t].pc = IF k = "limit" THEN "free_ctx" ELSE "free_api"
      /\ thr'[t].obj = o /\ thr'[t].kind = NextKind(k)
  <2>1. (IF k = "limit" THEN "free_ctx" ELSE "free_api") \in Pc /\ NextKind(k) \in Kind
    BY DEF Pc, FreePc, NextKind, Kind
  <2> QED BY <1>1, <2>1, MoveFacts DEF FreeApi
<1>4. d # None => /\ Live(d)
                  /\ heap[d].kind = k
                  /\ heap[d].owner = o
  BY <1>1 DEF IndInv, FreeInv, Pending, ApiField, ApiAt, Kind
<1>5. /\ heap' \in [Handle -> HeapCell]
      /\ d # None => /\ heap'[d].state = "deleted"
                     /\ heap'[d].kind = heap[d].kind
                     /\ heap'[d].ctx = heap[d].ctx
                     /\ heap'[d].owner = heap[d].owner
      /\ \A g \in Handle : g # d => heap'[g] = heap[g]
  <2>1. CASE d = None
    BY <1>1, <2>1 DEF FreeApi, Delete, TypeOK
  <2>2. CASE d # None
    BY <1>1, <1>4, <2>2, DeleteFacts DEF FreeApi
  <2> QED BY <2>1, <2>2
<1>6. ASSUME NEW p \in Object, NEW kk \in Kind, <<p, kk>> # <<o, k>>, api[p][kk] # None
      PROVE  api[p][kk] \in Handle /\ api[p][kk] # d
  BY <1>1, <1>4, <1>6 DEF IndInv, ApiField, ApiAt, TypeOK
<1>7. TypeOK'
  BY <1>1, <1>2, <1>3, <1>5 DEF TypeOK
<1>8. ThreadsInv'
  BY <1>1, <1>3 DEF IndInv, ThreadsInv
<1>9. LockInv'
  BY <1>1, <1>2, <1>3 DEF IndInv, LockInv, CriticalPc, InitPc
<1>10. AloneInv'
  BY <1>2, <1>3 DEF IndInv, AloneInv
<1>11. LifeInv'
  BY <1>1, <1>2, <1>3 DEF IndInv, LifeInv, Usable, InitPc, CallPc, FreePc
<1>12. ContextField'
  <2>1. \A p \in Object : ctx[p] # None => ctx[p] \in Handle /\ ctx[p] # d
    BY <1>1, <1>4 DEF IndInv, ContextField, TypeOK, Kind
  <2> QED BY <1>2, <1>5, <2>1 DEF IndInv, ContextField, Live
<1>13. ApiField'
  <2>1. ASSUME NEW p \in Object, NEW kk \in Kind
        PROVE  ApiAt(p, kk)'
    <3>1. ApiAt(p, kk)
      BY DEF IndInv, ApiField
    <3>2. CASE <<p, kk>> = <<o, k>>
      BY <1>1, <1>2, <1>5, <3>1, <3>2 DEF ApiAt, Usable
    <3>3. CASE <<p, kk>> # <<o, k>>
      BY <1>2, <1>5, <1>6, <3>1, <3>3 DEF ApiAt, Live, Usable
    <3> QED BY <3>2, <3>3
  <2> QED BY <2>1 DEF ApiField
<1>14. FreeInv'
  <2>1. ASSUME NEW u \in Thread, u # t, NEW kk \in Kind, thr'[u].pc \in FreePc
        PROVE  /\ thr'[u] = thr[u]
               /\ LET g == api[thr[u].obj][kk] IN
                  g # None => heap'[g] = heap[g]
    <3>1. thr'[u] = thr[u] /\ thr[u].obj \in Object /\ thr[u].obj # o
      BY <1>1, <1>2, <1>3, <2>1 DEF IndInv, ThreadsInv, TypeOK, ThreadState, FreePc
    <3> QED BY <1>5, <1>6, <3>1
  <2>2. ASSUME NEW kk \in Kind, api[o][kk] # None
        PROVE  /\ kk = k => ~ heap'[api[o][kk]].state = "live"
               /\ kk # k => heap'[api[o][kk]] = heap[api[o][kk]]
    BY <1>1, <1>5, <1>6, <2>2
  <2>3. ASSUME NEW kk \in Kind, api[o][kk] # None
        PROVE  heap[api[o][kk]].state = "live" <=> kk \in Pending(k)
    BY <1>1, <2>3 DEF IndInv, FreeInv, Live
  <2>4. ASSUME NEW kk \in Kind, api[o][kk] # None
        PROVE  /\ k # "limit" => (heap'[api[o][kk]].state = "live" <=> kk \in Pending(NextKind(k)))
               /\ k = "limit" => ~ heap'[api[o][kk]].state = "live"
    BY <1>1, <2>2, <2>3, <2>4 DEF Pending, NextKind, Kind
  <2> QED BY <1>2, <1>3, <2>1, <2>4 DEF IndInv, FreeInv, Live, FreePc
<1>15. InitInv'
  <2>1. ASSUME NEW u \in Thread, thr'[u].pc \in {"init_create", "init_store"}
        PROVE  /\ thr'[u] = thr[u] /\ thr[u].obj # o
               /\ thr[u].handle \in Handle \cup {None}
    BY <1>1, <1>2, <1>3, <2>1 DEF TypeOK, ThreadState
  <2>2. ASSUME NEW u \in Thread, thr'[u].pc = "init_store", thr[u].handle # None
        PROVE  heap'[thr[u].handle] = heap[thr[u].handle]
    <3>1. thr[u].pc = "init_store" /\ thr[u].handle \in Handle /\ thr[u].obj # o
      BY <2>1, <2>2
    <3>2. heap[thr[u].handle].owner = thr[u].obj
      BY <2>2, <3>1, InHand DEF IndInv
    <3> QED BY <1>4, <1>5, <3>1, <3>2
  <2> QED BY <1>2, <2>1, <2>2 DEF IndInv, InitInv
<1>16. CallInv'
  BY <1>2, <1>3 DEF IndInv, CallInv
<1>17. HomeInv'
  <2>1. ASSUME NEW g \in Handle, Live(g)', heap'[g].kind \in Kind
        PROVE  Home(g)'
    <3>1. g # d /\ heap'[g] = heap[g] /\ Live(g) /\ Home(g)
      BY <1>5, <2>1, NoneAssumption DEF IndInv, HomeInv, Live
    <3>2. heap[g].ctx \in Handle /\ heap'[heap[g].ctx] = heap[heap[g].ctx]
      BY <1>1, <1>4, <1>5, <2>1, <3>1 DEF Home, TypeOK, HeapCell, Kind
    <3>3. ASSUME NEW u \in Thread, Storing(u, g)
          PROVE  Storing(u, g)'
      BY <1>1, <1>3, <3>1, <3>3 DEF Storing
    <3> QED BY <1>2, <2>1, <3>1, <3>2, <3>3 DEF Home, Live
  <2> QED BY <2>1 DEF HomeInv, Home
<1>18. OneApiPerContext'
  <2>1. ASSUME NEW g \in Handle, Live(g)'
        PROVE  Live(g) /\ heap'[g] = heap[g]
    BY <1>5, <2>1, NoneAssumption DEF Live
  <2> QED BY <2>1 DEF IndInv, OneApiPerContext
<1>19. NoDoubleFree'
  BY <1>5 DEF IndInv, NoDoubleFree
<1> QED BY <1>7, <1>8, <1>9, <1>10, <1>11, <1>12, <1>13, <1>14, <1>15, <1>16, <1>17, <1>18, <1>19 DEF IndInv

(* The destructor deletes the context: no live API refers to it, because   *)
(* it would be in a field already deleted.                                 *)
LEMMA FreeContextStep ==
  ASSUME IndInv, NEW t \in Thread, FreeContext(t)
  PROVE  IndInv'
<1> USE NoneAssumption
<1> DEFINE o == thr[t].obj
           d == ctx[o]
<1>1. /\ TypeOK /\ o \in Object /\ d \in Handle \cup {None}
      /\ thr[t].pc = "free_ctx" /\ life[o] = "freeing"
  BY DEF IndInv, TypeOK, ThreadState, ThreadsInv, LifeInv, FreePc, FreeContext
<1>2. /\ UNCHANGED <<up, ctx, api, mtx, built>>
      /\ life' = [life EXCEPT ![o] = "freed"]
      /\ \A u \in Thread : thr[u].obj = o => u = t
  BY <1>1 DEF IndInv, FreeContext, AloneInv, FreePc
<1>3. /\ thr' \in [Thread -> ThreadState]
      /\ \A u \in Thread : u # t => thr'[u] = thr[u]
      /\ thr'[t].pc = "idle" /\ thr'[t].obj = None
  BY <1>1, LeaveFacts DEF FreeContext
<1>4. d # None => /\ Live(d)
                  /\ heap[d].kind = "context"
                  /\ heap[d].owner = o
  BY <1>1 DEF IndInv, ContextField
<1>5. /\ heap' \in [Handle -> HeapCell]
      /\ d # None => /\ heap'[d].state = "deleted"
                     /\ heap'[d].kind = heap[d].kind
                     /\ heap'[d].owner = heap[d].owner
      /\ \A g \in Handle : g # d => heap'[g] = heap[g]
  <2>1. CASE d = None
    BY <1>1, <2>1 DEF FreeContext, Delete, TypeOK
  <2>2. CASE d # None
    BY <1>1, <1>4, <2>2, DeleteFacts DEF FreeContext
  <2> QED BY <2>1, <2>2
<1>6. ASSUME NEW p \in Object, NEW kk \in Kind, api[p][kk] # None
      PROVE  api[p][kk] \in Handle /\ api[p][kk] # d
  BY <1>1, <1>4, <1>6 DEF IndInv, ApiField, ApiAt, TypeOK, Kind
<1>7. TypeOK'
  BY <1>1, <1>2, <1>3, <1>5 DEF TypeOK
<1>8. ThreadsInv'
  BY <1>3 DEF IndInv, ThreadsInv
<1>9. LockInv'
  BY <1>2, <1>3 DEF IndInv, LockInv, CriticalPc, InitPc
<1>10. AloneInv'
  BY <1>3 DEF IndInv, AloneInv, ThreadsInv, FreePc
<1>11. LifeInv'
  <2>1. ASSUME NEW u \in Thread, thr'[u].pc # "idle"
        PROVE  thr'[u] = thr[u] /\ life'[thr[u].obj] = life[thr[u].obj]
    BY <1>1, <1>2, <1>3, <2>1 DEF IndInv, ThreadsInv, TypeOK, ThreadState
  <2> QED BY <2>1 DEF IndInv, LifeInv, Usable, InitPc, CallPc, FreePc
<1>12. ContextField'
  <2>1. \A p \in Object : p # o /\ ctx[p] # None => ctx[p] \in Handle /\ ctx[p] # d
    BY <1>1, <1>4 DEF IndInv, ContextField, TypeOK
  <2> QED BY <1>1, <1>2, <1>4, <1>5, <2>1 DEF IndInv, ContextField, Live, TypeOK
<1>13. ApiField'
  <2>1. ASSUME NEW p \in Object, NEW kk \in Kind
        PROVE  ApiAt(p, kk)'
    <3>1. ApiAt(p, kk) /\ (Usable(p)' => Usable(p))
      BY <1>1, <1>2 DEF IndInv, ApiField, Usable, TypeOK
    <3> QED BY <1>2, <1>5, <1>6, <3>1 DEF ApiAt, Live
  <2> QED BY <2>1 DEF ApiField
<1>14. FreeInv'
  <2>1. ASSUME NEW u \in Thread, NEW kk \in Kind, thr'[u].pc \in FreePc
        PROVE  /\ thr'[u] = thr[u]
               /\ LET g == api[thr[u].obj][kk] IN
                  g # None => heap'[g] = heap[g]
    <3>1. thr'[u] = thr[u] /\ thr[u].obj \in Object
      BY <1>1, <1>3, <2>1 DEF IndInv, ThreadsInv, TypeOK, ThreadState, FreePc
    <3> QED BY <1>5, <1>6, <3>1
  <2> QED BY <1>2, <2>1 DEF IndInv, FreeInv, Live, FreePc
<1>15. InitInv'
  <2>1. ASSUME NEW u \in Thread, thr'[u].pc \in {"init_create", "init_store"}
        PROVE  /\ thr'[u] = thr[u]
               /\ thr[u].handle \in Handle \cup {None}
    BY <1>1, <1>3, <2>1 DEF TypeOK, ThreadState
  <2>2. ASSUME NEW u \in Thread, thr'[u].pc = "init_store", thr[u].handle # None
        PROVE  heap'[thr[u].handle] = heap[thr[u].handle]
    <3>1. thr[u].pc = "init_store" /\ thr[u].handle \in Handle /\ thr[u].kind \in Kind
      BY <1>1, <2>1, <2>2 DEF TypeOK, ThreadState
    <3>2. heap[thr[u].handle].kind = thr[u].kind
      BY <2>2, <3>1, InHand DEF IndInv
    <3> QED BY <1>4, <1>5, <3>1, <3>2 DEF Kind
  <2> QED BY <1>2, <2>1, <2>2 DEF IndInv, InitInv
<1>16. CallInv'
  BY <1>2, <1>3 DEF IndInv, CallInv
<1>17. HomeInv'
  <2>1. ASSUME NEW g \in Handle, Live(g)', heap'[g].kind \in Kind
        PROVE  Home(g)'
    <3>1. g # d /\ heap'[g] = heap[g] /\ Live(g) /\ Home(g) /\ heap[g].kind \in Kind
      BY <1>5, <2>1, NoneAssumption DEF IndInv, HomeInv, Live
    <3>2. ASSUME NEW u \in Thread, Storing(u, g)
          PROVE  u # t /\ Storing(u, g)' /\ thr[u].obj # o
      BY <1>1, <1>2, <1>3, <3>1, <3>2 DEF Storing
    <3>3. heap[g].ctx # d
      <4>1. SUFFICES ASSUME heap[g].ctx = d PROVE FALSE
        OBVIOUS
      <4>2. d # None /\ heap[g].owner = o
        BY <1>4, <3>1, <4>1 DEF Home
      <4>3. api[o][heap[g].kind] = g
        BY <3>1, <3>2, <4>1, <4>2 DEF Home, Storing
      <4> QED BY <1>1, <3>1, <4>3, NoneAssumption DEF IndInv, FreeInv
    <3>4. heap[g].ctx \in Handle /\ heap'[heap[g].ctx] = heap[heap[g].ctx]
      BY <1>1, <1>5, <3>1, <3>3 DEF Home, TypeOK, HeapCell
    <3> QED BY <1>2, <3>1, <3>2, <3>4 DEF Home, Live
  <2> QED BY <2>1 DEF HomeInv, Home
<1>18. OneApiPerContext'
  <2>1. ASSUME NEW g \in Handle, Live(g)'
        PROVE  Live(g) /\ heap'[g] = heap[g]
    BY <1>5, <2>1, NoneAssumption DEF Live
  <2> QED BY <2>1 DEF IndInv, OneApiPerContext
<1>19. NoDoubleFree'
  BY <1>5 DEF IndInv, NoDoubleFree
<1> QED BY <1>7, <1>8, <1>9, <1>10, <1>11, <1>12, <1>13, <1>14, <1>15, <1>16, <1>17, <1>18, <1>19 DEF IndInv

(* The initial state satisfies the invariant.                              *)
LEMMA InitEstablishes == Init => IndInv
<1> SUFFICES ASSUME Init PROVE IndInv
  OBVIOUS
<1>1. TypeOK
  BY DEF Init, TypeOK, Idle, ThreadState, Pc, Kind, Unused, HeapCell
<1>2. /\ ThreadsInv /\ LockInv /\ AloneInv /\ LifeInv
      /\ FreeInv /\ InitInv /\ CallInv
  BY DEF Init, Idle, ThreadsInv, LockInv, AloneInv, LifeInv, FreeInv, InitInv, CallInv,
         CriticalPc, InitPc, CallPc, FreePc
<1>3. ContextField /\ ApiField
  BY DEF Init, ContextField, ApiField, ApiAt
<1>4. HomeInv /\ OneApiPerContext /\ NoDoubleFree
  BY DEF Init, Unused, HomeInv, Home, OneApiPerContext, NoDoubleFree, Live
<1> QED BY <1>1, <1>2, <1>3, <1>4 DEF IndInv

(* A step that changes nothing preserves the invariant.                    *)
LEMMA StutterPreserves ==
  ASSUME IndInv, UNCHANGED vars
  PROVE  IndInv'
<1>1. UNCHANGED <<up, life, ctx, api, mtx, thr, heap, built>>
  BY DEF vars
<1>2. ContextField' /\ ApiField' /\ HomeInv' /\ OneApiPerContext' /\ NoDoubleFree'
  BY <1>1, HeapFrame
<1>3. TypeOK' /\ ThreadsInv' /\ LockInv' /\ AloneInv' /\ LifeInv' /\ InitInv' /\ CallInv'
  BY <1>1 DEF IndInv, TypeOK, ThreadsInv, LockInv, AloneInv, LifeInv, Usable, InitInv, CallInv
<1>4. FreeInv'
  BY <1>1 DEF IndInv, FreeInv, Live
<1> QED BY <1>2, <1>3, <1>4 DEF IndInv

(* Every step preserves the invariant.                                     *)
LEMMA NextPreserves ==
  ASSUME IndInv, [Next]_vars
  PROVE  IndInv'
<1>1. CASE UNCHANGED vars
  BY <1>1, StutterPreserves
<1>2. CASE Stopped
  BY <1>2, StutterPreserves DEF Stopped
<1>3. ASSUME NEW t \in Thread, Begin(t)
      PROVE  IndInv'
  BY <1>3, CreateHandlerStep, ConstructEnterStep, FreeEnterStep, InitEnterStep, CallEnterStep
     DEF Begin
<1>4. ASSUME NEW t \in Thread, Step(t)
      PROVE  IndInv'
  BY <1>4, ConstructNoConfigStep, ConstructNoContextStep, ConstructContextStep,
     InitLockStep, InitCheckStep, InitCreateStep, InitCreateFailsStep, InitStoreStep,
     InitUnlockStep, CallReadStep, CallSdkStep, CallNullStep, FreeApiStep, FreeContextStep
     DEF Step
<1> QED BY <1>1, <1>2, <1>3, <1>4 DEF Next

(* The inductive invariant holds in every reachable state.                 *)
THEOREM Inductive == Spec => []IndInv
<1>1. Init => IndInv
  BY InitEstablishes
<1>2. IndInv /\ [Next]_vars => IndInv'
  BY NextPreserves
<1> QED BY <1>1, <1>2, PTL DEF Spec

(* TypeOK for every set of objects, threads and addresses.                 *)
THEOREM TypeCorrect == Spec => []TypeOK
<1>1. IndInv => TypeOK
  BY DEF IndInv
<1> QED BY <1>1, Inductive, PTL

(* However many threads run InitProvider, InitConsumer and InitLimit at    *)
(* once, a context gets at most one API of each kind.                      *)
THEOREM ApiCreatedOnce == Spec => []OneApiPerContext
<1>1. IndInv => OneApiPerContext
  BY DEF IndInv
<1> QED BY <1>1, Inductive, PTL

(* The invariant says that the pointer inside the SDK is the one the       *)
(* object still holds, and that is live.                                   *)
LEMMA CallsAreSafe == IndInv => NoUseAfterFree
<1> SUFFICES ASSUME IndInv, NEW t \in Thread, thr[t].pc = "call_sdk"
             PROVE  LET h == thr[t].handle IN
                    /\ h # None /\ Live(h) /\ heap[h].kind = thr[t].kind
                    /\ heap[h].ctx # None /\ Live(heap[h].ctx)
  BY DEF NoUseAfterFree
<1> DEFINE o == thr[t].obj
           k == thr[t].kind
<1>1. o \in Object /\ k \in Kind /\ Usable(o)
  BY DEF IndInv, TypeOK, ThreadState, ThreadsInv, LifeInv, CallPc
<1>2. thr[t].handle # None /\ thr[t].handle = api[o][k]
  BY DEF IndInv, CallInv
<1>3. ApiAt(o, k)
  BY <1>1 DEF IndInv, ApiField
<1>4. ctx[o] # None => Live(ctx[o])
  BY <1>1 DEF IndInv, ContextField, Usable
<1> QED BY <1>1, <1>2, <1>3, <1>4 DEF ApiAt

(* No Register, Heartbeat, GetOneInstance, GetQuota... ever runs on a      *)
(* freed API or context, although the methods read the pointer without the *)
(* mutex.                                                                  *)
THEOREM CallsNeverUseFreedApi == Spec => []NoUseAfterFree
BY CallsAreSafe, Inductive, PTL

(* Contexts are deleted after the APIs made from them.                     *)
THEOREM ContextsOutliveApis == Spec => []ContextOutlivesApis
<1>1. IndInv => ContextOutlivesApis
  BY DEF IndInv, HomeInv, Home, ContextOutlivesApis
<1> QED BY <1>1, Inductive, PTL

(* polaris_core_free_storage deletes nothing twice.                        *)
THEOREM NothingFreedTwice == Spec => []NoDoubleFree
<1>1. IndInv => NoDoubleFree
  BY DEF IndInv
<1> QED BY <1>1, Inductive, PTL

(* Only a constructor overwrites a field that is not null.                 *)
LEMMA StoresOnlyIntoNull ==
  ASSUME IndInv, [Next]_vars,
         NEW o \in Object, NEW k \in Kind, api[o][k] # None, api'[o][k] # api[o][k]
  PROVE  Constructing(o)
<1>1. PICK t \in Thread : Begin(t) \/ Step(t)
  BY DEF Next, Stopped, vars
<1>2. ASSUME InitStore(t) PROVE FALSE
  <2>1. api[thr[t].obj][thr[t].kind] = None
    BY <1>2 DEF IndInv, InitInv, InitStore, Goto
  <2>2. api'[o][k] = api[o][k]
    BY <1>2, <2>1 DEF IndInv, TypeOK, InitStore
  <2> QED BY <2>2
<1>3. ~ Begin(t)
  BY DEF Begin, CreateHandler, ConstructEnter, FreeEnter, InitEnter, CallEnter
<1>4. ConstructNoContext(t) \/ \E h \in Handle : ConstructContext(t, h)
  BY <1>1, <1>2, <1>3
     DEF Step, ConstructNoConfig, Exit, InitLock, InitCheck, InitCreate, InitCreateFails,
         InitUnlock, CallRead, CallSdk, CallNull, FreeApi, FreeContext
<1>5. /\ thr[t].pc = "construct"
      /\ api' = [api EXCEPT ![thr[t].obj] = [kk \in Kind |-> None]]
  BY <1>4 DEF ConstructNoContext, ConstructContext
<1>6. thr[t].obj = o
  BY <1>5 DEF IndInv, TypeOK
<1> QED BY <1>5, <1>6 DEF Constructing

(* An API pointer, once published, is never replaced by an InitX.          *)
THEOREM PointersAreStable == Spec => PointerStable
<1>1. IndInv /\ [Next]_vars => [KeepsPointers]_vars
  BY StoresOnlyIntoNull DEF KeepsPointers
<1> QED BY <1>1, Inductive, PTL DEF Spec, PointerStable

(* OwnInv survives a step that creates and deletes no context and begins   *)
(* no constructor.                                                         *)
LEMMA OwnFrame ==
  ASSUME TypeOK, OwnInv, UNCHANGED <<ctx, built>>,
         \A o \in Object : life'[o] = "freed" => life[o] = "freed",
         \A o \in Object : Constructing(o)' => Constructing(o),
         \A h \in Handle : Live(h)' /\ heap'[h].kind = "context" => heap'[h] = heap[h]
  PROVE  OwnInv'
<1>1. ASSUME NEW h \in Handle, heap[h].owner # None
      PROVE  heap[h].owner \in Object
  BY <1>1 DEF TypeOK, HeapCell
<1> QED BY <1>1 DEF OwnInv, Live

(* The constructor makes the only context of its object.                   *)
LEMMA OwnConstructContext ==
  ASSUME IndInv, OwnInv, NEW t \in Thread, NEW h \in Handle, ConstructContext(t, h)
  PROVE  OwnInv'
<1> USE NoneAssumption
<1>0. PICK o \in Object : o = thr[t].obj
  BY DEF IndInv, TypeOK, ThreadState, ThreadsInv, ConstructContext
<1>1. /\ TypeOK /\ o \in Object /\ Constructing(o) /\ built[o] # 0
      /\ \A u \in Thread : thr[u].obj = o => u = t
  BY <1>0 DEF IndInv, OwnInv, Constructing, TypeOK, ThreadState, ThreadsInv, AloneInv, ConstructContext
<1>2. /\ \A u \in Thread : u # t => thr'[u] = thr[u]
      /\ thr'[t].pc = "idle"
  BY <1>0, <1>1, LeaveFacts DEF ConstructContext
<1>3. /\ heap'[h] = [state |-> "live", kind |-> "context", ctx |-> None, owner |-> o]
      /\ \A g \in Handle : g # h => heap'[g] = heap[g]
  BY <1>0, <1>1, AllocateFacts DEF ConstructContext
<1>4. /\ ctx'[o] = h /\ life'[o] = "ready" /\ UNCHANGED built
      /\ \A p \in Object : p # o => ctx'[p] = ctx[p] /\ life'[p] = life[p]
  BY <1>0, <1>1 DEF ConstructContext, TypeOK
<1>5. ASSUME NEW p \in Object, Constructing(p)'
      PROVE  p # o /\ Constructing(p)
  <2>1. PICK u \in Thread : thr'[u].pc = "construct" /\ thr'[u].obj = p
    BY <1>5 DEF Constructing
  <2>2. u # t /\ thr[u].pc = "construct" /\ thr[u].obj = p
    BY <1>2, <2>1
  <2> QED BY <1>1, <2>2 DEF Constructing
<1>6. ASSUME NEW g \in Handle, g # h, Live(g), heap[g].kind = "context"
      PROVE  heap[g].owner \in Object /\ heap[g].owner # o
  BY <1>1, <1>6 DEF OwnInv, TypeOK, HeapCell
<1>7. ASSUME NEW g \in Handle, g # h, Live(g), heap[g].kind = "context"
      PROVE  LET p == heap[g].owner IN
             /\ p # None /\ built'[p] # 0 /\ ctx'[p] = g
             /\ life'[p] # "freed" /\ ~ Constructing(p)'
  BY <1>3, <1>4, <1>5, <1>6, <1>7 DEF OwnInv
<1>8. \A p \in Object : Constructing(p)' => built'[p] # 0
  BY <1>4, <1>5 DEF OwnInv
<1>9. o # None /\ built'[o] # 0 /\ ctx'[o] = h /\ life'[o] # "freed" /\ ~ Constructing(o)'
  BY <1>1, <1>4, <1>5
<1> QED BY <1>3, <1>7, <1>8, <1>9 DEF OwnInv, Live

(* A constructor that fails leaves no context behind.                      *)
LEMMA OwnConstructNoContext ==
  ASSUME IndInv, OwnInv, NEW t \in Thread, ConstructNoContext(t)
  PROVE  OwnInv'
<1> USE NoneAssumption
<1> DEFINE o == thr[t].obj
<1>1. /\ TypeOK /\ o \in Object /\ Constructing(o)
      /\ UNCHANGED <<life, thr, heap, built>>
      /\ \A p \in Object : p # o => ctx'[p] = ctx[p]
  BY DEF IndInv, Constructing, TypeOK, ThreadState, ThreadsInv, ConstructNoContext
<1>2. ASSUME NEW g \in Handle, Live(g), heap[g].kind = "context"
      PROVE  heap[g].owner \in Object /\ heap[g].owner # o
  BY <1>1, <1>2 DEF OwnInv, TypeOK, HeapCell
<1> QED BY <1>1, <1>2 DEF OwnInv, Live, Constructing

(* The one constructor begins: the object owns nothing yet.                *)
LEMMA OwnConstructEnter ==
  ASSUME IndInv, OwnInv, MaxConstructs <= 1,
         NEW t \in Thread, NEW o \in Object, ConstructEnter(t, o)
  PROVE  OwnInv'
<1> USE NoneAssumption, BoundAssumption
<1>1. /\ TypeOK /\ built[o] = 0
      /\ UNCHANGED <<life, ctx, heap>>
      /\ built' = [built EXCEPT ![o] = 1]
  <2>1. built[o] \in Nat /\ built[o] < MaxConstructs
    BY DEF IndInv, TypeOK, ConstructEnter
  <2>2. built[o] = 0
    BY <2>1
  <2> QED BY <2>2 DEF IndInv, ConstructEnter
<1>2. /\ thr'[t].obj = o
      /\ \A u \in Thread : u # t => thr'[u] = thr[u]
  BY <1>1, MoveFacts DEF ConstructEnter, Enter, Pc, Kind
<1>3. built'[o] # 0 /\ \A p \in Object : p # o => built'[p] = built[p]
  BY <1>1 DEF TypeOK
<1>4. ASSUME NEW p \in Object, p # o, Constructing(p)'
      PROVE  Constructing(p)
  BY <1>2, <1>4 DEF Constructing
<1>5. ASSUME NEW g \in Handle, Live(g), heap[g].kind = "context"
      PROVE  heap[g].owner \in Object /\ heap[g].owner # o
  BY <1>1, <1>5 DEF OwnInv, TypeOK, HeapCell
<1> QED BY <1>1, <1>3, <1>4, <1>5 DEF OwnInv, Live

(* The destructor deletes the only context of its object.                  *)
LEMMA OwnFreeContext ==
  ASSUME IndInv, OwnInv, NEW t \in Thread, FreeContext(t)
  PROVE  OwnInv'
<1> USE NoneAssumption
<1> DEFINE o == thr[t].obj
           d == ctx[o]
<1>1. /\ TypeOK /\ o \in Object /\ d \in Handle \cup {None}
      /\ d # None => Live(d)
      /\ UNCHANGED <<ctx, built>>
      /\ life' = [life EXCEPT ![o] = "freed"]
  BY DEF IndInv, TypeOK, ThreadState, ThreadsInv, LifeInv, ContextField, FreePc, FreeContext
<1>2. /\ \A u \in Thread : u # t => thr'[u] = thr[u]
      /\ thr'[t].pc = "idle"
  BY <1>1, LeaveFacts DEF FreeContext
<1>3. ASSUME NEW g \in Handle, Live(g)'
      PROVE  g # d /\ heap'[g] = heap[g]
  <2>1. CASE d = None
    BY <1>3, <2>1 DEF FreeContext, Delete
  <2>2. CASE d # None
    BY <1>1, <1>3, <2>2, DeleteFacts DEF FreeContext, Live
  <2> QED BY <2>1, <2>2
<1>4. \A p \in Object : Constructing(p)' => Constructing(p)
  BY <1>2 DEF Constructing
<1>5. ASSUME NEW g \in Handle, Live(g)', heap'[g].kind = "context"
      PROVE  /\ Live(g) /\ heap'[g] = heap[g]
             /\ heap[g].owner \in Object /\ heap[g].owner # o
  BY <1>1, <1>3, <1>5 DEF OwnInv, TypeOK, HeapCell, Live
<1> QED BY <1>1, <1>4, <1>5 DEF OwnInv, TypeOK

(* With at most one constructor per object, every step preserves OwnInv.   *)
LEMMA OwnPreserved ==
  ASSUME IndInv, OwnInv, MaxConstructs <= 1, [Next]_vars
  PROVE  OwnInv'
<1>1. TypeOK
  BY DEF IndInv
<1>2. CASE UNCHANGED vars
  <2>1. UNCHANGED <<life, ctx, thr, heap, built>>
    BY <1>2 DEF vars
  <2> QED BY <1>1, <2>1, OwnFrame DEF Constructing
<1>3. CASE Stopped
  BY <1>2, <1>3 DEF Stopped
<1>4. ASSUME NEW t \in Thread, Begin(t)
      PROVE  OwnInv'
  <2>1. ASSUME NEW o \in Object, CreateHandler(t, o)
        PROVE  OwnInv'
    <3>1. UNCHANGED <<ctx, thr, heap, built>> /\ life' = [life EXCEPT ![o] = "raw"]
      BY <2>1 DEF CreateHandler
    <3> QED BY <1>1, <3>1, OwnFrame DEF Constructing, TypeOK
  <2>2. ASSUME NEW o \in Object, FreeEnter(t, o)
        PROVE  OwnInv'
    <3>1. UNCHANGED <<ctx, heap, built>> /\ life' = [life EXCEPT ![o] = "freeing"]
      BY <2>2 DEF FreeEnter
    <3>2. thr'[t].pc = "free_api" /\ \A u \in Thread : u # t => thr'[u] = thr[u]
      BY <1>1, <2>2, MoveFacts DEF FreeEnter, Enter, FirstKind, Pc, FreePc, Kind
    <3> QED BY <1>1, <3>1, <3>2, OwnFrame DEF Constructing, TypeOK
  <2>3. ASSUME NEW o \in Object, NEW k \in Kind, InitEnter(t, o, k) \/ CallEnter(t, o, k)
        PROVE  OwnInv'
    <3>1. UNCHANGED <<life, ctx, heap, built>>
      BY <2>3 DEF InitEnter, CallEnter
    <3>2. thr'[t].pc # "construct" /\ \A u \in Thread : u # t => thr'[u] = thr[u]
      BY <1>1, <2>3, MoveFacts DEF InitEnter, CallEnter, Enter, Pc, InitPc, CallPc
    <3> QED BY <1>1, <3>1, <3>2, OwnFrame DEF Constructing
  <2> QED BY <1>4, <2>1, <2>2, <2>3, OwnConstructEnter DEF Begin
<1>5. ASSUME NEW t \in Thread, Step(t)
      PROVE  OwnInv'
  <2>1. CASE ConstructNoConfig(t)
    <3>1. UNCHANGED <<life, ctx, thr, heap, built>>
      BY <2>1 DEF ConstructNoConfig, Exit
    <3> QED BY <1>1, <3>1, OwnFrame DEF Constructing
  <2>2. CASE \/ InitLock(t) \/ InitCheck(t) \/ InitCreateFails(t) \/ InitStore(t)
             \/ CallRead(t)
    <3>1. UNCHANGED <<life, ctx, heap, built>>
      BY <2>2 DEF InitLock, InitCheck, InitCreateFails, InitStore, CallRead
    <3>2. PICK pc \in InitPc \cup CallPc, h \in Handle \cup {None} :
            Move(t, pc, thr[t].obj, thr[t].kind, h)
      BY <1>1, <2>2 DEF InitLock, InitCheck, InitCreateFails, InitStore, CallRead, Goto,
                         InitPc, CallPc, IndInv, TypeOK, ThreadState, ThreadsInv
    <3>3. thr'[t].pc = pc /\ \A u \in Thread : u # t => thr'[u] = thr[u]
      BY <1>1, <3>2, MoveFacts DEF Pc, TypeOK, ThreadState
    <3> QED BY <1>1, <3>1, <3>2, <3>3, OwnFrame DEF Constructing, InitPc, CallPc
  <2>3. CASE InitUnlock(t) \/ CallSdk(t) \/ CallNull(t)
    <3>1. UNCHANGED <<life, ctx, heap, built>> /\ Leave(t)
      BY <2>3 DEF InitUnlock, CallSdk, CallNull
    <3>2. thr'[t].pc = "idle" /\ \A u \in Thread : u # t => thr'[u] = thr[u]
      BY <1>1, <3>1, LeaveFacts
    <3> QED BY <1>1, <3>1, <3>2, OwnFrame DEF Constructing
  <2>4. ASSUME NEW h \in Handle, InitCreate(t, h)
        PROVE  OwnInv'
    <3>1. UNCHANGED <<life, ctx, built>> /\ thr[t].obj \in Object \cup {None}
          /\ thr[t].kind \in Kind /\ ctx[thr[t].obj] \in Handle
      BY <2>4 DEF InitCreate, IndInv, TypeOK, ThreadState, ThreadsInv
    <3>2. thr'[t].pc = "init_store" /\ \A u \in Thread : u # t => thr'[u] = thr[u]
      BY <1>1, <2>4, <3>1, MoveFacts DEF InitCreate, Pc, InitPc
    <3>3. Allocate(h, thr[t].kind, ctx[thr[t].obj], thr[t].obj)
      BY <2>4 DEF InitCreate
    <3>4. heap'[h].kind \in Kind /\ \A g \in Handle : g # h => heap'[g] = heap[g]
      BY <1>1, <3>1, <3>3 DEF Allocate, TypeOK
    <3> QED BY <1>1, <3>1, <3>2, <3>4, OwnFrame DEF Constructing, Kind
  <2>5. CASE FreeApi(t)
    <3> DEFINE d == api[thr[t].obj][thr[t].kind]
    <3>1. /\ UNCHANGED <<life, ctx, built>>
          /\ thr[t].obj \in Object /\ thr[t].kind \in Kind /\ d \in Handle \cup {None}
      BY <2>5 DEF FreeApi, IndInv, TypeOK, ThreadState, ThreadsInv
    <3>2. thr'[t].pc # "construct" /\ \A u \in Thread : u # t => thr'[u] = thr[u]
      BY <1>1, <2>5, <3>1, MoveFacts DEF FreeApi, NextKind, Pc, FreePc, Kind
    <3>3. \A g \in Handle : Live(g)' => heap'[g] = heap[g]
      <4>1. CASE d = None
        BY <2>5, <4>1 DEF FreeApi, Delete
      <4>2. CASE d # None
        <5>1. Live(d)
          BY <2>5, <3>1, <4>2 DEF FreeApi, IndInv, FreeInv, Pending, Kind
        <5> QED BY <1>1, <2>5, <3>1, <4>2, <5>1, DeleteFacts DEF FreeApi, Live
      <4> QED BY <4>1, <4>2
    <3> QED BY <1>1, <3>1, <3>2, <3>3, OwnFrame DEF Constructing
  <2> QED BY <1>5, <2>1, <2>2, <2>3, <2>4, <2>5, OwnConstructContext, OwnConstructNoContext,
             OwnFreeContext DEF Step
<1> QED BY <1>2, <1>3, <1>4, <1>5 DEF Next

(* An object that is constructed at most once leaves nothing behind when   *)
(* it is freed.                                                            *)
THEOREM EverythingReleased ==
  ASSUME MaxConstructs <= 1
  PROVE  Spec => []NothingLeaked
<1>1. Init => OwnInv
  BY DEF Init, OwnInv, Idle, Unused, Live, Constructing
<1>2. IndInv /\ OwnInv /\ [Next]_vars => OwnInv'
  BY OwnPreserved
<1>3. IndInv /\ OwnInv => NothingLeaked
  <2>1. SUFFICES ASSUME IndInv, OwnInv, NEW h \in Handle, Live(h), heap[h].owner # None
                 PROVE  life[heap[h].owner] # "freed"
    BY DEF NothingLeaked
  <2>2. CASE heap[h].kind = "context"
    BY <2>1, <2>2 DEF OwnInv
  <2>3. CASE heap[h].kind \in Kind
    <3>1. /\ heap[h].ctx \in Handle /\ Live(heap[h].ctx)
          /\ heap[heap[h].ctx].kind = "context"
          /\ heap[heap[h].ctx].owner = heap[h].owner
      BY <2>1, <2>3 DEF IndInv, HomeInv, Home, TypeOK, HeapCell
    <3>2. life[heap[heap[h].ctx].owner] # "freed"
      BY <2>1, <3>1 DEF OwnInv
    <3> QED BY <3>1, <3>2
  <2> QED BY <2>1, <2>2, <2>3 DEF IndInv, TypeOK, HeapCell
<1> QED BY <1>1, <1>2, <1>3, Inductive, PTL DEF Spec
=============================================================================
