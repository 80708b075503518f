--------------------------- MODULE ClientContract ---------------------------
(***************************************************************************)
(* What a PolarisClient object promises a PHP script, without pointers,    *)
(* locks or intermediate states: an InitX enables a capability in one      *)
(* step, an API call is served exactly when its capability is enabled at   *)
(* one instant between its begin and its return, and an object is only     *)
(* destroyed when no call is open on it.                                   *)
(***************************************************************************)

CONSTANTS Object, Thread, Kind, None

VARIABLES
  running, \* the PHP process exists
  phase,   \* phase[o]: "none", "raw" (no constructor run), "built", "gone"
  ready,   \* ready[o]: the capabilities enabled on o
  call     \* call[t]: the API call thread t has open

cvars == <<running, phase, ready, call>>

NoCall == [obj |-> None, kind |-> None, outcome |-> "none"]

Open(o) == \E t \in Thread : call[t].obj = o

CInit ==
  /\ running = TRUE
  /\ phase = [o \in Object |-> "none"]
  /\ ready = [o \in Object |-> {}]
  /\ call  = [t \in Thread |-> NoCall]

Allocate(o) ==
  /\ running
  /\ phase[o] = "none"
  /\ phase' = [phase EXCEPT ![o] = "raw"]
  /\ UNCHANGED <<running, ready, call>>

(* A constructor starts the object afresh. *)
Construct(o) ==
  /\ running
  /\ phase[o] \in {"raw", "built"}
  /\ ~ Open(o)
  /\ phase' = [phase EXCEPT ![o] = "built"]
  /\ ready' = [ready EXCEPT ![o] = {}]
  /\ UNCHANGED <<running, call>>

(* A constructor that fails takes the process with it. *)
ConstructFails(o) ==
  /\ running
  /\ phase[o] \in {"raw", "built"}
  /\ ~ Open(o)
  /\ running' = FALSE
  /\ ready' \in {ready, [ready EXCEPT ![o] = {}]}
  /\ UNCHANGED <<phase, call>>

(* A successful InitX on a constructed object. *)
Enable(o, k) ==
  /\ running
  /\ phase[o] = "built"
  /\ k \notin ready[o]
  /\ ready' = [ready EXCEPT ![o] = @ \cup {k}]
  /\ UNCHANGED <<running, phase, call>>

Request(t, o, k) ==
  /\ running
  /\ call[t] = NoCall
  /\ phase[o] \in {"raw", "built"}
  /\ call' = [call EXCEPT ![t] = [obj |-> o, kind |-> k, outcome |-> "pending"]]
  /\ UNCHANGED <<running, phase, ready>>

(* The one instant that decides: served by the SDK, or refused with -1. *)
Decide(t) ==
  LET o == call[t].obj
      k == call[t].kind IN
  /\ running
  /\ call[t].outcome = "pending"
  /\ call' = [call EXCEPT ![t] =
                [obj |-> o, kind |-> k,
                 outcome |-> IF k \in ready[o] THEN "served" ELSE "refused"]]
  /\ UNCHANGED <<running, phase, ready>>

Return(t) ==
  /\ running
  /\ call[t].outcome \in {"served", "refused"}
  /\ call' = [call EXCEPT ![t] = NoCall]
  /\ UNCHANGED <<running, phase, ready>>

Destroy(o) ==
  /\ running
  /\ phase[o] \in {"raw", "built"}
  /\ ~ Open(o)
  /\ phase' = [phase EXCEPT ![o] = "gone"]
  /\ ready' = [ready EXCEPT ![o] = {}]
  /\ UNCHANGED <<running, call>>

CNext ==
  \/ \E o \in Object :
       \/ Allocate(o) \/ Construct(o) \/ ConstructFails(o) \/ Destroy(o)
       \/ \E k \in Kind : Enable(o, k)
  \/ \E t \in Thread :
       \/ Decide(t) \/ Return(t)
       \/ \E o \in Object, k \in Kind : Request(t, o, k)

CSpec == CInit /\ [][CNext]_cvars
=============================================================================
