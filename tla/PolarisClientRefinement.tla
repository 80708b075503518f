---------------------- MODULE PolarisClientRefinement ----------------------
(* PolarisClient implements ClientContract.  A capability is enabled once  *)
(* the API pointer is stored; a call decides when it reads the pointer; an *)
(* object is destroyed when polaris_core_free_storage begins.              *)
EXTENDS PolarisClient

PhaseOf(o) ==
  IF life[o] = "ready" THEN "built"
  ELSE IF life[o] \in {"freeing", "freed"} THEN "gone"
  ELSE life[o]

ReadyOf(o) ==
  IF Usable(o) THEN {k \in Kind : api[o][k] # None} ELSE {}

OutcomeOf(pc) ==
  IF pc = "call_read" THEN "pending"
  ELSE IF pc = "call_sdk" THEN "served" ELSE "refused"

CallOf(t) ==
  IF thr[t].pc \in CallPc
  THEN [obj |-> thr[t].obj, kind |-> thr[t].kind, outcome |-> OutcomeOf(thr[t].pc)]
  ELSE [obj |-> None, kind |-> None, outcome |-> "none"]

Contract == INSTANCE ClientContract WITH
  running <- up,
  phase   <- [o \in Object |-> PhaseOf(o)],
  ready   <- [o \in Object |-> ReadyOf(o)],
  call    <- [t \in Thread |-> CallOf(t)]

(* Whatever the threads interleave, a script sees the atomic object of     *)
(* ClientContract: InitX takes effect at once, a call is refused only if   *)
(* its InitX had not succeeded when the pointer was read.                  *)
ImplementsContract == Contract!CSpec
=============================================================================
