--------------------------- MODULE QuotaContract ---------------------------
(***************************************************************************)
(* What the scripts of a process may rely on when they ask for quota,      *)
(* without requests, windows that open lazily or answers on their way: one *)
(* budget that every script draws on in one step, a refusal only when what *)
(* is asked for is more than is left, and books that say how each call     *)
(* ended.                                                                  *)
(***************************************************************************)
EXTENDS Naturals

CONSTANTS
  Script,
  Demand,  \* what scripts ask for
  Quota    \* the budget

VARIABLES
  running, \* the process is there
  used,    \* what was granted of the budget
  holds,   \* holds[s]: "nothing", or the answer s has not reported on yet
  booked   \* booked[r]: calls reported to have been answered with r

cvars == <<running, used, holds, booked>>

Empty == [s \in Script |-> "nothing"]
Blank == [r \in {"grant", "refusal"} |-> 0]

CInit ==
  /\ running = TRUE
  /\ used = 0
  /\ holds = Empty
  /\ booked = Blank

Grant(s, n) ==
  /\ running
  /\ holds[s] = "nothing"
  /\ used + n <= Quota
  /\ used' = used + n
  /\ holds' = [holds EXCEPT ![s] = "grant"]
  /\ UNCHANGED <<running, booked>>

Refuse(s, n) ==
  /\ running
  /\ holds[s] = "nothing"
  /\ used + n > Quota
  /\ holds' = [holds EXCEPT ![s] = "refusal"]
  /\ UNCHANGED <<running, used, booked>>

(* The script reports how the call ended. *)
Book(s) ==
  /\ running
  /\ holds[s] # "nothing"
  /\ booked' = [booked EXCEPT ![holds[s]] = @ + 1]
  /\ holds' = [holds EXCEPT ![s] = "nothing"]
  /\ UNCHANGED <<running, used>>

(* The next period begins. *)
Renew ==
  /\ running
  /\ used' = 0
  /\ UNCHANGED <<running, holds, booked>>

(* The process dies; another one starts with nothing. *)
Die ==
  /\ running
  /\ running' = FALSE
  /\ UNCHANGED <<used, holds, booked>>

StartAgain ==
  /\ ~ running
  /\ running' = TRUE
  /\ used' = 0
  /\ holds' = Empty
  /\ booked' = Blank

CNext ==
  \/ \E s \in Script : Book(s) \/ \E n \in Demand : Grant(s, n) \/ Refuse(s, n)
  \/ Renew \/ Die \/ StartAgain

CSpec == CInit /\ [][CNext]_cvars
=============================================================================
