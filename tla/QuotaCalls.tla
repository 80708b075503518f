----------------------------- MODULE QuotaCalls -----------------------------
(***************************************************************************)
(* Scripts that run in one PHP process and ask its SDK for quota before    *)
(* they serve a request (polaris/limit_core.hpp): GetQuota, the work it    *)
(* allows, UpdateCallResult.  The window of the rule is local to the       *)
(* process (rateLimiter.mode: local).                                      *)
(***************************************************************************)
EXTENDS SdkRequests, FiniteSets

CONSTANTS
  Script,    \* scripts of the process, one for each thread
  Query,     \* the arrays they give to GetQuota and InitQuotaWindow
  TypeKey,   \* the key under which they report how a call ended
  Rule,      \* the rule of the service: [labels, quota]
  MaxCalls,  \* bound: quota answers in a run of the process
  MaxStarts, \* bound: runs of the process
  None

ASSUME QuotaAssumption ==
  /\ Rule.quota \in Nat
  /\ MaxCalls \in Nat
  /\ MaxStarts \in Nat \ {0}
  /\ None \notin Nat

VARIABLES
  starts,  \* runs of the process so far
  alive,   \* the process runs
  window,  \* the SDK's quota window: what is left of it, or None
  script,  \* script[s]: what s is doing
  taken,   \* quota the scripts were granted in this window, by their own arrays
  answers, \* answers[r]: calls of GetQuota the SDK answered with r
  reports  \* reports[t]: calls the SDK was told to have ended as t

vars == <<starts, alive, window, script, taken, answers, reports>>

-----------------------------------------------------------------------------
(* Requests and reports (polaris/limit_core.hpp).                          *)

(* Mutant: the types are spelt in lower case. *)
convertToLimitCallResultTypeLower(val) ==
  IF val = "limit" THEN "kLimitCallResultLimited"
  ELSE IF val = "failed" THEN "kLimitCallResultFailed"
  ELSE "kLimitCallResultOk"

convertToLimitCallResultType(val) ==
  IF val = "Limit" THEN "kLimitCallResultLimited"
  ELSE IF val = "Failed" THEN "kLimitCallResultFailed"
  ELSE "kLimitCallResultOk"

(* Mutant: no default for the amount. *)
ConvertToQuotaRequestNoDefault(a) ==
  LET params == TransferToStdMap(a) IN
  [QuotaRequest EXCEPT
     !.key            = ServiceKey(Text(params, "namespace"), Text(params, "service")),
     !.acquire_amount = Number(params, "amount"),
     !.labels         = Nested(a, "labels")]

(* An empty amount reads like an absent one; both become "1". *)
ConvertToQuotaRequest(a) ==
  LET params == TransferToStdMap(a) IN
  [QuotaRequest EXCEPT
     !.key            = ServiceKey(Text(params, "namespace"), Text(params, "service")),
     !.acquire_amount = IF "amount" \in DOMAIN params THEN Number(params, "amount") ELSE 1,
     !.labels         = Nested(a, "labels"),
     !.subset         = IF Found(a, "subset") THEN Nested(a, "subset") ELSE @]

DoUpdateCallResult(a) ==
  LET params == TransferToStdMap(a) IN
  [LimitCallResult EXCEPT
     !.key             = ServiceKey(Text(params, "namespace"), Text(params, "service")),
     !.subset          = Nested(a, "subset"),
     !.labels          = Nested(a, "labels"),
     !.response_result = convertToLimitCallResultType(Text(params, "response_type"))]

-----------------------------------------------------------------------------
(* The rule and the window, inside the SDK.                                *)

Limits(req) ==
  \A k \in DOMAIN Rule.labels : k \in DOMAIN req.labels /\ req.labels[k] = Rule.labels[k]

Left == IF window = None THEN Rule.quota ELSE window

(* Mutants: whatever is left is enough; the last units are kept back. *)
WithinAnything(req) == ~ Limits(req) \/ Left > 0

WithinNeverAll(req) == ~ Limits(req) \/ req.acquire_amount < Left

Within(req) == ~ Limits(req) \/ req.acquire_amount <= Left

Result(req) == IF Within(req) THEN "kQuotaResultOk" ELSE "kQuotaResultLimited"

-----------------------------------------------------------------------------
(***************************************************************************)
(* A script.  pc "answered": the SDK has answered, DoGetQuota goes on with *)
(* the answer; "told": the script has it.                                  *)
(***************************************************************************)
Idle == [pc |-> "idle", result |-> "none"]

Answered == {"kQuotaResultOk", "kQuotaResultLimited"}

(* What the script's array asks for, by limit.h and the documentation. *)
Amount(a) == IF "amount" \in DOMAIN a THEN a["amount"] ELSE 1

ASSUME QueryAssumption == \A a \in Query : Amount(a) \in Nat

NoAnswers == [r \in Answered |-> 0]
NoReports == [t \in LimitCallResultType |-> 0]

Fresh ==
  /\ window' = None
  /\ script' = [s \in Script |-> Idle]
  /\ taken' = 0
  /\ answers' = NoAnswers
  /\ reports' = NoReports

Init ==
  /\ starts = 1
  /\ alive = TRUE
  /\ window = None
  /\ script = [s \in Script |-> Idle]
  /\ taken = 0
  /\ answers = NoAnswers
  /\ reports = NoReports

(* A supervisor starts the process again, with a new SDK. *)
Restart ==
  /\ ~ alive
  /\ starts < MaxStarts
  /\ starts' = starts + 1
  /\ alive' = TRUE
  /\ Fresh

Calls == answers["kQuotaResultOk"] + answers["kQuotaResultLimited"]

(* LimitApi::GetQuota with the request DoGetQuota builds.  It opens the    *)
(* window if InitQuotaWindow did not.  A call that fails, because the SDK  *)
(* has no rules in time, tells the script so and changes nothing.          *)
GetQuota(s, a) ==
  LET req == ConvertToQuotaRequest(a) IN
  /\ alive
  /\ script[s].pc = "idle"
  /\ Calls < MaxCalls
  /\ script' = [script EXCEPT ![s] = [pc |-> "answered", result |-> Result(req)]]
  /\ answers' = [answers EXCEPT ![Result(req)] = @ + 1]
  /\ window' = IF Limits(req) THEN IF Within(req) THEN Left - req.acquire_amount ELSE Left
               ELSE window
  /\ taken' = IF Within(req) THEN taken + Amount(a) ELSE taken
  /\ UNCHANGED <<starts, alive, reports>>

(* DoGetQuota builds the array of the answer behind a pointer it never set *)
(* (limit_core.hpp:199): it happens to be usable ...                       *)
GetQuotaReturns(s) ==
  /\ alive
  /\ script[s].pc = "answered"
  /\ script' = [script EXCEPT ![s].pc = "told"]
  /\ UNCHANGED <<starts, alive, window, taken, answers, reports>>

(* ... or the process dies, with all its scripts. *)
GetQuotaDies(s) ==
  /\ alive
  /\ script[s].pc = "answered"
  /\ alive' = FALSE
  /\ UNCHANGED <<starts, window, script, taken, answers, reports>>

(* LimitApi::InitQuotaWindow, with a request of the same kind. *)
InitQuotaWindow(s, a) ==
  /\ alive
  /\ script[s].pc = "idle"
  /\ Limits(ConvertToQuotaRequest(a))
  /\ window = None
  /\ window' = Rule.quota
  /\ UNCHANGED <<starts, alive, script, taken, answers, reports>>

(* How a call ended, and the array that says so. *)
Ended(s) == IF script[s].result = "kQuotaResultLimited" THEN {"Limit"} ELSE {"OK", "Failed"}

ReportArray(a, outcome) == [k \in {"namespace", "service", TypeKey} |->
                              IF k = TypeKey THEN outcome ELSE Text(a, k)]

UpdateCallResult(s, a, outcome) ==
  LET result == DoUpdateCallResult(ReportArray(a, outcome)) IN
  /\ alive
  /\ script[s].pc = "told"
  /\ outcome \in Ended(s)
  /\ script' = [script EXCEPT ![s] = Idle]
  /\ reports' = [reports EXCEPT ![result.response_result] = @ + 1]
  /\ UNCHANGED <<starts, alive, window, taken, answers>>

(* The window is over, and the next one begins. *)
NextWindow ==
  /\ alive
  /\ window # None
  /\ window' = Rule.quota
  /\ taken' = 0
  /\ UNCHANGED <<starts, alive, script, answers, reports>>

Next ==
  \/ \E s \in Script :
       \/ GetQuotaReturns(s) \/ GetQuotaDies(s)
       \/ \E a \in Query :
            \/ GetQuota(s, a) \/ InitQuotaWindow(s, a)
            \/ \E outcome \in {"OK", "Failed", "Limit"} : UpdateCallResult(s, a, outcome)
  \/ NextWindow \/ Restart

Spec == Init /\ [][Next]_vars
-----------------------------------------------------------------------------
(* Properties.                                                             *)

(* Type invariant. *)
TypeOK ==
  /\ starts \in 1 .. MaxStarts
  /\ alive \in BOOLEAN
  /\ window \in 0 .. Rule.quota \cup {None}
  /\ script \in [Script -> [pc : {"idle", "answered", "told"}, result : Answered \cup {"none"}]]
  /\ taken \in Nat
  /\ answers \in [Answered -> 0 .. MaxCalls]
  /\ reports \in [LimitCallResultType -> Nat]

(* Within a window the scripts of a process are granted no more than the   *)
(* quota of a rule for all callers, counted by what their arrays ask for   *)
(* and not by what the requests say: an amount left out stands for one.    *)
GrantedWithinQuota ==
  Rule.labels = EmptyMap => taken <= Rule.quota

(* What the SDK was told of the calls agrees with what it had answered:    *)
(* every granted call is reported as ok or failed and every limited one as *)
(* limited, except those the scripts have not come back from yet.          *)
Open(result) == {s \in Script : script[s].pc # "idle" /\ script[s].result = result}

AccountsSettled ==
  /\ answers["kQuotaResultOk"] =
       reports["kLimitCallResultOk"] + reports["kLimitCallResultFailed"]
         + Cardinality(Open("kQuotaResultOk"))
  /\ answers["kQuotaResultLimited"] =
       reports["kLimitCallResultLimited"] + Cardinality(Open("kQuotaResultLimited"))

(* Under a rule for all callers, the scripts of a process see the one      *)
(* budget of QuotaContract: what their arrays ask for is granted or        *)
(* refused in one step, refused only when too little is left, and booked   *)
(* as what it was.                                                         *)
Holding(s) ==
  IF script[s].pc = "idle" THEN "nothing"
  ELSE IF script[s].result = "kQuotaResultOk" THEN "grant" ELSE "refusal"

Booked ==
  [r \in {"grant", "refusal"} |->
     IF r = "refusal" THEN reports["kLimitCallResultLimited"]
     ELSE reports["kLimitCallResultOk"] + reports["kLimitCallResultFailed"]]

Contract == INSTANCE QuotaContract WITH
  Demand  <- {Amount(a) : a \in Query},
  Quota   <- Rule.quota,
  running <- alive,
  used    <- taken,
  holds   <- [s \in Script |-> Holding(s)],
  booked  <- Booked

ImplementsContract == Contract!CSpec

(* An answer of the SDK reaches the script that asked (the array in the    *)
(* comment of DoGetQuota, whose quota_result is there when the code is 0). *)
AnswerDelivered ==
  \A s \in Script : script[s].pc = "answered" => alive
=============================================================================
