-------------------------- MODULE QuotaCallsProofs --------------------------
(* What holds of QuotaCalls for every set of scripts, queries and rules    *)
(* and every number of calls and runs.                                     *)
EXTENDS QuotaCalls, FiniteSetTheorems, TLAPS

(* DoGetQuota asks for what the array of the script asks for.              *)
LEMMA AmountAsked ==
  ASSUME NEW a \in Query
  PROVE  /\ ConvertToQuotaRequest(a).acquire_amount = Amount(a)
         /\ Amount(a) \in Nat
<1> DEFINE params == TransferToStdMap(a)
<1>1. DOMAIN params = DOMAIN a \ ArrayKey /\ (\A k \in DOMAIN params : params[k] = a[k])
  BY DEF TransferToStdMap
<1>2. ("amount" \in DOMAIN params <=> "amount" \in DOMAIN a)
      /\ ("amount" \in DOMAIN params => params["amount"] = a["amount"])
  BY <1>1 DEF ArrayKey
<1>3. ConvertToQuotaRequest(a).acquire_amount =
        IF "amount" \in DOMAIN params THEN Number(params, "amount") ELSE 1
  BY DEF ConvertToQuotaRequest, QuotaRequest
<1> QED BY <1>2, <1>3, QueryAssumption DEF Number, Amount

(* What is left of the window is a part of the quota.                      *)
LEMMA LeftIsQuota == TypeOK => Left \in 0 .. Rule.quota
BY QuotaAssumption DEF TypeOK, Left

LEMMA ResultAnswered ==
  ASSUME NEW req
  PROVE  /\ Result(req) \in Answered
         /\ Within(req) => Result(req) = "kQuotaResultOk"
         /\ ~ Within(req) => Result(req) = "kQuotaResultLimited"
BY DEF Result, Answered

LEMMA ReportedType ==
  ASSUME NEW a
  PROVE  DoUpdateCallResult(a).response_result =
           convertToLimitCallResultType(Text(TransferToStdMap(a), "response_type"))
BY DEF DoUpdateCallResult, LimitCallResult

LEMMA TypeInit == Init => TypeOK
BY QuotaAssumption DEF Init, TypeOK, Idle, NoAnswers, NoReports, Answered

LEMMA TypeStep == TypeOK /\ [Next]_vars => TypeOK'
<1> SUFFICES ASSUME TypeOK, [Next]_vars PROVE TypeOK'
  OBVIOUS
<1> USE QuotaAssumption
<1>1. CASE UNCHANGED vars
  BY <1>1 DEF TypeOK, vars
<1>2. ASSUME NEW s \in Script, GetQuotaReturns(s) PROVE TypeOK'
  BY <1>2 DEF GetQuotaReturns, TypeOK
<1>3. ASSUME NEW s \in Script, GetQuotaDies(s) PROVE TypeOK'
  BY <1>3 DEF GetQuotaDies, TypeOK
<1>4. ASSUME NEW s \in Script, NEW a \in Query, GetQuota(s, a) PROVE TypeOK'
  <2> DEFINE req == ConvertToQuotaRequest(a)
  <2>1. req.acquire_amount = Amount(a) /\ Amount(a) \in Nat
    BY AmountAsked
  <2>2. Result(req) \in Answered
    BY ResultAnswered
  <2>3. Left \in 0 .. Rule.quota
    BY LeftIsQuota
  <2> HIDE DEF req
  <2>4. (window \in 0 .. Rule.quota \cup {None})'
    BY <1>4, <2>1, <2>3 DEF GetQuota, TypeOK, Within, req
  <2>5. (script \in [Script -> [pc : {"idle", "answered", "told"},
                                result : Answered \cup {"none"}]])'
    BY <1>4, <2>2 DEF GetQuota, TypeOK, req
  <2>6. taken' \in Nat
    BY <1>4, <2>1 DEF GetQuota, TypeOK
  <2>7. answers' \in [Answered -> 0 .. MaxCalls]
    <3>1. answers["kQuotaResultOk"] + answers["kQuotaResultLimited"] < MaxCalls
      BY <1>4 DEF GetQuota, Calls
    <3>2. \A r \in Answered : answers[r] \in Nat /\ answers[r] + 1 <= MaxCalls
      BY <3>1 DEF TypeOK, Answered
    <3> QED BY <1>4, <2>2, <3>2 DEF GetQuota, TypeOK, req
  <2> QED BY <1>4, <2>4, <2>5, <2>6, <2>7 DEF GetQuota, TypeOK
<1>5. ASSUME NEW s \in Script, NEW a \in Query, InitQuotaWindow(s, a) PROVE TypeOK'
  BY <1>5 DEF InitQuotaWindow, TypeOK
<1>6. ASSUME NEW s \in Script, NEW a \in Query, NEW outcome \in {"OK", "Failed", "Limit"},
             UpdateCallResult(s, a, outcome)
      PROVE  TypeOK'
  <2> DEFINE t == DoUpdateCallResult(ReportArray(a, outcome)).response_result
  <2>1. t \in LimitCallResultType
    BY ReportedType DEF convertToLimitCallResultType, LimitCallResultType
  <2>2. reports' = [reports EXCEPT ![t] = @ + 1]
    BY <1>6 DEF UpdateCallResult
  <2> HIDE DEF t
  <2>3. reports' \in [LimitCallResultType -> Nat]
    BY <2>1, <2>2 DEF TypeOK
  <2> QED BY <1>6, <2>3 DEF UpdateCallResult, TypeOK, Idle
<1>7. CASE NextWindow
  BY <1>7 DEF NextWindow, TypeOK
<1>8. CASE Restart
  BY <1>8 DEF Restart, Fresh, TypeOK, Idle, NoAnswers, NoReports, Answered
<1> QED BY <1>1, <1>2, <1>3, <1>4, <1>5, <1>6, <1>7, <1>8 DEF Next

(* The variables always have the shape TypeOK states.                      *)
THEOREM TypeCorrect == Spec => []TypeOK
BY TypeInit, TypeStep, PTL DEF Spec

-----------------------------------------------------------------------------
(* A rule for all callers: what was granted and what is left of the window *)
(* add up to its quota.                                                    *)
Balance == Rule.labels = EmptyMap => taken + Left = Rule.quota

LEMMA RuleLimitsAll ==
  ASSUME Rule.labels = EmptyMap, NEW req
  PROVE  Limits(req)
BY DEF Limits, EmptyMap

LEMMA BalanceInit == Init => Balance
BY QuotaAssumption DEF Init, Balance, Left

LEMMA BalanceStep == TypeOK /\ Balance /\ [Next]_vars => Balance'
<1> SUFFICES ASSUME TypeOK, Balance, [Next]_vars, Rule.labels = EmptyMap
             PROVE  (taken + Left = Rule.quota)'
  BY DEF Balance
<1>0. taken + Left = Rule.quota /\ Left \in 0 .. Rule.quota /\ taken \in Nat
  BY LeftIsQuota DEF Balance, TypeOK
<1>a. ASSUME UNCHANGED <<taken, window>> PROVE (taken + Left = Rule.quota)'
  BY <1>0, <1>a DEF Left
<1>1. CASE UNCHANGED vars
  BY <1>1, <1>a DEF vars
<1>2. ASSUME NEW s \in Script, GetQuotaReturns(s) \/ GetQuotaDies(s)
      PROVE  (taken + Left = Rule.quota)'
  BY <1>2, <1>a DEF GetQuotaReturns, GetQuotaDies
<1>3. ASSUME NEW s \in Script, NEW a \in Query, GetQuota(s, a)
      PROVE  (taken + Left = Rule.quota)'
  <2> DEFINE req == ConvertToQuotaRequest(a)
  <2>1. req.acquire_amount = Amount(a) /\ Amount(a) \in Nat
    BY AmountAsked
  <2>2. Limits(req)
    BY RuleLimitsAll
  <2> HIDE DEF req
  <2>3. window' = IF Within(req) THEN Left - Amount(a) ELSE Left
    BY <1>3, <2>1, <2>2 DEF GetQuota, req
  <2>4. taken' = IF Within(req) THEN taken + Amount(a) ELSE taken
    BY <1>3 DEF GetQuota, req
  <2>5. Within(req) => Amount(a) <= Left
    BY <2>1, <2>2 DEF Within
  <2>6. window' \in Nat
    BY <1>0, <2>1, <2>3, <2>5
  <2>7. Left' = window'
    BY <2>6, QuotaAssumption DEF Left
  <2> QED BY <1>0, <2>1, <2>3, <2>4, <2>7
<1>4. ASSUME NEW s \in Script, NEW a \in Query, InitQuotaWindow(s, a)
      PROVE  (taken + Left = Rule.quota)'
  BY <1>0, <1>4, QuotaAssumption DEF InitQuotaWindow, Left
<1>5. ASSUME NEW s \in Script, NEW a \in Query, NEW outcome \in {"OK", "Failed", "Limit"},
             UpdateCallResult(s, a, outcome)
      PROVE  (taken + Left = Rule.quota)'
  BY <1>5, <1>a DEF UpdateCallResult
<1>6. CASE NextWindow
  BY <1>6, QuotaAssumption DEF NextWindow, Left
<1>7. CASE Restart
  BY <1>7, QuotaAssumption DEF Restart, Fresh, Left
<1> QED BY <1>1, <1>2, <1>3, <1>4, <1>5, <1>6, <1>7 DEF Next

(* The scripts of a process never get more than the quota of a rule that   *)
(* holds for all callers, whatever they ask for and in whatever order.     *)
THEOREM NeverOvercommitted == Spec => []GrantedWithinQuota
<1>1. TypeOK /\ Balance => GrantedWithinQuota
  BY LeftIsQuota, QuotaAssumption DEF Balance, GrantedWithinQuota, TypeOK
<1> QED BY <1>1, TypeInit, TypeStep, BalanceInit, BalanceStep, PTL DEF Spec
-----------------------------------------------------------------------------
(* The accounts of the SDK.                                                *)

(* A script that is inside a call knows how the SDK answered it.           *)
OpenAnswered == \A s \in Script : script[s].pc # "idle" => script[s].result \in Answered

Accounts == OpenAnswered /\ AccountsSettled

(* Under the key the extension reads, a report says what the script says.  *)
LEMMA OutcomeReported ==
  ASSUME TypeKey = "response_type", NEW a, NEW outcome
  PROVE  DoUpdateCallResult(ReportArray(a, outcome)).response_result =
           convertToLimitCallResultType(outcome)
<1> DEFINE report == ReportArray(a, outcome)
           params == TransferToStdMap(report)
<1>1. "response_type" \in DOMAIN report /\ report["response_type"] = outcome
  BY DEF ReportArray
<1>2. "response_type" \in DOMAIN params /\ params["response_type"] = outcome
  BY <1>1 DEF TransferToStdMap, ArrayKey
<1>3. Text(params, "response_type") = outcome
  BY <1>2 DEF Text
<1> QED BY <1>3, ReportedType

LEMMA OpenFinite ==
  ASSUME IsFiniteSet(Script), NEW r
  PROVE  IsFiniteSet(Open(r)) /\ Cardinality(Open(r)) \in Nat
<1>1. Open(r) \subseteq Script
  BY DEF Open
<1> QED BY <1>1, FS_Subset, FS_CardinalityType

(* A script that begins or ends a call joins or leaves the open calls.     *)
LEMMA OpenJoined ==
  ASSUME IsFiniteSet(Script), TypeOK, NEW s \in Script, NEW r \in Answered,
         script[s].pc = "idle",
         script' = [script EXCEPT ![s] = [pc |-> "answered", result |-> r]]
  PROVE  \A q \in Answered :
           Cardinality(Open(q)') = Cardinality(Open(q)) + IF q = r THEN 1 ELSE 0
<1>1. Open(r)' = Open(r) \cup {s} /\ s \notin Open(r)
  BY DEF Open, TypeOK
<1>2. \A q \in Answered : q # r => Open(q)' = Open(q)
  BY DEF Open, TypeOK
<1>3. Cardinality(Open(r)') = Cardinality(Open(r)) + 1
  BY <1>1, OpenFinite, FS_AddElement
<1>4. \A q \in Answered : Cardinality(Open(q)) \in Nat
  BY OpenFinite
<1>5. ASSUME NEW q \in Answered, q # r
      PROVE  Cardinality(Open(q)') = Cardinality(Open(q)) + 0
  <2>1. Open(q)' = Open(q)
    BY <1>2, <1>5
  <2>2. Cardinality(Open(q)') = Cardinality(Open(q))
    BY <2>1
  <2> QED BY <2>2, <1>4
<1> QED BY <1>3, <1>5

LEMMA OpenLeft ==
  ASSUME IsFiniteSet(Script), TypeOK, NEW s \in Script, NEW r \in Answered,
         script[s].pc # "idle", script[s].result = r, script' = [script EXCEPT ![s] = Idle]
  PROVE  \A q \in Answered :
           Cardinality(Open(q)) = Cardinality(Open(q)') + IF q = r THEN 1 ELSE 0
<1>1. Open(r)' = Open(r) \ {s} /\ s \in Open(r)
  BY DEF Open, TypeOK, Idle
<1>2. \A q \in Answered : q # r => Open(q)' = Open(q)
  BY DEF Open, TypeOK, Idle
<1>4. \A q \in Answered : Cardinality(Open(q)) \in Nat
  BY OpenFinite
<1>3. Cardinality(Open(r)) = Cardinality(Open(r)') + 1
  <2>1. Cardinality(Open(r)') = Cardinality(Open(r)) - 1
    BY <1>1, OpenFinite, FS_RemoveElement
  <2> QED BY <2>1, <1>4
<1>5. ASSUME NEW q \in Answered, q # r
      PROVE  Cardinality(Open(q)) = Cardinality(Open(q)') + 0
  <2>1. Open(q)' = Open(q)
    BY <1>2, <1>5
  <2>2. Cardinality(Open(q)') = Cardinality(Open(q))
    BY <2>1
  <2> QED BY <2>2, <1>4
<1> QED BY <1>3, <1>5

LEMMA NothingOpen ==
  ASSUME script = [s \in Script |-> Idle]
  PROVE  OpenAnswered /\ \A r : Cardinality(Open(r)) = 0
<1>1. \A r : Open(r) = {}
  BY DEF Open, Idle
<1> QED BY <1>1, FS_EmptySet DEF OpenAnswered, Idle

LEMMA AccountsInit == Init => Accounts
BY NothingOpen DEF Init, Accounts, AccountsSettled, NoAnswers, NoReports, Answered,
                   LimitCallResultType

LEMMA AccountsStep ==
  ASSUME TypeKey = "response_type", IsFiniteSet(Script), TypeOK, Accounts, [Next]_vars
  PROVE  Accounts'
<1> USE DEF Accounts
<1>0. /\ \A q \in Answered : answers[q] \in Nat
      /\ \A t \in LimitCallResultType : reports[t] \in Nat
      /\ \A q \in Answered : Cardinality(Open(q)) \in Nat
  BY OpenFinite DEF TypeOK
<1>a. ASSUME UNCHANGED <<answers, reports>>, Open("kQuotaResultOk")' = Open("kQuotaResultOk"),
             Open("kQuotaResultLimited")' = Open("kQuotaResultLimited")
      PROVE  AccountsSettled'
  BY <1>a DEF AccountsSettled
<1>b. ASSUME UNCHANGED <<answers, reports, script>> PROVE Accounts'
  BY <1>b DEF AccountsSettled, OpenAnswered, Open
<1>1. CASE UNCHANGED vars
  BY <1>1, <1>b DEF vars
<1>2. ASSUME NEW s \in Script, GetQuotaReturns(s) PROVE Accounts'
  <2>1. \A u \in Script : script'[u].result = script[u].result
                          /\ (script'[u].pc = "idle" <=> script[u].pc = "idle")
    BY <1>2 DEF GetQuotaReturns, TypeOK
  <2>2. \A r : Open(r)' = Open(r)
    BY <2>1 DEF Open
  <2> QED BY <1>2, <1>a, <2>1, <2>2 DEF GetQuotaReturns, OpenAnswered
<1>3. ASSUME NEW s \in Script, GetQuotaDies(s) PROVE Accounts'
  BY <1>3, <1>b DEF GetQuotaDies
<1>4. ASSUME NEW s \in Script, NEW a \in Query, GetQuota(s, a) PROVE Accounts'
  <2>1. PICK r \in Answered : r = Result(ConvertToQuotaRequest(a))
    BY ResultAnswered
  <2>2. /\ script[s].pc = "idle" /\ reports' = reports
        /\ script' = [script EXCEPT ![s] = [pc |-> "answered", result |-> r]]
        /\ answers' = [answers EXCEPT ![r] = @ + 1]
    BY <1>4, <2>1 DEF GetQuota
  <2>3. \A q \in Answered :
          Cardinality(Open(q)') = Cardinality(Open(q)) + IF q = r THEN 1 ELSE 0
    BY <2>1, <2>2, OpenJoined
  <2>4. \A q \in Answered : answers'[q] = answers[q] + IF q = r THEN 1 ELSE 0
    BY <1>0, <2>1, <2>2 DEF TypeOK
  <2>5. OpenAnswered'
    BY <2>1, <2>2 DEF OpenAnswered, TypeOK
  <2>6. AccountsSettled'
    <3>1. "kQuotaResultOk" \in Answered /\ "kQuotaResultLimited" \in Answered
          /\ {"kLimitCallResultOk", "kLimitCallResultFailed", "kLimitCallResultLimited"}
               \subseteq LimitCallResultType
      BY DEF Answered, LimitCallResultType
    <3> QED BY <3>1, <1>0, <2>2, <2>3, <2>4 DEF AccountsSettled
  <2> QED BY <2>5, <2>6
<1>5. ASSUME NEW s \in Script, NEW a \in Query, InitQuotaWindow(s, a) PROVE Accounts'
  BY <1>5, <1>b DEF InitQuotaWindow
<1>6. ASSUME NEW s \in Script, NEW a \in Query, NEW outcome \in {"OK", "Failed", "Limit"},
             UpdateCallResult(s, a, outcome)
      PROVE  Accounts'
  <2> DEFINE t == convertToLimitCallResultType(outcome)
  <2>1. script[s].pc # "idle" /\ script' = [script EXCEPT ![s] = Idle] /\ answers' = answers
    BY <1>6 DEF UpdateCallResult
  <2>2. PICK r \in Answered : script[s].result = r
    BY <2>1 DEF OpenAnswered
  <2>3. reports' = [reports EXCEPT ![t] = @ + 1]
    BY <1>6, OutcomeReported DEF UpdateCallResult
  <2>4. IF r = "kQuotaResultLimited" THEN t = "kLimitCallResultLimited"
        ELSE t \in {"kLimitCallResultOk", "kLimitCallResultFailed"}
    BY <1>6, <2>2 DEF UpdateCallResult, Ended, convertToLimitCallResultType
  <2> HIDE DEF t
  <2>5. \A q \in Answered :
          Cardinality(Open(q)) = Cardinality(Open(q)') + IF q = r THEN 1 ELSE 0
    BY <2>1, <2>2, OpenLeft
  <2>6. \A u \in LimitCallResultType : reports'[u] = reports[u] + IF u = t THEN 1 ELSE 0
    BY <1>0, <2>3, <2>4 DEF LimitCallResultType, TypeOK
  <2>7. OpenAnswered'
    BY <2>1 DEF OpenAnswered, TypeOK, Idle
  <2>8. AccountsSettled'
    <3>1. "kQuotaResultOk" \in Answered /\ "kQuotaResultLimited" \in Answered
          /\ r \in {"kQuotaResultOk", "kQuotaResultLimited"}
          /\ {"kLimitCallResultOk", "kLimitCallResultFailed", "kLimitCallResultLimited"}
               \subseteq LimitCallResultType
      BY <2>2 DEF Answered, LimitCallResultType
    <3>2. \A q \in Answered : Cardinality(Open(q)') \in Nat
      <4>1. IsFiniteSet(Script)'
        OBVIOUS
      <4>2. \A q \in Answered : Open(q)' \subseteq Script
        BY DEF Open
      <4> QED BY <4>2, FS_Subset, FS_CardinalityType
    <3> QED BY <3>1, <3>2, <1>0, <2>1, <2>4, <2>5, <2>6 DEF AccountsSettled
  <2> QED BY <2>7, <2>8
<1>7. CASE NextWindow
  BY <1>7, <1>b DEF NextWindow
<1>8. CASE Restart
  <2>1. \A r : Open(r)' = {}
    BY <1>8 DEF Restart, Fresh, Open, Idle
  <2>2. \A r : Cardinality(Open(r)') = 0
    BY <2>1, FS_EmptySet
  <2> QED BY <1>8, <2>2 DEF Restart, Fresh, AccountsSettled, OpenAnswered, Idle, NoAnswers,
                            NoReports, Answered, LimitCallResultType
<1> QED BY <1>1, <1>2, <1>3, <1>4, <1>5, <1>6, <1>7, <1>8 DEF Next

(* Scripts that report under the key limit_core.hpp reads leave the SDK    *)
(* with accounts that agree with what it had answered.                     *)
THEOREM ReportsAddUp ==
  ASSUME TypeKey = "response_type", IsFiniteSet(Script)
  PROVE  Spec => []AccountsSettled
<1>1. TypeOK /\ Accounts /\ [Next]_vars => Accounts'
  BY AccountsStep
<1>2. Accounts => AccountsSettled
  BY DEF Accounts
<1> QED BY <1>1, <1>2, TypeInit, TypeStep, AccountsInit, PTL DEF Spec

-----------------------------------------------------------------------------
(* The scripts of a process see the budget of QuotaContract.               *)

Holds == [s \in Script |-> Holding(s)]

(* Inside a call, a script has an answer.                                  *)
LEMMA OpenInit == Init => OpenAnswered
BY DEF Init, OpenAnswered, Idle

LEMMA OpenStep ==
  ASSUME TypeOK, OpenAnswered, [Next]_vars
  PROVE  OpenAnswered'
<1>1. ASSUME UNCHANGED script PROVE OpenAnswered'
  BY <1>1 DEF OpenAnswered
<1>2. ASSUME NEW s \in Script, GetQuotaReturns(s) PROVE OpenAnswered'
  BY <1>2 DEF GetQuotaReturns, OpenAnswered, TypeOK
<1>3. ASSUME NEW s \in Script, NEW a \in Query, GetQuota(s, a) PROVE OpenAnswered'
  <2>1. PICK r \in Answered : r = Result(ConvertToQuotaRequest(a))
    BY ResultAnswered
  <2>2. script' = [script EXCEPT ![s] = [pc |-> "answered", result |-> r]]
    BY <1>3, <2>1 DEF GetQuota
  <2> QED BY <2>1, <2>2 DEF OpenAnswered, TypeOK
<1>4. ASSUME NEW s \in Script, script' = [script EXCEPT ![s] = Idle] PROVE OpenAnswered'
  BY <1>4 DEF OpenAnswered, TypeOK, Idle
<1>5. CASE Restart
  BY <1>5 DEF Restart, Fresh, OpenAnswered, Idle
<1> QED BY <1>1, <1>2, <1>3, <1>4, <1>5
        DEF Next, vars, GetQuotaDies, InitQuotaWindow, UpdateCallResult, NextWindow

(* A process starts with nothing granted, nothing held and empty books.    *)
LEMMA FreshMaps ==
  /\ Init => Contract!CInit
  /\ Restart => Contract!StartAgain
<1>1. ASSUME script = [s \in Script |-> Idle] PROVE Holds = Contract!Empty
  BY <1>1 DEF Holds, Holding, Idle, Contract!Empty
<1>2. ASSUME reports = NoReports PROVE Booked = Contract!Blank
  BY <1>2 DEF Booked, NoReports, LimitCallResultType, Contract!Blank
<1>3. Init => Contract!CInit
  BY <1>1, <1>2 DEF Init, Contract!CInit, Holds
<1>4. ASSUME Restart PROVE Contract!StartAgain
  <2>1. script' = [s \in Script |-> Idle] /\ reports' = NoReports
    BY <1>4 DEF Restart, Fresh
  <2>2. Holds' = Contract!Empty
    BY <2>1 DEF Holds, Holding, Idle, Contract!Empty
  <2>3. Booked' = Contract!Blank
    BY <2>1 DEF Booked, NoReports, LimitCallResultType, Contract!Blank
  <2> QED BY <1>4, <2>2, <2>3 DEF Restart, Fresh, Contract!StartAgain, Holds
<1> QED BY <1>3, <1>4

(* An answer of the SDK is a grant if what the array asks for is left, and *)
(* a refusal if it is not.                                                 *)
LEMMA AnswerMaps ==
  ASSUME Rule.labels = EmptyMap, TypeOK, Balance,
         NEW s \in Script, NEW a \in Query, GetQuota(s, a)
  PROVE  Contract!Grant(s, Amount(a)) \/ Contract!Refuse(s, Amount(a))
<1> DEFINE req == ConvertToQuotaRequest(a)
<1>1. req.acquire_amount = Amount(a) /\ Amount(a) \in Nat /\ Limits(req)
  BY AmountAsked, RuleLimitsAll
<1>2. taken + Left = Rule.quota /\ Left \in 0 .. Rule.quota /\ taken \in Nat
  BY LeftIsQuota DEF Balance, TypeOK
<1>3. Within(req) <=> taken + Amount(a) <= Rule.quota
  BY <1>1, <1>2, QuotaAssumption DEF Within
<1>4. /\ alive /\ UNCHANGED <<alive, reports>>
      /\ script[s].pc = "idle"
      /\ script' = [script EXCEPT ![s] = [pc |-> "answered", result |-> Result(req)]]
      /\ taken' = IF Within(req) THEN taken + Amount(a) ELSE taken
  BY DEF GetQuota
<1> HIDE DEF req
<1>5. Booked' = Booked /\ Holds[s] = "nothing"
  BY <1>4 DEF Booked, Holds, Holding
<1>6. CASE Within(req)
  <2>1. script' = [script EXCEPT ![s] = [pc |-> "answered", result |-> "kQuotaResultOk"]]
    BY <1>4, <1>6, ResultAnswered
  <2>2. Holds' = [Holds EXCEPT ![s] = "grant"]
    BY <2>1 DEF Holds, Holding, TypeOK
  <2>3. Contract!Grant(s, Amount(a))
    BY <1>3, <1>4, <1>5, <1>6, <2>2 DEF Contract!Grant, Holds
  <2> QED BY <2>3
<1>7. CASE ~ Within(req)
  <2>1. script' = [script EXCEPT ![s] = [pc |-> "answered", result |-> "kQuotaResultLimited"]]
    BY <1>4, <1>7, ResultAnswered
  <2>2. Holds' = [Holds EXCEPT ![s] = "refusal"]
    BY <2>1 DEF Holds, Holding, TypeOK
  <2>3. taken + Amount(a) > Rule.quota
    BY <1>1, <1>2, <1>3, <1>7, QuotaAssumption
  <2>4. Contract!Refuse(s, Amount(a))
    BY <1>4, <1>5, <1>7, <2>2, <2>3 DEF Contract!Refuse, Holds
  <2> QED BY <2>4
<1> QED BY <1>6, <1>7

(* A report books the answer the script holds.                             *)
LEMMA ReportMaps ==
  ASSUME TypeKey = "response_type", TypeOK, OpenAnswered, NEW s \in Script, NEW a \in Query,
         NEW outcome \in {"OK", "Failed", "Limit"}, UpdateCallResult(s, a, outcome)
  PROVE  Contract!Book(s)
<1> DEFINE t == convertToLimitCallResultType(outcome)
<1>1. /\ alive /\ UNCHANGED <<alive, taken>>
      /\ script[s].pc = "told"
      /\ script' = [script EXCEPT ![s] = Idle]
      /\ outcome \in Ended(s)
      /\ reports' = [reports EXCEPT ![t] = @ + 1]
  BY OutcomeReported DEF UpdateCallResult
<1>2. Holds' = [Holds EXCEPT ![s] = "nothing"]
  BY <1>1 DEF Holds, Holding, TypeOK, Idle
<1>3. Holds[s] \in {"grant", "refusal"}
      /\ IF Holds[s] = "refusal" THEN t = "kLimitCallResultLimited"
         ELSE t \in {"kLimitCallResultOk", "kLimitCallResultFailed"}
  <2>1. script[s].result \in Answered
    BY <1>1 DEF OpenAnswered
  <2> QED BY <1>1, <2>1 DEF Holds, Holding, Answered, Ended, convertToLimitCallResultType
<1>4. \A u \in LimitCallResultType :
        reports[u] \in Nat /\ reports'[u] = IF u = t THEN reports[u] + 1 ELSE reports[u]
  BY <1>1 DEF TypeOK
<1> HIDE DEF t
<1>5. {"kLimitCallResultOk", "kLimitCallResultFailed", "kLimitCallResultLimited"}
        \subseteq LimitCallResultType
  BY DEF LimitCallResultType
<1>6. Booked' = [Booked EXCEPT ![Holds[s]] = @ + 1]
  <2>1. CASE Holds[s] = "refusal"
    BY <1>3, <1>4, <1>5, <2>1 DEF Booked
  <2>2. CASE Holds[s] = "grant"
    <3> DEFINE served == reports["kLimitCallResultOk"] + reports["kLimitCallResultFailed"]
               limited == reports["kLimitCallResultLimited"]
    <3>1. served' = served + 1
      BY <1>3, <1>4, <1>5, <2>2
    <3>2. limited' = limited
      BY <1>3, <1>4, <1>5, <2>2
    <3>3. Booked = [r \in {"grant", "refusal"} |-> IF r = "refusal" THEN limited ELSE served]
      BY DEF Booked
    <3>4. Booked' = [r \in {"grant", "refusal"} |-> IF r = "refusal" THEN limited' ELSE served']
      BY DEF Booked
    <3> HIDE DEF served, limited
    <3> QED BY <2>2, <3>1, <3>2, <3>3, <3>4
  <2> QED BY <1>3, <2>1, <2>2
<1> QED BY <1>1, <1>2, <1>3, <1>6 DEF Contract!Book, Holds

(* Every step is one of the contract, or none that scripts could see.      *)
LEMMA StepMaps ==
  ASSUME TypeKey = "response_type", Rule.labels = EmptyMap,
         TypeOK, Balance, OpenAnswered, [Next]_vars
  PROVE  [Contract!CNext]_(Contract!cvars)
<1>1. ASSUME UNCHANGED <<alive, taken, script, reports>> PROVE UNCHANGED Contract!cvars
  <2>1. Holds' = Holds /\ Booked' = Booked
    BY <1>1 DEF Holds, Holding, Booked
  <2> QED BY <1>1, <2>1 DEF Contract!cvars, Holds
<1>2. ASSUME NEW s \in Script, GetQuotaReturns(s) PROVE UNCHANGED Contract!cvars
  <2>1. Holds' = Holds
    <3>1. \A u \in Script : Holding(u)' = Holding(u)
      BY <1>2 DEF GetQuotaReturns, Holding, TypeOK
    <3> QED BY <3>1 DEF Holds
  <2>2. Booked' = Booked
    BY <1>2 DEF GetQuotaReturns, Booked
  <2> QED BY <1>2, <2>1, <2>2 DEF GetQuotaReturns, Contract!cvars, Holds
<1>3. ASSUME NEW s \in Script, GetQuotaDies(s) PROVE Contract!Die
  <2>1. Holds' = Holds /\ Booked' = Booked
    BY <1>3 DEF GetQuotaDies, Holds, Holding, Booked
  <2> QED BY <1>3, <2>1 DEF GetQuotaDies, Contract!Die, Holds
<1>4. ASSUME NextWindow PROVE Contract!Renew
  <2>1. Holds' = Holds /\ Booked' = Booked
    BY <1>4 DEF NextWindow, Holds, Holding, Booked
  <2> QED BY <1>4, <2>1 DEF NextWindow, Contract!Renew, Holds
<1>5. ASSUME NEW s \in Script, NEW a \in Query, GetQuota(s, a) PROVE Contract!CNext
  BY <1>5, AnswerMaps DEF Contract!CNext
<1>6. ASSUME NEW s \in Script, NEW a \in Query, NEW outcome \in {"OK", "Failed", "Limit"},
             UpdateCallResult(s, a, outcome)
      PROVE  Contract!CNext
  BY <1>6, ReportMaps DEF Contract!CNext
<1>7. ASSUME NEW s \in Script, NEW a \in Query, InitQuotaWindow(s, a)
      PROVE  UNCHANGED Contract!cvars
  BY <1>1, <1>7 DEF InitQuotaWindow
<1>8. CASE UNCHANGED vars
  BY <1>1, <1>8 DEF vars
<1> QED BY <1>2, <1>3, <1>4, <1>5, <1>6, <1>7, <1>8, FreshMaps DEF Next, Contract!CNext

(* For scripts that report under the key limit_core.hpp reads, and a rule  *)
(* for all callers, the process implements the one budget: no unit is      *)
(* granted twice, none is kept back, and the books are right.              *)
THEOREM BudgetIsKept ==
  ASSUME TypeKey = "response_type", Rule.labels = EmptyMap
  PROVE  Spec => ImplementsContract
<1> DEFINE I == TypeOK /\ Balance /\ OpenAnswered
<1>1. Init => I /\ Contract!CInit
  BY TypeInit, BalanceInit, OpenInit, FreshMaps
<1>2. I /\ [Next]_vars => I' /\ [Contract!CNext]_(Contract!cvars)
  BY TypeStep, BalanceStep, OpenStep, StepMaps
<1> QED BY <1>1, <1>2, PTL DEF Spec, ImplementsContract, Contract!CSpec
=============================================================================
