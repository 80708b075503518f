------------------------- MODULE ServiceCallsProofs -------------------------
(* What holds of ServiceCalls for every set of consumers and instances and *)
(* every setting of the circuit breaker.                                   *)
EXTENDS ServiceCalls, SequenceTheorems, TLAPS

BreakerState == [state : {"closed", "open", "half_open"}, recent : Reports,
                 left : 0 .. SleepWindow, trials : 0 .. Trials, good : 0 .. Successes - 1]
Arrays       == {convertInstanceToArray(i) : i \in Instance}
CallerState  == [pc : {"idle", "calling", "called"}, answer : SUBSET Arrays, outcome : Outcome]

(* A script that called an instance knows which one.                       *)
CalledOne ==
  \A c \in Consumer : caller[c].pc = "called" => \E a \in Arrays : caller[c].answer = {a}

Typed == TypeOK /\ CalledOne

(* Windows of reports stay windows of reports.                             *)
LEMMA ReportsTyped ==
  /\ <<>> \in Reports
  /\ \A recent \in Reports : Rest(recent) \in Reports
  /\ \A recent \in Reports, failed \in BOOLEAN : Recorded(recent, failed) \in Reports
<1> USE BreakerAssumption
<1>1. <<>> \in Reports
  BY DEF Reports
<1>2. ASSUME NEW recent \in Reports
      PROVE  /\ Rest(recent) \in Seq(BOOLEAN)
             /\ Len(Rest(recent)) <= Len(recent)
             /\ Len(recent) > 0 => Len(Rest(recent)) = Len(recent) - 1
  <2>1. recent \in Seq(BOOLEAN)
    BY DEF Reports
  <2>2. CASE recent = <<>>
    <3>1. Rest(recent) = recent /\ Len(recent) = 0
      BY <2>2 DEF Rest
    <3> QED BY <2>1, <3>1
  <2>3. CASE recent # <<>>
    <3>1. Rest(recent) = Tail(recent)
      BY <2>3 DEF Rest
    <3>2. /\ Tail(recent) \in Seq(BOOLEAN)
          /\ Len(recent) \in Nat
          /\ Len(Tail(recent)) = Len(recent) - 1
      BY <2>1, <2>3, HeadTailProperties, LenProperties
    <3> QED BY <3>1, <3>2
  <2> QED BY <2>2, <2>3
<1>3. ASSUME NEW recent \in Reports PROVE Rest(recent) \in Reports
  BY <1>2, <1>3 DEF Reports
<1>4. ASSUME NEW recent \in Reports, NEW failed \in BOOLEAN
      PROVE  Recorded(recent, failed) \in Reports
  <2> DEFINE kept == IF Len(recent) < MaxReports THEN recent ELSE Rest(recent)
  <2>1. recent \in Seq(BOOLEAN) /\ Len(recent) \in Nat /\ Len(recent) <= MaxReports
    BY DEF Reports
  <2>2. kept \in Seq(BOOLEAN) /\ Len(kept) < MaxReports
    BY <1>2, <2>1
  <2> HIDE DEF kept
  <2>3. Append(kept, failed) \in Seq(BOOLEAN) /\ Len(Append(kept, failed)) = Len(kept) + 1
    BY <2>2
  <2>4. Len(kept) + 1 <= MaxReports
    BY <2>2
  <2> QED BY <2>3, <2>4 DEF Recorded, Reports, kept
<1> QED BY <1>1, <1>3, <1>4

LEMMA ClosedTyped == Closed \in BreakerState /\ Opened \in BreakerState
<1>1. <<>> \in Reports /\ 0 \in 0 .. SleepWindow /\ SleepWindow \in 0 .. SleepWindow
      /\ 0 \in 0 .. Trials /\ 0 \in 0 .. Successes - 1
  BY BreakerAssumption, ReportsTyped
<1>2. Closed \in BreakerState
  BY <1>1 DEF Closed, BreakerState
<1>3. Opened \in BreakerState
  BY <1>1, <1>2 DEF Opened, BreakerState
<1> QED BY <1>2, <1>3

(* A report leaves a breaker a breaker.                                    *)
LEMMA ReportedTyped ==
  ASSUME NEW b \in BreakerState, NEW status
  PROVE  Reported(b, status) \in BreakerState
<1>1. CASE b.state = "closed"
  <2>1. Failed(status) \in BOOLEAN
    BY DEF Failed
  <2>2. Recorded(b.recent, Failed(status)) \in Reports
    BY <2>1, ReportsTyped DEF BreakerState
  <2>3. Reported(b, status) = [b EXCEPT !.recent = Recorded(b.recent, Failed(status))]
    BY <1>1 DEF Reported
  <2> QED BY <2>2, <2>3 DEF BreakerState
<1>2. CASE b.state = "half_open" /\ ~ Failed(status) /\ b.good + 1 < Successes
  <2>1. Reported(b, status) = [b EXCEPT !.good = b.good + 1]
    BY <1>2 DEF Reported
  <2> QED BY <1>2, <2>1, BreakerAssumption DEF BreakerState
<1>3. CASE Reported(b, status) \in {Closed, Opened, b}
  BY <1>3, ClosedTyped
<1> QED BY <1>1, <1>2, <1>3 DEF Reported

(* An answer to a consumer is made of arrays of instances.                 *)
LEMMA AnswerTyped ==
  ASSUME TypeOK, CalledOne, NEW c \in Consumer, NEW S \in SUBSET Instance, Answer(c, S)
  PROVE  caller' \in [Consumer -> CallerState] /\ CalledOne'
<1> DEFINE told == convertServiceResponseToZval("kReturnOk", S).instances
<1>1. told = {convertInstanceToArray(i) : i \in S}
  BY DEF convertServiceResponseToZval
<1>2. told \in SUBSET Arrays
  BY <1>1 DEF Arrays
<1>3. caller' = [caller EXCEPT ![c].pc = "calling", ![c].answer = told]
  BY DEF Answer
<1>4. caller \in [Consumer -> CallerState]
  BY DEF TypeOK, CallerState, Arrays
<1> HIDE DEF told
<1> QED BY <1>2, <1>3, <1>4 DEF CallerState, CalledOne

LEMMA Choosable ==
  /\ Candidates(OneRequest) \in SUBSET Instance
  /\ Listed(ListRequest) \in SUBSET Instance
<1>1. \A req : Routed(req) \subseteq Instance
  BY DEF Routed
<1> QED BY <1>1 DEF Candidates, Listed, OrAll

LEMMA TypedInit == Init => Typed
BY BreakerAssumption, ReportsTyped DEF Init, Typed, TypeOK, CalledOne, Idle, Outcome, Closed

LEMMA TypedStep == Typed /\ [Next]_vars => Typed'
<1> SUFFICES ASSUME TypeOK, CalledOne, [Next]_vars PROVE TypeOK' /\ CalledOne'
  BY DEF Typed
<1> USE BreakerAssumption
<1>0. /\ up \in [Instance -> BOOLEAN]
      /\ breaker \in [Instance -> BreakerState]
      /\ caller \in [Consumer -> CallerState]
      /\ calls \in [Instance -> Reports]
  BY DEF TypeOK, BreakerState, CallerState, Arrays
<1>t. ASSUME /\ up' \in [Instance -> BOOLEAN]
             /\ breaker' \in [Instance -> BreakerState]
             /\ caller' \in [Consumer -> CallerState]
             /\ calls' \in [Instance -> Reports]
      PROVE  TypeOK'
  BY <1>t DEF TypeOK, BreakerState, CallerState, Arrays
<1>b. ASSUME breaker' \in [Instance -> BreakerState],
             calls' \in [Instance -> Reports], UNCHANGED <<up, caller>>
      PROVE  TypeOK' /\ CalledOne'
  <2>1. TypeOK'
    BY <1>0, <1>t, <1>b
  <2>2. CalledOne'
    BY <1>b DEF CalledOne
  <2> QED BY <2>1, <2>2
<1>1. CASE UNCHANGED vars
  BY <1>0, <1>1, <1>b DEF vars
<1>2. ASSUME NEW c \in Consumer, NEW i \in Instance, GetOneInstance(c, i)
      PROVE  TypeOK' /\ CalledOne'
  <2>1. Answer(c, {i}) /\ UNCHANGED <<up, calls>>
    BY <1>2 DEF GetOneInstance
  <2>2. breaker' \in [Instance -> BreakerState]
    <3>1. CASE OnTrial(i, OneRequest)
      <4>1. breaker' = [breaker EXCEPT ![i].trials = @ + 1] /\ breaker[i].trials < Trials
        BY <1>2, <3>1 DEF GetOneInstance, OnTrial
      <4> QED BY <1>0, <4>1 DEF BreakerState
    <3>2. CASE ~ OnTrial(i, OneRequest)
      BY <1>0, <1>2, <3>2 DEF GetOneInstance
    <3> QED BY <3>1, <3>2
  <2>3. caller' \in [Consumer -> CallerState] /\ CalledOne'
    BY <2>1, AnswerTyped
  <2> QED BY <1>0, <1>t, <2>1, <2>2, <2>3
<1>3. ASSUME NEW c \in Consumer, GetInstances(c) PROVE TypeOK' /\ CalledOne'
  <2>1. Answer(c, Listed(ListRequest)) /\ UNCHANGED <<up, breaker, calls>>
    BY <1>3 DEF GetInstances
  <2>2. caller' \in [Consumer -> CallerState] /\ CalledOne'
    BY <2>1, AnswerTyped, Choosable
  <2> QED BY <1>0, <1>t, <2>1, <2>2
<1>4. ASSUME NEW c \in Consumer, CallInstance(c) PROVE TypeOK' /\ CalledOne'
  <2>1. PICK a \in caller[c].answer, outcome \in Outcome :
          caller' = [caller EXCEPT ![c] = [pc |-> "called", answer |-> {a}, outcome |-> outcome]]
    BY <1>4 DEF CallInstance
  <2>2. a \in Arrays
    BY <1>0 DEF CallerState
  <2>3. caller' \in [Consumer -> CallerState] /\ CalledOne'
    BY <1>0, <2>1, <2>2 DEF CallerState, CalledOne
  <2> QED BY <1>0, <1>4, <1>t, <2>3 DEF CallInstance
<1>5. ASSUME NEW c \in Consumer, UpdateServiceCallResult(c) PROVE TypeOK' /\ CalledOne'
  <2> DEFINE result == DoUpdateServiceCallResult(ReportArray(c))
  <2>1. breaker' = [i \in Instance |->
                      IF i \in Meant(result) THEN Reported(breaker[i], result.ret_status)
                      ELSE breaker[i]]
    BY <1>5 DEF UpdateServiceCallResult
  <2> HIDE DEF result
  <2>2. \A i \in Instance : Reported(breaker[i], result.ret_status) \in BreakerState
    BY <1>0, ReportedTyped
  <2>3. breaker' \in [Instance -> BreakerState]
    BY <1>0, <2>1, <2>2
  <2>4. /\ <<>> \in Reports
        /\ \A i \in Instance : Recorded(calls[i], caller[c].outcome # "ok") \in Reports
    BY <1>0, ReportsTyped
  <2>5. calls' \in [Instance -> Reports]
    BY <1>0, <1>5, <2>4 DEF UpdateServiceCallResult
  <2>6. caller' \in [Consumer -> CallerState] /\ CalledOne'
    <3>1. caller' = [caller EXCEPT ![c] = Idle] /\ Idle \in CallerState /\ Idle.pc = "idle"
      BY <1>5 DEF UpdateServiceCallResult, Idle, CallerState, Outcome
    <3> QED BY <1>0, <3>1 DEF CalledOne
  <2> QED BY <1>0, <1>5, <1>t, <2>3, <2>5, <2>6 DEF UpdateServiceCallResult
<1>6. ASSUME NEW i \in Instance, Flip(i) PROVE TypeOK' /\ CalledOne'
  <2>1. up' \in [Instance -> BOOLEAN] /\ UNCHANGED <<breaker, caller, calls>>
    BY <1>0, <1>6 DEF Flip
  <2>2. CalledOne'
    BY <2>1 DEF CalledOne
  <2> QED BY <1>0, <1>t, <2>1, <2>2
<1>7. ASSUME NEW i \in Instance, Check(i) PROVE TypeOK' /\ CalledOne'
  BY <1>0, <1>7, <1>b, ClosedTyped, ReportsTyped DEF Check
<1>8. ASSUME NEW i \in Instance, Recover(i) PROVE TypeOK' /\ CalledOne'
  BY <1>0, <1>8, <1>b, ClosedTyped, ReportsTyped DEF Recover
<1>10. ASSUME NEW i \in Instance, Expire(i) PROVE TypeOK' /\ CalledOne'
  <2>1. Rest(breaker[i].recent) \in Reports /\ Rest(calls[i]) \in Reports
    BY <1>0, ReportsTyped DEF BreakerState
  <2>2. breaker' = [breaker EXCEPT ![i].recent = Rest(breaker[i].recent)]
        /\ calls' = [calls EXCEPT ![i] = Rest(calls[i])] /\ UNCHANGED <<up, caller>>
    BY <1>10 DEF Expire
  <2>3. breaker' \in [Instance -> BreakerState] /\ calls' \in [Instance -> Reports]
    BY <1>0, <2>1, <2>2 DEF BreakerState
  <2> QED BY <1>b, <2>2, <2>3
<1>9. CASE Tick
  <2>1. [Closed EXCEPT !.state = "half_open"] \in BreakerState
    BY ClosedTyped DEF BreakerState
  <2>2. \A i \in Instance : breaker[i].left > 1 =>
          [breaker[i] EXCEPT !.left = @ - 1] \in BreakerState
    BY <1>0 DEF BreakerState
  <2>3. breaker' \in [Instance -> BreakerState]
    BY <1>0, <1>9, <2>1, <2>2 DEF Tick
  <2> QED BY <1>0, <1>9, <1>b, <2>3 DEF Tick
<1> QED BY <1>1, <1>2, <1>3, <1>4, <1>5, <1>6, <1>7, <1>8, <1>9, <1>10 DEF Next

(* The variables always have the shape TypeOK states.                      *)
THEOREM TypeCorrect == Spec => []TypeOK
<1>1. Typed => TypeOK
  BY DEF Typed
<1> QED BY <1>1, TypedInit, TypedStep, PTL DEF Spec
-----------------------------------------------------------------------------
(* Reports that name the address of the instance, and whatever else.       *)

(* The breaker of an instance in use knows how its calls went, in the      *)
(* order they were reported in, no more and no fewer of them.              *)
Counted ==
  \A i \in Instance : breaker[i].state = "closed" => calls[i] = breaker[i].recent

(* A report by address reaches the instance it is about, and says how its  *)
(* call went.                                                              *)
LEMMA ReportArrives ==
  ASSUME {"host", "port"} \subseteq ReportKey, TypeOK, CalledOne,
         NEW c \in Consumer, caller[c].pc = "called"
  PROVE  \E a \in Arrays :
           LET result == DoUpdateServiceCallResult(ReportArray(c)) IN
           /\ caller[c].answer = {a}
           /\ Meant(result) = At(a)
           /\ Failed(result.ret_status) <=> caller[c].outcome # "ok"
<1>1. PICK a \in Arrays : caller[c].answer = {a}
  BY DEF CalledOne
<1>2. DOMAIN a = {"host", "port", "healthy", "metadata"}
  BY DEF Arrays, convertInstanceToArray
<1>3. CalledArray(c) = a
  BY <1>1 DEF CalledArray
<1> DEFINE report == ReportArray(c)
           params == TransferToStdMap(report)
           result == DoUpdateServiceCallResult(report)
<1>4. /\ DOMAIN report \subseteq {"host", "port", "healthy", "metadata", "ret_status"}
      /\ {"host", "port", "ret_status"} \subseteq DOMAIN report
      /\ report["host"] = a.host /\ report["port"] = a.port
      /\ report["ret_status"] = caller[c].outcome
  <2> DEFINE keys == (ReportKey \cap DOMAIN a) \cup {"ret_status"}
  <2>1. report = [k \in keys |-> IF k = "ret_status" THEN caller[c].outcome ELSE a[k]]
    BY <1>3 DEF ReportArray, RetStatus
  <2>2. {"host", "port", "ret_status"} \subseteq keys
    BY <1>2
  <2>3. keys \subseteq {"host", "port", "healthy", "metadata", "ret_status"}
    BY <1>2
  <2> HIDE DEF keys
  <2> QED BY <2>1, <2>2, <2>3
<1> HIDE DEF report
<1>5. /\ DOMAIN params = DOMAIN report \ ArrayKey
      /\ \A k \in DOMAIN params : params[k] = report[k]
  BY DEF TransferToStdMap
<1> HIDE DEF params
<1>6. /\ Text(params, "instance_id") = ""
      /\ Text(params, "host") = a.host
      /\ Number(params, "port") = a.port
      /\ Text(params, "ret_status") = caller[c].outcome
  <2>1. {"host", "port", "ret_status"} \subseteq DOMAIN params /\ "instance_id" \notin DOMAIN params
    BY <1>4, <1>5 DEF ArrayKey
  <2> QED BY <1>4, <1>5, <2>1 DEF Text, Number
<1>7. /\ result.instance_id = "" /\ result.host = a.host /\ result.port = a.port
      /\ result.ret_status = convertToCallRetStatus(caller[c].outcome)
  BY <1>6 DEF DoUpdateServiceCallResult, ServiceCallResult, params
<1>8. caller[c].outcome \in {"ok", "error", "timeout"}
  BY DEF TypeOK, Outcome
<1>9. Failed(result.ret_status) <=> caller[c].outcome # "ok"
  BY <1>7, <1>8 DEF Failed, convertToCallRetStatus
<1>10. Meant(result) = At(a)
  BY <1>7 DEF Meant, At
<1> QED BY <1>1, <1>9, <1>10 DEF report

LEMMA CountedInit == Init => Counted
BY DEF Init, Counted, Closed

LEMMA CountedStep ==
  ASSUME {"host", "port"} \subseteq ReportKey, TypeOK, CalledOne, Counted, [Next]_vars
  PROVE  Counted'
<1> USE BreakerAssumption
<1>0. /\ breaker \in [Instance -> BreakerState]
      /\ calls \in [Instance -> Reports]
  BY DEF TypeOK, BreakerState
<1>b. ASSUME UNCHANGED <<breaker, calls>> PROVE Counted'
  BY <1>b DEF Counted
<1>1. CASE UNCHANGED vars
  BY <1>1, <1>b DEF vars
<1>2. ASSUME NEW c \in Consumer, NEW i \in Instance, GetOneInstance(c, i) PROVE Counted'
  <2>1. calls' = calls /\ (breaker' = breaker
                              \/ breaker' = [breaker EXCEPT ![i].trials = @ + 1])
    BY <1>2 DEF GetOneInstance
  <2>2. \A j \in Instance : breaker'[j].state = breaker[j].state
                            /\ breaker'[j].recent = breaker[j].recent
    BY <1>0, <2>1 DEF BreakerState
  <2> QED BY <2>1, <2>2 DEF Counted
<1>3. ASSUME NEW c \in Consumer, GetInstances(c) \/ CallInstance(c) PROVE Counted'
  BY <1>3, <1>b DEF GetInstances, CallInstance
<1>4. ASSUME NEW c \in Consumer, UpdateServiceCallResult(c) PROVE Counted'
  <2> DEFINE result == DoUpdateServiceCallResult(ReportArray(c))
  <2>1. PICK a \in Arrays :
          /\ caller[c].answer = {a}
          /\ Meant(result) = At(a)
          /\ Failed(result.ret_status) <=> caller[c].outcome # "ok"
    BY <1>4, ReportArrives DEF UpdateServiceCallResult
  <2>2. \A j \in Instance :
          breaker'[j] = IF j \in At(a) THEN Reported(breaker[j], result.ret_status)
                        ELSE breaker[j]
    BY <1>4, <2>1 DEF UpdateServiceCallResult
  <2>3. \A j \in Instance :
          calls'[j] = IF j \notin At(a) THEN calls[j]
                      ELSE IF IsClosed(j) THEN Recorded(calls[j], caller[c].outcome # "ok")
                      ELSE <<>>
    BY <1>4, <2>1 DEF UpdateServiceCallResult
  <2> HIDE DEF result
  <2>4. SUFFICES ASSUME NEW j \in Instance, breaker'[j].state = "closed"
                 PROVE  calls'[j] = breaker'[j].recent
    BY DEF Counted
  <2>5. breaker[j] \in BreakerState
    BY <1>0
  <2>6. CASE j \notin At(a)
    BY <2>2, <2>3, <2>4, <2>6 DEF Counted
  <2>7. CASE j \in At(a) /\ ~ IsClosed(j)
    <3>1. breaker'[j] = Reported(breaker[j], result.ret_status)
      BY <2>2, <2>7
    <3>2. breaker'[j] = Closed
      BY <2>4, <2>5, <2>7, <3>1 DEF IsClosed, Reported, Opened, Closed, BreakerState
    <3> QED BY <2>3, <2>7, <3>2 DEF Closed
  <2>8. CASE j \in At(a) /\ IsClosed(j)
    <3>1. Failed(result.ret_status) = (caller[c].outcome # "ok")
      BY <2>1 DEF Failed
    <3>2. breaker'[j] = [breaker[j] EXCEPT !.recent =
                           Recorded(breaker[j].recent, caller[c].outcome # "ok")]
      BY <2>2, <2>8, <3>1 DEF Reported, IsClosed
    <3>3. breaker'[j].recent = Recorded(breaker[j].recent, caller[c].outcome # "ok")
      BY <2>5, <3>2 DEF BreakerState
    <3>4. calls[j] = breaker[j].recent
      BY <2>8 DEF Counted, IsClosed
    <3> QED BY <2>3, <2>8, <3>3, <3>4
  <2> QED BY <2>6, <2>7, <2>8
<1>5. ASSUME NEW i \in Instance, Flip(i) PROVE Counted'
  BY <1>5, <1>b DEF Flip
<1>6. ASSUME NEW i \in Instance, Check(i) PROVE Counted'
  BY <1>0, <1>6 DEF Check, Counted, Opened, Closed
<1>7. ASSUME NEW i \in Instance, Recover(i) PROVE Counted'
  BY <1>0, <1>7 DEF Recover, Counted, Closed
<1>9. ASSUME NEW i \in Instance, Expire(i) PROVE Counted'
  <2>1. breaker' = [breaker EXCEPT ![i].recent = Rest(breaker[i].recent)]
        /\ calls' = [calls EXCEPT ![i] = Rest(calls[i])]
    BY <1>9 DEF Expire
  <2>2. \A j \in Instance : j # i => breaker'[j] = breaker[j] /\ calls'[j] = calls[j]
    BY <1>0, <2>1
  <2>3. /\ breaker'[i].state = breaker[i].state
        /\ breaker'[i].recent = Rest(breaker[i].recent)
        /\ calls'[i] = Rest(calls[i])
    BY <1>0, <2>1 DEF BreakerState
  <2> QED BY <2>2, <2>3 DEF Counted
<1>8. CASE Tick
  <2>1. \A i \in Instance : breaker'[i].state = "closed" => breaker'[i] = breaker[i]
    BY <1>0, <1>8 DEF Tick, Closed, BreakerState
  <2> QED BY <1>8, <2>1 DEF Tick, Counted
<1> QED BY <1>1, <1>2, <1>3, <1>4, <1>5, <1>6, <1>7, <1>8, <1>9 DEF Next

(* Scripts that report by address never have a failure lost: when the      *)
(* calls of an instance, as they happened, are reason for errorCount or    *)
(* errorRate to cut it off, its breaker is due to open.                    *)
THEOREM FailuresAreCounted ==
  ASSUME {"host", "port"} \subseteq ReportKey
  PROVE  Spec => []FailuresCutOff
<1>1. Typed /\ Counted => FailuresCutOff
  <2> SUFFICES ASSUME Counted, NEW i \in Instance, IsClosed(i), Due(calls[i])
               PROVE  Due(breaker[i].recent)
    BY DEF FailuresCutOff
  <2>1. calls[i] = breaker[i].recent
    BY DEF Counted, IsClosed
  <2> QED BY <2>1
<1>2. Typed /\ Counted /\ [Next]_vars => Counted'
  BY CountedStep DEF Typed
<1> QED BY <1>1, <1>2, TypedInit, TypedStep, CountedInit, PTL DEF Spec

(* What opens a breaker: the check, or a report.                           *)
LEMMA WhoOpens ==
  ASSUME TypeOK, [Next]_vars, NEW i \in Instance,
         breaker[i].state # "open", breaker'[i].state = "open"
  PROVE  Check(i) \/ \E c \in Consumer : UpdateServiceCallResult(c)
<1>0. breaker \in [Instance -> BreakerState]
  BY DEF TypeOK, BreakerState
<1>1. ASSUME NEW c \in Consumer, NEW j \in Instance, GetOneInstance(c, j) PROVE FALSE
  <2>1. breaker' = breaker \/ breaker' = [breaker EXCEPT ![j].trials = @ + 1]
    BY <1>1 DEF GetOneInstance
  <2> QED BY <1>0, <2>1 DEF BreakerState
<1>2. ASSUME NEW j \in Instance, Check(j) PROVE Check(i)
  BY <1>0, <1>2 DEF Check
<1>3. ASSUME NEW j \in Instance, Recover(j) PROVE FALSE
  BY <1>0, <1>3 DEF Recover, Closed
<1>4. CASE Tick
  BY <1>0, <1>4 DEF Tick, Closed, BreakerState
<1>5. ASSUME NEW j \in Instance, Expire(j) PROVE FALSE
  <2>1. breaker' = [breaker EXCEPT ![j].recent = Rest(breaker[j].recent)]
    BY <1>5 DEF Expire
  <2> QED BY <1>0, <2>1 DEF BreakerState
<1>6. breaker' # breaker
  OBVIOUS
<1> QED BY <1>1, <1>2, <1>3, <1>4, <1>5, <1>6 DEF Next, vars, GetInstances, CallInstance, Flip

(* A report by address cuts a half-open instance off only if it is about a *)
(* failed call of this instance, old or new, and one in use not at all.    *)
LEMMA ReportOpens ==
  ASSUME {"host", "port"} \subseteq ReportKey, TypeOK, CalledOne,
         NEW i \in Instance, NEW c \in Consumer, UpdateServiceCallResult(c),
         breaker[i].state # "open", breaker'[i].state = "open"
  PROVE  /\ ~ IsClosed(i)
         /\ caller[c].pc = "called" /\ caller'[c].pc = "idle"
         /\ caller[c].outcome # "ok"
         /\ \E a \in caller[c].answer : i \in At(a)
<1> DEFINE result == DoUpdateServiceCallResult(ReportArray(c))
<1>0. breaker[i] \in BreakerState /\ caller \in [Consumer -> CallerState]
  BY DEF TypeOK, BreakerState, CallerState, Arrays
<1>1. PICK a \in Arrays :
        /\ caller[c].answer = {a}
        /\ Meant(result) = At(a)
        /\ Failed(result.ret_status) <=> caller[c].outcome # "ok"
  BY ReportArrives DEF UpdateServiceCallResult
<1>2. breaker'[i] = IF i \in At(a) THEN Reported(breaker[i], result.ret_status) ELSE breaker[i]
  BY <1>1 DEF UpdateServiceCallResult
<1> HIDE DEF result
<1>3. i \in At(a) /\ breaker'[i] = Reported(breaker[i], result.ret_status)
  BY <1>2
<1>4. ~ IsClosed(i)
  BY <1>0, <1>3 DEF IsClosed, Reported, Closed, BreakerState
<1>5. Failed(result.ret_status)
  BY <1>0, <1>3, <1>4 DEF IsClosed, Reported, Closed, BreakerState
<1>6. caller[c].pc = "called" /\ caller'[c].pc = "idle"
  BY <1>0 DEF UpdateServiceCallResult, Idle
<1> QED BY <1>1, <1>3, <1>4, <1>5, <1>6

(* For scripts that report by address, an instance in use is only cut off  *)
(* when its own calls are reason enough for errorCount or errorRate, and a *)
(* half-open one only by the report of a failed call of it, which may be   *)
(* one from before it was cut off.                                         *)
THEOREM NoFalseAlarm ==
  ASSUME {"host", "port"} \subseteq ReportKey
  PROVE  Spec => CutOffForCause
<1> DEFINE OK == \A i \in Instance :
                   /\ breaker[i].state # "open"
                   /\ breaker'[i].state = "open"
                   => IF IsClosed(i) THEN Due(calls[i])
                      ELSE \E c \in Consumer :
                             /\ caller[c].pc = "called" /\ caller'[c].pc = "idle"
                             /\ caller[c].outcome # "ok"
                             /\ \E a \in caller[c].answer : i \in At(a)
<1>1. Typed /\ Counted /\ [Next]_vars => Counted'
  BY CountedStep DEF Typed
<1>2. Typed /\ Counted /\ [Next]_vars => OK
  <2> SUFFICES ASSUME Typed, Counted, [Next]_vars, NEW i \in Instance,
                      breaker[i].state # "open", breaker'[i].state = "open"
               PROVE  IF IsClosed(i) THEN Due(calls[i])
                      ELSE \E c \in Consumer :
                             /\ caller[c].pc = "called" /\ caller'[c].pc = "idle"
                             /\ caller[c].outcome # "ok"
                             /\ \E a \in caller[c].answer : i \in At(a)
    OBVIOUS
  <2>1. CASE Check(i)
    BY <2>1 DEF Check, Counted, IsClosed
  <2>2. ASSUME NEW c \in Consumer, UpdateServiceCallResult(c)
        PROVE  /\ ~ IsClosed(i)
               /\ caller[c].pc = "called" /\ caller'[c].pc = "idle"
               /\ caller[c].outcome # "ok"
               /\ \E a \in caller[c].answer : i \in At(a)
    BY <2>2, ReportOpens DEF Typed
  <2> QED BY <2>1, <2>2, WhoOpens DEF Typed
<1>3. OK => [OK]_vars
  OBVIOUS
<1>4. Spec => [][OK]_vars
  BY <1>1, <1>2, <1>3, TypedInit, TypedStep, CountedInit, PTL DEF Spec
<1> QED BY <1>4 DEF CutOffForCause

-----------------------------------------------------------------------------
(* What answers show.                                                      *)

(* The source service of a request is never found, and a rule that names   *)
(* some metadata of callers does not apply.                                *)
LEMMA NothingRouted ==
  ASSUME DOMAIN Rule.from # {}
  PROVE  Routed(OneRequest) = Instance /\ Routed(ListRequest) = Instance
<1>1. \A a, k : ~ Found(a, k)
  BY DEF Found, getKeyLength
<1>2. OneRequest.source_service = NoSource
  BY <1>1 DEF OneRequest, DoGetOneInstance, OneInstance, GetOneInstanceRequest, SourceService
<1>3. ListRequest.source_service = NoSource
  BY <1>1 DEF ListRequest, DoGetInstances, Instances, GetInstancesRequest, SourceOfRequest
<1>4. ~ Matches(NoSource.metadata, Rule.from)
  <2>1. NoSource.metadata = EmptyMap /\ DOMAIN EmptyMap = {}
    BY DEF NoSource, ServiceInfo, EmptyMap
  <2> QED BY <2>1 DEF Matches
<1> QED BY <1>2, <1>3, <1>4 DEF Routed

LEMMA NotIncluded ==
  ASSUME Text(TransferToStdMap(Query), "include_circuit_breaker_instances") # "true"
  PROVE  ListRequest.include_circuit_break = FALSE
BY DEF ListRequest, DoGetInstances, Instances, GetInstancesRequest, Flag

(* No answer shows an instance that was cut off while another one is in    *)
(* use, unless the script asks for it: for scripts whose instances differ  *)
(* by their arrays and that no routing rule without metadata applies to.   *)
THEOREM CutOffStaysOut ==
  ASSUME \A i, j \in Instance : convertInstanceToArray(i) = convertInstanceToArray(j) => i = j,
         DOMAIN Rule.from # {},
         Text(TransferToStdMap(Query), "include_circuit_breaker_instances") # "true"
  PROVE  Spec => CutOffNotListed
<1> DEFINE OK == \A c \in Consumer : \A i \in Instance :
                   /\ caller[c].pc = "idle"
                   /\ convertInstanceToArray(i) \in caller'[c].answer
                   /\ breaker[i].state = "open"
                   => \A j \in Instance : ~ IsClosed(j)
           Empty == \A c \in Consumer : caller[c].pc = "idle" => caller[c].answer = {}
<1>1. Init => Empty
  BY DEF Init, Idle
<1>2. Typed /\ Empty /\ [Next]_vars => Empty'
  <2> SUFFICES ASSUME TypeOK, Empty, [Next]_vars, NEW d \in Consumer, caller'[d].pc = "idle"
               PROVE  caller'[d].answer = {}
    BY DEF Typed
  <2>0. caller \in [Consumer -> CallerState]
    BY DEF TypeOK, CallerState, Arrays
  <2>1. ASSUME NEW c \in Consumer, NEW S, Answer(c, S) PROVE caller'[d].answer = {}
    BY <2>0, <2>1 DEF Answer, CallerState
  <2>2. ASSUME NEW c \in Consumer, CallInstance(c) PROVE caller'[d].answer = {}
    BY <2>0, <2>2 DEF CallInstance, CallerState
  <2>3. ASSUME NEW c \in Consumer, UpdateServiceCallResult(c) PROVE caller'[d].answer = {}
    BY <2>0, <2>3 DEF UpdateServiceCallResult, Idle
  <2>4. CASE UNCHANGED caller
    BY <2>4
  <2> QED BY <2>1, <2>2, <2>3, <2>4
          DEF Next, vars, GetOneInstance, GetInstances, Flip, Check, Expire, Recover, Tick
<1>3. Typed /\ Empty /\ [Next]_vars => OK
  <2> SUFFICES ASSUME TypeOK, Empty, [Next]_vars, NEW d \in Consumer, NEW i \in Instance,
                      caller[d].pc = "idle", convertInstanceToArray(i) \in caller'[d].answer,
                      breaker[i].state = "open"
               PROVE  \A j \in Instance : ~ IsClosed(j)
    BY DEF Typed
  <2>0. caller \in [Consumer -> CallerState]
    BY DEF TypeOK, CallerState, Arrays
  <2>1. caller'[d] # caller[d]
    OBVIOUS
  <2>2. ASSUME NEW c \in Consumer, NEW S \in SUBSET Instance, Answer(c, S)
        PROVE  i \in S
    <3>1. c = d /\ caller'[d].answer = {convertInstanceToArray(j) : j \in S}
      BY <2>0, <2>1, <2>2 DEF Answer, CallerState, convertServiceResponseToZval
    <3> QED BY <3>1
  <2>3. ASSUME NEW c \in Consumer, NEW k \in Instance, GetOneInstance(c, k)
        PROVE  \A j \in Instance : ~ IsClosed(j)
    <3>1. i = k /\ k \in Candidates(OneRequest)
      BY <2>2, <2>3 DEF GetOneInstance
    <3>2. {j \in Instance : IsClosed(j) \/ OnTrial(j, OneRequest)} = {}
      BY <3>1, NothingRouted DEF Candidates, OrAll, IsClosed, OnTrial
    <3> QED BY <3>2
  <2>4. ASSUME NEW c \in Consumer, GetInstances(c)
        PROVE  \A j \in Instance : ~ IsClosed(j)
    <3>1. i \in Listed(ListRequest)
      BY <2>2, <2>4, Choosable DEF GetInstances
    <3>2. {j \in Instance : IsClosed(j)} = {}
      BY <3>1, NothingRouted, NotIncluded DEF Listed, OrAll, IsClosed
    <3> QED BY <3>2
  <2>5. ASSUME NEW c \in Consumer, CallInstance(c) \/ UpdateServiceCallResult(c) PROVE FALSE
    <3>1. caller[c].pc # "idle"
      BY <2>5 DEF CallInstance, UpdateServiceCallResult
    <3>2. \A e \in Consumer : e # c => caller'[e] = caller[e]
      BY <2>0, <2>5 DEF CallInstance, UpdateServiceCallResult
    <3> QED BY <2>1, <3>1, <3>2
  <2>6. CASE UNCHANGED caller
    BY <2>1, <2>6
  <2> QED BY <2>3, <2>4, <2>5, <2>6 DEF Next, vars, Flip, Check, Expire, Recover, Tick
<1>4. OK => [OK]_vars
  OBVIOUS
<1>5. Spec => [][OK]_vars
  BY <1>1, <1>2, <1>3, TypedInit, TypedStep, PTL DEF Spec
<1> QED BY <1>5 DEF CutOffNotListed
=============================================================================
