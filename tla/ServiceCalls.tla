---------------------------- MODULE ServiceCalls ----------------------------
(***************************************************************************)
(* Consumers that ask for an instance (polaris/consumer_core.hpp), call it *)
(* and report how the call went, and the circuit breaker of the SDK that   *)
(* lives on these reports: the chain errorCount, errorRate of              *)
(* polaris.yaml.template.  One Tick is one second.                         *)
(***************************************************************************)
EXTENDS ConsumerRequests, Sequences, FiniteSets

CONSTANTS
  Consumer,     \* scripts that use the service at the same time
  Instance,     \* the instances, as records [id, host, port, healthy, metadata]
  Lookup,       \* the methods the scripts look instances up with
  Query,        \* the array the scripts give them
  ReportKey,    \* the keys of an answer that scripts report the instance by
  Rule,         \* routing rule of the service: metadata from -> metadata to
  Threshold,    \* errCount.continuousErrorThreshold
  Volume,       \* errRate.requestVolumeThreshold
  Percent,      \* errRate.errorRateThreshold
  MaxReports,   \* bound: reports on an instance in one metricStatTimeWindow
  SleepWindow,  \* sleepWindow, the same for both
  Trials,       \* requestCountAfterHalfOpen, the same for both
  Successes     \* successCountAfterHalfOpen, the same for both

ASSUME BreakerAssumption ==
  /\ MaxReports \in Nat \ {0}
  /\ Threshold \in 1 .. MaxReports
  /\ Volume \in 1 .. MaxReports
  /\ Percent \in 1 .. 100
  /\ SleepWindow \in Nat \ {0}
  /\ Trials \in Nat \ {0}
  /\ Successes \in 1 .. Trials

VARIABLES
  up,      \* up[i]: the instance answers calls
  breaker, \* breaker[i]: the SDK's circuit breaker of instance i
  caller,  \* caller[c]: what consumer c is doing
  calls    \* calls[i]: for each call of i reported in the time window, since
           \* its breaker was last closed, whether it failed: by what happened
           \* and not by what was reported

vars == <<up, breaker, caller, calls>>

-----------------------------------------------------------------------------
(* What the SDK makes of requests and reports (include/polaris/consumer.h, *)
(* polaris.yaml.template).                                                 *)

OneRequest  == DoGetOneInstance(Query, ApiTimeout)
ListRequest == DoGetInstances(Query, ApiTimeout)

Closed == [state |-> "closed", recent |-> <<>>, left |-> 0, trials |-> 0, good |-> 0]
Opened == [Closed EXCEPT !.state = "open", !.left = SleepWindow]

Matches(metadata, wanted) ==
  \A k \in DOMAIN wanted : k \in DOMAIN metadata /\ metadata[k] = wanted[k]

(* The rule applies to callers that show its metadata. *)
Routed(req) ==
  IF Matches(req.source_service.metadata, Rule.from)
  THEN {i \in Instance : Matches(i.metadata, Rule.to)}
  ELSE Instance

(* When nothing passes the breakers, everything does. *)
OrAll(passable, req) == IF passable = {} THEN Routed(req) ELSE passable

IsClosed(i) == breaker[i].state = "closed"

OnTrial(i, req) ==
  /\ breaker[i].state = "half_open"
  /\ ~ req.ignore_half_open
  /\ breaker[i].trials < Trials

(* The instances GetOneInstance chooses from, and those GetInstances lists. *)
Candidates(req) == OrAll({i \in Routed(req) : IsClosed(i) \/ OnTrial(i, req)}, req)

Listed(req) == OrAll({i \in Routed(req) : IsClosed(i) \/ req.include_circuit_break}, req)

Failed(status) == status # "kCallRetOk"

(* What a breaker keeps of the reports in its time window, the latest last. *)
Reports == {recent \in Seq(BOOLEAN) : Len(recent) <= MaxReports}

Rest(recent) == IF recent = <<>> THEN recent ELSE Tail(recent)

Recorded(recent, failed) ==
  Append(IF Len(recent) < MaxReports THEN recent ELSE Rest(recent), failed)

(* The two breakers of the chain: so many failures in a row, or so large a *)
(* part of no less than so many calls.                                     *)
ErrorCount(recent) ==
  /\ Len(recent) >= Threshold
  /\ \A k \in Len(recent) - Threshold + 1 .. Len(recent) : recent[k]

ErrorRate(recent) ==
  /\ Len(recent) >= Volume
  /\ 100 * Cardinality({k \in DOMAIN recent : recent[k]}) >= Percent * Len(recent)

Due(recent) == ErrorCount(recent) \/ ErrorRate(recent)

(* The breaker of an instance after a report on it.  One that is half open *)
(* does not ask whether the call was made before it opened.                *)
Reported(b, status) ==
  IF b.state = "closed" THEN [b EXCEPT !.recent = Recorded(@, Failed(status))]
  ELSE IF b.state = "half_open"
  THEN IF Failed(status) THEN Opened
       ELSE IF b.good + 1 < Successes THEN [b EXCEPT !.good = @ + 1]
       ELSE Closed
  ELSE b

-----------------------------------------------------------------------------
(* The strings of class Polaris for how a call went. *)
RetStatus(outcome) == outcome
Outcome == {"ok", "error", "timeout"}

Idle == [pc |-> "idle", answer |-> {}, outcome |-> "ok"]

Init ==
  /\ up = [i \in Instance |-> TRUE]
  /\ breaker = [i \in Instance |-> Closed]
  /\ caller = [c \in Consumer |-> Idle]
  /\ calls = [i \in Instance |-> <<>>]

Answer(c, instances) ==
  caller' = [caller EXCEPT ![c].pc = "calling",
               ![c].answer = convertServiceResponseToZval("kReturnOk", instances).instances]

(* Mutant: an instance nobody may try any more is charged a trial as well. *)
GetOneInstanceOvercharges(c, i) ==
  /\ "GetOneInstance" \in Lookup
  /\ caller[c].pc = "idle"
  /\ i \in Candidates(OneRequest)
  /\ Answer(c, {i})
  /\ breaker' = IF IsClosed(i) THEN breaker ELSE [breaker EXCEPT ![i].trials = @ + 1]
  /\ UNCHANGED <<up, calls>>

(* PolarisClient::GetOneInstance, with the choice the SDK makes. *)
GetOneInstance(c, i) ==
  /\ "GetOneInstance" \in Lookup
  /\ caller[c].pc = "idle"
  /\ i \in Candidates(OneRequest)
  /\ Answer(c, {i})
  /\ breaker' = IF OnTrial(i, OneRequest) THEN [breaker EXCEPT ![i].trials = @ + 1]
                ELSE breaker
  /\ UNCHANGED <<up, calls>>

(* PolarisClient::GetInstances: a list, out of which the script chooses.   *)
GetInstances(c) ==
  /\ "GetInstances" \in Lookup
  /\ caller[c].pc = "idle"
  /\ Answer(c, Listed(ListRequest))
  /\ UNCHANGED <<up, breaker, calls>>

(* The instance an array or a report is about. *)
At(r) == {i \in Instance : i.host = r.host /\ i.port = r.port}

(* The script calls an instance of its answer, by host and port. *)
CallInstance(c) ==
  /\ caller[c].pc = "calling"
  /\ \E a \in caller[c].answer : \E i \in At(a), outcome \in Outcome :
       /\ (outcome = "ok") <=> up[i]
       /\ caller' = [caller EXCEPT ![c] = [pc |-> "called", answer |-> {a}, outcome |-> outcome]]
  /\ UNCHANGED <<up, breaker, calls>>

(* What the script was told of the instance it called. *)
CalledArray(c) == CHOOSE a \in caller[c].answer : TRUE

(* The array a script reports with: what it was told of the instance under *)
(* the keys it reports by, and how the call went.                          *)
ReportArray(c) ==
  [k \in (ReportKey \cap DOMAIN CalledArray(c)) \cup {"ret_status"} |->
     IF k = "ret_status" THEN RetStatus(caller[c].outcome) ELSE CalledArray(c)[k]]

(* The instance the SDK takes a report for: by its id, else by its address. *)
Meant(result) ==
  IF result.instance_id # "" THEN {i \in Instance : i.id = result.instance_id} ELSE At(result)

UpdateServiceCallResult(c) ==
  /\ caller[c].pc = "called"
  /\ caller' = [caller EXCEPT ![c] = Idle]
  /\ \E result \in {DoUpdateServiceCallResult(ReportArray(c))} :
       breaker' = [i \in Instance |->
                     IF i \in Meant(result) THEN Reported(breaker[i], result.ret_status)
                     ELSE breaker[i]]
  /\ calls' = [i \in Instance |->
                 IF \A a \in caller[c].answer : i \notin At(a) THEN calls[i]
                 ELSE IF IsClosed(i) THEN Recorded(calls[i], caller[c].outcome # "ok")
                 ELSE <<>>]
  /\ UNCHANGED up

(* The check of the breakers that circuitBreaker.checkPeriod schedules. *)
Check(i) ==
  /\ breaker[i].state = "closed"
  /\ Due(breaker[i].recent)
  /\ breaker' = [breaker EXCEPT ![i] = Opened]
  /\ calls' = [calls EXCEPT ![i] = <<>>]
  /\ UNCHANGED <<up, caller>>

(* The oldest report falls out of the time window. *)
Expire(i) ==
  /\ breaker[i].recent # <<>>
  /\ breaker' = [breaker EXCEPT ![i].recent = Rest(@)]
  /\ calls' = [calls EXCEPT ![i] = Rest(@)]
  /\ UNCHANGED <<up, caller>>

(* An instance breaks down or comes back. *)
Flip(i) ==
  /\ up' = [up EXCEPT ![i] = ~ @]
  /\ UNCHANGED <<breaker, caller, calls>>

(* An open breaker turns half open when its window is over. *)
Tick ==
  /\ \E i \in Instance : breaker[i].state = "open"
  /\ breaker' = [i \in Instance |->
       IF breaker[i].state # "open" THEN breaker[i]
       ELSE IF breaker[i].left > 1 THEN [breaker[i] EXCEPT !.left = @ - 1]
       ELSE [Closed EXCEPT !.state = "half_open"]]
  /\ UNCHANGED <<up, caller, calls>>

(* A half-open breaker nobody tries recovers by itself after a while. *)
Recover(i) ==
  /\ breaker[i].state = "half_open"
  /\ breaker[i].trials = 0
  /\ breaker' = [breaker EXCEPT ![i] = Closed]
  /\ calls' = [calls EXCEPT ![i] = <<>>]
  /\ UNCHANGED <<up, caller>>

Next ==
  \/ \E c \in Consumer :
       \/ GetInstances(c) \/ CallInstance(c) \/ UpdateServiceCallResult(c)
       \/ \E i \in Instance : GetOneInstance(c, i)
  \/ \E i \in Instance : Flip(i) \/ Check(i) \/ Expire(i) \/ Recover(i)
  \/ Tick

Spec == Init /\ [][Next]_vars

(* Time passes, scripts go on with what they began, and the balancer does  *)
(* not pass over a candidate that was cut off for ever, whoever asks.      *)
Fairness ==
  /\ WF_vars(Tick)
  /\ \A c \in Consumer : WF_vars(CallInstance(c) \/ UpdateServiceCallResult(c))
  /\ \A i \in Instance : SF_vars(~ IsClosed(i) /\ \E c \in Consumer : GetOneInstance(c, i))

FairSpec == Spec /\ Fairness
-----------------------------------------------------------------------------
(* Properties.                                                             *)

(* Type invariant. *)
TypeOK ==
  /\ up \in [Instance -> BOOLEAN]
  /\ breaker \in [Instance -> [state : {"closed", "open", "half_open"},
                               recent : Reports, left : 0 .. SleepWindow,
                               trials : 0 .. Trials, good : 0 .. Successes - 1]]
  /\ caller \in [Consumer -> [pc : {"idle", "calling", "called"},
                              answer : SUBSET {convertInstanceToArray(i) : i \in Instance},
                              outcome : Outcome]]
  /\ calls \in [Instance -> Reports]

(* An instance whose calls, as they happened, are reason to cut it off is  *)
(* cut off by the next check at the latest: no failure is lost, reordered  *)
(* or taken for a success on its way through ret_status, however many      *)
(* scripts report at the same time, and none is booked on another instance.*)
FailuresCutOff ==
  \A i \in Instance : IsClosed(i) /\ Due(calls[i]) => Due(breaker[i].recent)

(* And it is cut off for nothing else.  An instance in use is when its own *)
(* calls, as they happened, are reason enough for one of the two breakers. *)
(* A half-open one is when a failed call of it has just been reported,     *)
(* also one from before it was cut off; successes and the failures of      *)
(* other instances never do that.                                          *)
CutOffForCause ==
  [][\A i \in Instance :
       /\ breaker[i].state # "open"
       /\ breaker'[i].state = "open"
       => IF IsClosed(i) THEN Due(calls[i])
          ELSE \E c \in Consumer :
                 /\ caller[c].pc = "called" /\ caller'[c].pc = "idle"
                 /\ caller[c].outcome # "ok"
                 /\ \E a \in caller[c].answer : i \in At(a)]_vars

(* An instance that stays up is in use again in the end and stays so,      *)
(* whatever calls made before are still reported: GetOneInstance hands out *)
(* half-open instances unless the script set ignore_half_open.             *)
UpAgain ==
  \A i \in Instance : <>[] up[i] => <>[] IsClosed(i)

(* While another instance is in use, no new answer shows a script one that *)
(* was cut off and whose window is not over, unless the script asked for   *)
(* it by include_circuit_breaker_instances.                                *)
CutOffNotListed ==
  [][\A c \in Consumer : \A i \in Instance :
       /\ caller[c].pc = "idle"
       /\ convertInstanceToArray(i) \in caller'[c].answer
       /\ breaker[i].state = "open"
       => \A j \in Instance : ~ IsClosed(j)]_vars

(* A caller that shows the metadata of the routing rule is sent to an      *)
(* instance the rule names.                                                *)
RoutedBySource ==
  \A c \in Consumer : \A a \in caller[c].answer :
    "source_service" \in DOMAIN Query /\ Matches(Query["source_service"].metadata, Rule.from)
    => Matches(a.metadata, Rule.to)
=============================================================================
