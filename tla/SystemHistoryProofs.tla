------------------------ MODULE SystemHistoryProofs ------------------------
(* An instance that is kept alive is offered to every consumer in bounded  *)
(* time, and one that was deregistered forgotten, for every number of      *)
(* processes on either side and every timeout.                             *)
EXTENDS SystemHistory, PolarisSystemProofs

(* Provider and consumer name the same service in their arrays.            *)
SameService ==
  \A k \in {"namespace", "service"} : P!Text(Info, k) = P!Text(Query, k)

(* No other instance has the address.                                      *)
NobodyElse == \A i \in Others : ~ Self(i)

(* What the providers' proof knows of the lease.                           *)
ProviderInv == LP!Typed /\ LP!LeaseInv

Absent(instances) == \A i \in instances : ~ Self(i)

(* A copy that is younger than the beating has the beating instance, and   *)
(* one that is younger than its absence does not have it.                  *)
KnowsBeats(c) ==
  app[c].status = "kDataIsSyncing" /\ app[c].age < steady => Shown(app[c].view)

KnowsAbsence(c) ==
  app[c].status = "kDataIsSyncing" /\ app[c].age < gone => Absent(app[c].view)

BeatsInv ==
  /\ steady \in Nat
  /\ steady > 0 => Beating
  /\ \A c \in App : KnowsBeats(c)

AbsenceInv ==
  /\ gone \in Nat
  /\ gone > 0 => Unknown
  /\ \A c \in App : KnowsAbsence(c)

-----------------------------------------------------------------------------
(* Both sides build the same key from their arrays.                        *)
LEMMA SameKey ==
  ASSUME SameService, NEW method
  PROVE  C!Request(method).key = P!Registration.key
<1> DEFINE info == P!TransferToStdMap(Info)
           query == C!TransferToStdMap(Query)
<1>1. /\ P!Text(info, "namespace") = P!Text(Info, "namespace")
      /\ P!Text(info, "service") = P!Text(Info, "service")
  BY DEF P!TransferToStdMap, P!Text, P!ArrayKey
<1>2. /\ C!Text(query, "namespace") = P!Text(Query, "namespace")
      /\ C!Text(query, "service") = P!Text(Query, "service")
  BY DEF C!TransferToStdMap, C!Text, P!Text, C!ArrayKey
<1> HIDE DEF info, query
<1>3. P!Registration.key = P!ServiceKey(P!Text(info, "namespace"), P!Text(info, "service"))
  BY DEF P!Registration, P!RegisterInstance, P!InstanceRegisterRequest, P!Key, info
<1>4. C!Request(method).key = C!ServiceKey(C!Text(query, "namespace"), C!Text(query, "service"))
  BY DEF C!Request, C!DoInitService, C!DoGetOneInstance, C!DoGetInstances,
         C!DoGetAllInstances, C!OneInstance, C!Instances, C!GetOneInstanceRequest,
         C!GetInstancesRequest, C!Service, query
<1> QED BY <1>1, <1>2, <1>3, <1>4 DEF SameService, P!ServiceKey, C!ServiceKey

(* While a provider beats, the server hands its instance out as healthy.   *)
LEMMA BeatsFound ==
  ASSUME LP!LeaseOutlasts, ProviderInv, LeaseInv, Beating
  PROVE  Shown(Found(P!Registration.key))
<1>1. LP!HealthyWhileBeating
  BY LP!LeaseHealthy, SameParameters DEF ProviderInv
<1>2. P!Healthy /\ inst # None
  BY <1>1 DEF LP!HealthyWhileBeating, LP!Healthy, P!Healthy, LP!LoopPc, P!LoopPc, Beating
<1>3. inst.req = P!Registration
  BY <1>2 DEF LeaseInv, P!Instance
<1>4. Entry(P!Registration, P!Healthy) \in Found(P!Registration.key)
  BY <1>2, <1>3 DEF Found
<1>5. Self(Entry(P!Registration, P!Healthy)) /\ Entry(P!Registration, P!Healthy).healthy
  BY <1>2 DEF Self, Entry
<1> QED BY <1>4, <1>5 DEF Shown

-----------------------------------------------------------------------------
(* The steps.                                                              *)

(* A process that refreshes its copy learns of the instance ...            *)
LEMMA RefreshKnows ==
  ASSUME LP!LeaseOutlasts, SameService, ProviderInv, SystemInv, BeatsInv,
         NEW c \in App, Refresh(c), UNCHANGED steady
  PROVE  KnowsBeats(c)'
<1>0. app \in [App -> AppState] /\ app[c] \in AppState
  BY TypedIs DEF SystemInv
<1>1. app'[c].view = Found(app[c].watched) /\ app'[c].age = 0 /\ app[c].watched # None
  BY <1>0 DEF Refresh, C!Refresh, AppState
<1>2. app[c].watched = P!Registration.key
  <2>1. PICK method \in Method : app[c].watched = C!Request(method).key
    BY <1>0, <1>1 DEF AppState
  <2> QED BY <2>1, SameKey
<1>3. steady > 0 => Shown(app'[c].view)
  BY <1>1, <1>2, BeatsFound DEF BeatsInv, SystemInv
<1> QED BY <1>1, <1>3 DEF KnowsBeats, Shown

(* ... or that it is gone ...                                              *)
LEMMA RefreshForgets ==
  ASSUME NobodyElse, SystemInv, AbsenceInv, NEW c \in App, Refresh(c), UNCHANGED gone
  PROVE  KnowsAbsence(c)'
<1>0. app \in [App -> AppState] /\ app[c] \in AppState
  BY TypedIs DEF SystemInv
<1>1. app'[c].view = Found(app[c].watched) /\ app'[c].age = 0
  BY <1>0 DEF Refresh, C!Refresh, AppState
<1>2. Unknown => Found(app[c].watched) \subseteq Others
  BY DEF Unknown, Found
<1>3. gone > 0 => Absent(app'[c].view)
  BY <1>1, <1>2 DEF AbsenceInv, Absent, NobodyElse
<1> QED BY <1>1, <1>3 DEF KnowsAbsence, Absent

(* ... and any other step of it leaves the copy as it is, or drops it.     *)
SameCopy(c) ==
  \/ app'[c].status # "kDataIsSyncing"
  \/ /\ app'[c].status = app[c].status
     /\ app'[c].view = app[c].view
     /\ app'[c].age = app[c].age

LEMMA OthersKeep ==
  ASSUME SystemInv, NEW c \in App, NEW d \in App, Consume(d), c # d \/ ~ Refresh(d)
  PROVE  SameCopy(c)
<1>0. app \in [App -> AppState] /\ app[c] \in AppState
  BY TypedIs DEF SystemInv
<1>2. CASE c # d
  BY <1>0, <1>2
     DEF Consume, C!StartApp, C!Respond, C!Proceed, C!StopApp, Refresh, C!Refresh, C!Lookup,
         SameCopy
<1>3. CASE c = d
  <2>1. CASE C!StopApp(c)
    BY <1>0, <2>1 DEF C!StopApp, C!NoProcess, SameCopy
  <2>2. CASE C!StartApp(c)
    <3>1. app'[c].status \in {"kDataNotInit", "kDataInitFromDisk"}
      BY <1>0, <2>2 DEF C!StartApp, C!NoProcess
    <3> QED BY <3>1 DEF SameCopy
  <2>3. CASE C!Respond(c)
    BY <1>0, <2>3 DEF C!Respond, AppState, SameCopy
  <2>4. CASE C!Proceed(c)
    BY <1>0, <2>4 DEF C!Proceed, AppState, SameCopy
  <2>5. ASSUME NEW method \in Method, C!Lookup(c, method) PROVE SameCopy(c)
    BY <1>0, <2>5 DEF C!Lookup, AppState, SameCopy
  <2> QED BY <1>3, <2>1, <2>2, <2>3, <2>4, <2>5 DEF Consume
<1> QED BY <1>2, <1>3

(* A second makes every copy the server gave older.                        *)
LEMMA TickAges ==
  ASSUME SystemInv, Tick, NEW c \in App
  PROVE  /\ app'[c].status = app[c].status /\ app'[c].view = app[c].view
         /\ app[c].age \in Nat
         /\ app[c].status = "kDataIsSyncing" => app'[c].age = app[c].age + 1
<1>1. app[c] \in AppState /\ ContactTime \in Nat
  BY TypedIs, Numbers DEF SystemInv
<1>2. app'[c] = [app[c] EXCEPT
                   !.age   = IF app[c].watched # None THEN @ + 1 ELSE @,
                   !.clock = IF app[c].pc = "asking" THEN @ + 1 ELSE @]
  BY DEF Tick, C!CacheTick
<1>3. app'[c].status = app[c].status /\ app'[c].view = app[c].view
  BY <1>1, <1>2 DEF AppState
<1>4. app[c].status = "kDataIsSyncing" => app[c].watched # None
  BY DEF SystemInv, CacheInv, AppInv
<1>5. app[c].age \in Nat /\ (app[c].watched # None => app'[c].age = app[c].age + 1)
  BY <1>1, <1>2 DEF AppState
<1> QED BY <1>3, <1>4, <1>5

(* What was counted grows by no more than the time that passed, and only   *)
(* while it lasts.                                                         *)
LEMMA LongerIs ==
  ASSUME NEW n \in Nat, NEW seconds \in {0, 1}, NEW holds
  PROVE  /\ Longer(n, holds, seconds) \in Nat
         /\ Longer(n, holds, seconds) <= n + seconds
         /\ Longer(n, holds, seconds) > 0 => holds
BY DEF Longer

-----------------------------------------------------------------------------
(* Every step keeps both invariants.                                       *)

LEMMA BeatsStep ==
  ASSUME LP!LeaseOutlasts, SameService, ProviderInv, SystemInv, BeatsInv,
         [HistoryNext]_historyVars
  PROVE  BeatsInv'
<1>1. CASE UNCHANGED historyVars
  BY <1>1 DEF historyVars, BeatsInv, Beating, KnowsBeats, Shown
<1>2. CASE Provide /\ Count(0)
  <2>1. app' = app /\ steady' \in Nat /\ steady' <= steady /\ (steady' > 0 => Beating')
    BY <1>2, LongerIs DEF Provide, Count, BeatsInv
  <2>2. ASSUME NEW c \in App PROVE KnowsBeats(c)'
    <3>1. app[c].age \in Nat
      BY TypedIs, Numbers DEF SystemInv, AppState
    <3> QED BY <2>1, <3>1 DEF BeatsInv, KnowsBeats, Shown
  <2> QED BY <2>1, <2>2 DEF BeatsInv
<1>3. ASSUME NEW d \in App, Consume(d), UNCHANGED steady PROVE BeatsInv'
  <2>1. Beating' <=> Beating
    BY <1>3 DEF Consume, Beating
  <2>2. ASSUME NEW c \in App, c # d \/ ~ Refresh(d) PROVE KnowsBeats(c)'
    <3>1. SameCopy(c) /\ KnowsBeats(c)
      BY <1>3, <2>2, OthersKeep DEF BeatsInv
    <3> QED BY <1>3, <3>1 DEF SameCopy, KnowsBeats, Shown
  <2>3. \A c \in App : KnowsBeats(c)'
    BY <1>3, <2>2, RefreshKnows
  <2> QED BY <1>3, <2>1, <2>3 DEF BeatsInv
<1>4. CASE Tick /\ Count(1)
  <2>1. steady \in Nat /\ steady' \in Nat /\ steady' <= steady + 1 /\ (steady' > 0 => Beating')
    BY <1>4, LongerIs DEF Count, BeatsInv
  <2>2. ASSUME NEW c \in App PROVE KnowsBeats(c)'
    BY <1>4, <2>1, TickAges DEF BeatsInv, KnowsBeats, Shown
  <2> QED BY <2>1, <2>2 DEF BeatsInv
<1> QED BY <1>1, <1>2, <1>3, <1>4 DEF HistoryNext

LEMMA AbsenceStep ==
  ASSUME NobodyElse, SystemInv, AbsenceInv, [HistoryNext]_historyVars
  PROVE  AbsenceInv'
<1>1. CASE UNCHANGED historyVars
  BY <1>1 DEF historyVars, AbsenceInv, Unknown, KnowsAbsence, Absent
<1>2. CASE Provide /\ Count(0)
  <2>1. app' = app /\ gone' \in Nat /\ gone' <= gone /\ (gone' > 0 => Unknown')
    BY <1>2, LongerIs DEF Provide, Count, AbsenceInv
  <2>2. ASSUME NEW c \in App PROVE KnowsAbsence(c)'
    <3>1. app[c].age \in Nat
      BY TypedIs, Numbers DEF SystemInv, AppState
    <3> QED BY <2>1, <3>1 DEF AbsenceInv, KnowsAbsence, Absent
  <2> QED BY <2>1, <2>2 DEF AbsenceInv
<1>3. ASSUME NEW d \in App, Consume(d), UNCHANGED gone PROVE AbsenceInv'
  <2>1. Unknown' <=> Unknown
    BY <1>3 DEF Consume, Unknown
  <2>2. ASSUME NEW c \in App, c # d \/ ~ Refresh(d) PROVE KnowsAbsence(c)'
    <3>1. SameCopy(c) /\ KnowsAbsence(c)
      BY <1>3, <2>2, OthersKeep DEF AbsenceInv
    <3> QED BY <1>3, <3>1 DEF SameCopy, KnowsAbsence, Absent
  <2>3. \A c \in App : KnowsAbsence(c)'
    BY <1>3, <2>2, RefreshForgets
  <2> QED BY <1>3, <2>1, <2>3 DEF AbsenceInv
<1>4. CASE Tick /\ Count(1)
  <2>1. gone \in Nat /\ gone' \in Nat /\ gone' <= gone + 1 /\ (gone' > 0 => Unknown')
    BY <1>4, LongerIs DEF Count, AbsenceInv
  <2>2. ASSUME NEW c \in App PROVE KnowsAbsence(c)'
    BY <1>4, <2>1, TickAges DEF AbsenceInv, KnowsAbsence, Absent
  <2> QED BY <2>1, <2>2 DEF AbsenceInv
<1> QED BY <1>1, <1>2, <1>3, <1>4 DEF HistoryNext

-----------------------------------------------------------------------------
(* The answers.                                                            *)

(* From a copy that shows the instance, a list shows it too, and the one   *)
(* instance of GetOneInstance is healthy.                                  *)
LEMMA Offered ==
  ASSUME NEW method, NEW view, Shown(view), method # "InitService",
         NEW chosen \in C!Choices(method, view)
  PROVE  IF method = "GetOneInstance"
         THEN chosen # {} /\ \A i \in chosen : i.healthy
         ELSE Shown(chosen)
<1>1. PICK self \in view : Self(self) /\ self.healthy
  BY DEF Shown
<1>2. self \in C!Available(view) /\ \A i \in C!Available(view) : i.healthy
  BY <1>1 DEF C!Available
<1>3. CASE method = "GetOneInstance"
  BY <1>2, <1>3 DEF C!Choices
<1>4. CASE method # "GetOneInstance"
  <2>1. chosen \in {C!Available(view), view}
    BY <1>4 DEF C!Choices
  <2> QED BY <1>1, <1>2, <1>4, <2>1 DEF Shown
<1> QED BY <1>3, <1>4

(* The array a script gets says the same of an instance.                   *)
LEMMA Converted ==
  ASSUME NEW chosen, NEW told, told = C!convertServiceResponseToZval("kReturnOk", chosen).instances
  PROVE  /\ chosen # {} => told # {}
         /\ (\A i \in chosen : i.healthy) => \A i \in told : i.healthy
         /\ Shown(chosen) => Shown(told)
<1>1. told = {C!convertInstanceToArray(i) : i \in chosen}
  BY DEF C!convertServiceResponseToZval
<1>2. \A i : /\ C!convertInstanceToArray(i).healthy = i.healthy
             /\ C!convertInstanceToArray(i).host = i.host
             /\ C!convertInstanceToArray(i).port = i.port
  BY DEF C!convertInstanceToArray
<1>3. \A i \in chosen : C!convertInstanceToArray(i) \in told
  BY <1>1
<1>4. ASSUME Shown(chosen) PROVE Shown(told)
  <2>1. PICK i \in chosen : Self(i) /\ i.healthy
    BY <1>4 DEF Shown
  <2> QED BY <1>2, <1>3, <2>1 DEF Shown, Self
<1>5. (\A i \in chosen : i.healthy) => \A i \in told : i.healthy
  BY <1>1, <1>2
<1> QED BY <1>3, <1>4, <1>5

(* Only an answer of the SDK takes a process from asking to told.          *)
LEMMA ToldByRespond ==
  ASSUME SystemInv, [HistoryNext]_historyVars, NEW c \in App,
         app[c].pc = "asking", app'[c].pc = "told"
  PROVE  C!Respond(c)
<1>0. app \in [App -> AppState] /\ app[c] \in AppState
  BY TypedIs DEF SystemInv
<1>1. app' # app
  BY DEF historyVars
<1>2. ~ Tick
  <2> SUFFICES ASSUME Tick PROVE FALSE
    OBVIOUS
  <2>1. app'[c] = [app[c] EXCEPT
                     !.age   = IF app[c].watched # None THEN @ + 1 ELSE @,
                     !.clock = IF app[c].pc = "asking" THEN @ + 1 ELSE @]
    BY DEF Tick, C!CacheTick
  <2> QED BY <1>0, <2>1 DEF AppState
<1>3. PICK d \in App : Consume(d)
  BY <1>1, <1>2 DEF HistoryNext, Provide, historyVars
<1>4. c = d
  BY <1>0, <1>3
     DEF Consume, C!StartApp, C!Respond, C!Proceed, C!StopApp, Refresh, C!Refresh, C!Lookup
<1>5. ~ C!StopApp(c) /\ ~ Refresh(c)
  BY <1>0 DEF C!StopApp, C!NoProcess, Refresh, C!Refresh, AppState
<1> QED BY <1>3, <1>4, <1>5 DEF Consume, C!StartApp, C!Proceed, C!Lookup

(* A kept-alive instance is offered by every answer from the server's data *)
(* once consumers had the time to refresh: for any timeouts the lease      *)
(* outlasts, heartbeats the server takes, and arrays that name the same    *)
(* service.                                                                *)
THEOREM BeatsAreAnswered ==
  ASSUME LP!LeaseOutlasts, LP!BeatsGetAccepted, SameService
  PROVE  HistorySpec => BeatsAnswered
<1> DEFINE I == ProviderInv /\ SystemInv /\ BeatsInv
           Offers(c) ==
             /\ steady > ContactTime
             /\ app[c].pc = "asking" /\ app'[c].pc = "told"
             /\ app[c].status = "kDataIsSyncing"
             => LET told == app'[c].answer.instances IN
                IF app[c].method = "GetOneInstance"
                THEN told # {} /\ \A i \in told : i.healthy
                ELSE app[c].method # "InitService" => Shown(told)
           OK == \A c \in App : Offers(c)
<1>1. HistoryInit => I
  <2>1. LP!Init => LP!Typed /\ LP!LeaseInv
    BY LP!TypedInit, LP!LeaseInit, SameParameters
  <2>2. HistoryInit => BeatsInv
    BY DEF HistoryInit, BeatsInv, KnowsBeats, Init, C!CacheInit, C!NoProcess
  <2> QED BY <2>1, <2>2, ProviderStart, SystemInit DEF HistoryInit, ProviderInv
<1>2. I /\ [HistoryNext]_historyVars => I'
  <2> SUFFICES ASSUME I, [HistoryNext]_historyVars PROVE I'
    OBVIOUS
  <2>1. [Next]_vars
    BY DEF HistoryNext, historyVars, Next, vars
  <2>2. ProviderInv'
    <3>1. [LP!Next]_(LP!vars)
      BY <2>1, ProviderSteps
    <3> QED BY <2>1, <3>1, ProviderTypes, LP!LeaseStep, SameParameters DEF ProviderInv
  <2> QED BY <2>1, <2>2, SystemStep, BeatsStep
<1>3. I /\ [HistoryNext]_historyVars => OK
  <2> SUFFICES ASSUME I, [HistoryNext]_historyVars, NEW c \in App, steady > ContactTime,
                      app[c].pc = "asking", app'[c].pc = "told",
                      app[c].status = "kDataIsSyncing", app[c].method # "InitService"
               PROVE  LET told == app'[c].answer.instances IN
                      IF app[c].method = "GetOneInstance"
                      THEN told # {} /\ \A i \in told : i.healthy
                      ELSE Shown(told)
    OBVIOUS
  <2>0. app \in [App -> AppState] /\ app[c] \in AppState
    BY TypedIs DEF SystemInv
  <2>1. C!Respond(c)
    BY ToldByRespond
  <2>2. PICK chosen \in C!Choices(app[c].method, app[c].view) :
          app'[c].answer = C!convertServiceResponseToZval("kReturnOk", chosen)
    BY <2>0, <2>1 DEF C!Respond, AppState
  <2>3. Shown(app[c].view)
    <3>1. app[c].age \in 0 .. ContactTime /\ steady \in Nat
      BY <2>0 DEF AppState, BeatsInv
    <3> QED BY <3>1, Numbers DEF BeatsInv, KnowsBeats
  <2> DEFINE told == app'[c].answer.instances
  <2>4. told = C!convertServiceResponseToZval("kReturnOk", chosen).instances
    BY <2>2
  <2> HIDE DEF told
  <2>5. IF app[c].method = "GetOneInstance"
        THEN told # {} /\ \A i \in told : i.healthy
        ELSE Shown(told)
    BY <2>3, <2>4, Offered, Converted
  <2> QED BY <2>5 DEF told
<1>4. OK => [OK]_historyVars
  OBVIOUS
<1>5. HistorySpec => [][OK]_historyVars
  BY <1>1, <1>2, <1>3, <1>4, PTL DEF HistorySpec
<1> QED BY <1>5 DEF BeatsAnswered

(* A deregistered instance is out of every answer from the server's data   *)
(* once consumers had the time to refresh, for any numbers; unless another *)
(* instance has its address.                                               *)
THEOREM GoneIsForgotten ==
  ASSUME NobodyElse
  PROVE  HistorySpec => GoneForgotten
<1> DEFINE I == SystemInv /\ AbsenceInv
           OK == \A c \in App :
                   /\ gone > ContactTime
                   /\ app[c].pc = "asking" /\ app'[c].pc = "told"
                   /\ app[c].status = "kDataIsSyncing"
                   => \A i \in app'[c].answer.instances : ~ Self(i)
<1>1. HistoryInit => I
  <2>1. HistoryInit => AbsenceInv
    BY DEF HistoryInit, AbsenceInv, KnowsAbsence, Init, C!CacheInit, C!NoProcess
  <2> QED BY <2>1, SystemInit DEF HistoryInit
<1>2. I /\ [HistoryNext]_historyVars => I'
  <2> SUFFICES ASSUME I, [HistoryNext]_historyVars PROVE I'
    OBVIOUS
  <2>1. [Next]_vars
    BY DEF HistoryNext, historyVars, Next, vars
  <2> QED BY <2>1, SystemStep, AbsenceStep
<1>3. I /\ [HistoryNext]_historyVars => OK
  <2> SUFFICES ASSUME I, [HistoryNext]_historyVars, NEW c \in App, gone > ContactTime,
                      app[c].pc = "asking", app'[c].pc = "told",
                      app[c].status = "kDataIsSyncing"
               PROVE  \A i \in app'[c].answer.instances : ~ Self(i)
    OBVIOUS
  <2>0. app \in [App -> AppState] /\ app[c] \in AppState
    BY TypedIs DEF SystemInv
  <2>1. C!Respond(c)
    BY ToldByRespond
  <2>2. PICK chosen \in C!Choices(app[c].method, app[c].view) :
          app'[c].answer = C!convertServiceResponseToZval("kReturnOk", chosen)
    BY <2>0, <2>1 DEF C!Respond, AppState
  <2>3. chosen \subseteq app[c].view
    BY ChosenFromView
  <2>4. Absent(app[c].view)
    <3>1. app[c].age \in 0 .. ContactTime /\ gone \in Nat
      BY <2>0 DEF AppState, AbsenceInv
    <3> QED BY <3>1, Numbers DEF AbsenceInv, KnowsAbsence
  <2>5. app'[c].answer.instances = {C!convertInstanceToArray(i) : i \in chosen}
    BY <2>2 DEF C!convertServiceResponseToZval
  <2>6. \A i : Self(C!convertInstanceToArray(i)) <=> Self(i)
    BY DEF C!convertInstanceToArray, Self
  <2> QED BY <2>3, <2>4, <2>5, <2>6 DEF Absent
<1>4. OK => [OK]_historyVars
  OBVIOUS
<1>5. HistorySpec => [][OK]_historyVars
  BY <1>1, <1>2, <1>3, <1>4, PTL DEF HistorySpec
<1> QED BY <1>5 DEF GoneForgotten
=============================================================================
