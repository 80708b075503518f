--------------------------- MODULE SystemHistory ---------------------------
(***************************************************************************)
(* PolarisSystem, with history variables: for how long a provider has been *)
(* keeping the instance alive, and for how long the server has had no      *)
(* record of it.  They restrict no step.                                   *)
(***************************************************************************)
EXTENDS PolarisSystem

VARIABLES
  steady, \* for how long the instance has been beaten for without a break
  gone    \* for how long the server has not known the instance; both are
          \* counted up to MaxHistory

historyVars == <<proc, late, inst, starts, app, disk, runs, silent, steady, gone>>

(* Some process whose request the server has taken is in its loop, and the *)
(* instance has not been deregistered.                                     *)
Beating ==
  inst # None /\ \E p \in Process : proc[p].live /\ proc[p].pc \in P!LoopPc

Unknown == inst = None

MaxHistory == ContactTime + 1

HistoryInit == Init /\ steady = 0 /\ gone = 0

(* How long something holds that has held for n before. *)
Longer(n, holds, seconds) ==
  IF ~ holds THEN 0 ELSE IF n + seconds <= MaxHistory THEN n + seconds ELSE n

Count(seconds) ==
  /\ steady' = Longer(steady, Beating', seconds)
  /\ gone' = Longer(gone, Unknown', seconds)

HistoryNext ==
  \/ Provide /\ Count(0)
  \/ \E c \in App : Consume(c) /\ UNCHANGED <<steady, gone>>
  \/ Tick /\ Count(1)

HistorySpec == HistoryInit /\ [][HistoryNext]_historyVars

FairHistorySpec == HistorySpec /\ Fairness
-----------------------------------------------------------------------------
(* Once providers have kept the instance alive for longer than the longest *)
(* gap between two refreshes, every answer from the server's data offers   *)
(* it: lists have it as healthy, and the one instance of GetOneInstance is *)
(* a healthy one.  Crashes, late requests, lost heartbeats and restarts of *)
(* consumers may come in between, and each side builds the key of the      *)
(* service from an array of its own (provider_core.hpp, consumer_core.hpp).*)
BeatsAnswered ==
  [][\A c \in App :
       /\ steady > ContactTime
       /\ app[c].pc = "asking" /\ app'[c].pc = "told"
       /\ app[c].status = "kDataIsSyncing"
       => LET told == app'[c].answer.instances IN
          IF app[c].method = "GetOneInstance"
          THEN told # {} /\ \A i \in told : i.healthy
          ELSE app[c].method # "InitService" => Shown(told)]_historyVars

(* And once an instance has been deregistered for that long, no answer     *)
(* from the server's data has it, healthy or not: a copy taken before, or  *)
(* left on the disk by an earlier process, has been replaced as a whole    *)
(* (consumer_core.hpp answers from the copy).                              *)
GoneForgotten ==
  [][\A c \in App :
       /\ gone > ContactTime
       /\ app[c].pc = "asking" /\ app'[c].pc = "told"
       /\ app[c].status = "kDataIsSyncing"
       => \A i \in app'[c].answer.instances : ~ Self(i)]_historyVars
=============================================================================
