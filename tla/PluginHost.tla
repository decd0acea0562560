----------------------------- MODULE PluginHost -----------------------------
(***************************************************************************)
(* The plugin registry and one of the analytics it runs.  They share no    *)
(* state: a frame is one step of the analytic because the registry never   *)
(* analyses two frames of a camera at once (OneAtATime).  Which of them a  *)
(* behaviour is about is chosen at its start.                              *)
(***************************************************************************)
EXTENDS PluginRegistry, TLC

CONSTANTS
  Places, MaxObjects, MaxPeople, Gaps, Persistence,
  Suspicious, Pending, Abandoned, Stale, Removed, None

VARIABLES subject, tracks, people, object, alone, steady, mixed, blurred

Analytic == INSTANCE AbandonedObject

ASSUME AnalyticParameters == Analytic!Parameters

analytic == <<tracks, people, object, alone, steady, mixed, blurred>>

HostInit ==
  /\ subject \in {"registry", "analytic"}
  /\ Init /\ Analytic!Init
  /\ subject = "analytic" => ~row.enabled /\ row.config = CHOOSE v \in Configs : TRUE

HostNext ==
  /\ UNCHANGED subject
  /\ \/ subject = "registry" /\ Next /\ UNCHANGED analytic
     \/ subject = "analytic" /\ Analytic!Next /\ UNCHANGED vars

HostSpec == HostInit /\ [][HostNext]_<<subject, vars, analytic>> /\ Fairness

-----------------------------------------------------------------------------
(* What the analytic takes for one object is one, what it reports as       *)
(* abandoned was alone for long enough, and whatever was so is reported.   *)
ToldRight == Analytic!Apart /\ Analytic!AloneWhenAbandoned /\ Analytic!InTime

(* An abandoned object that then goes has been reported as removed.        *)
RemovedTold == Analytic!RemovedTold
=============================================================================
