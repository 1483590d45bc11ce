---------------------------- MODULE MCScheduler ----------------------------
(***************************************************************************)
(* Instances of Scheduler for TLC.                                         *)
(***************************************************************************)
EXTENDS Scheduler, TLC

CONSTANTS c1, parent, child, spin, op1, op2

Medium == 2
High   == 1

\* parent submits op2, spawns the more urgent child, which panics, and awaits it.
FamilyTasks   == {parent, child}
FamilyPrio    == parent :> Medium @@ child :> High
FamilyAwaits  == parent :> {child} @@ child :> {}
FamilySubmits == parent :> {op2} @@ child :> {}

\* parent is in tasks[2..], and shares executors with spin, which never ends and is
\* in tasks[0..2], as child is, which parent awaits.
CrowdTasks   == {parent, child, spin}
CrowdPrio    == [t \in Tasks |-> IF t = parent THEN Medium ELSE High]
CrowdAwaits  == parent :> {child} @@ child :> {} @@ spin :> {}
NoSubmits    == [t \in Tasks |-> {}]
NoAwaits     == [t \in Tasks |-> {}]

\* One executor, as in ExecConfig::default.
OnePrio    == parent :> High
OneAwaits  == parent :> {}
PairPrio   == parent :> High @@ child :> High
=============================================================================
