-------------------------- MODULE MCQueueFetches --------------------------
(***************************************************************************)
(* Two groups and two fetch tasks: a group has one fetch in flight, and a  *)
(* republish can leave one out for a room that is no longer published.     *)
(***************************************************************************)
EXTENDS QueueFetches

CONSTANTS g1, g2, t1, t2, failure

TwoGroups == {g1, g2}
TwoTasks == {t1, t2}
===========================================================================
