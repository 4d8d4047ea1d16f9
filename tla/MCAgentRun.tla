----------------------------- MODULE MCAgentRun -----------------------------
(* AgentRun on a small instance: two jobs of one workspace.                  *)
EXTENDS AgentRun, TLC

CONSTANTS j1, j2, a, b

Item(id, under, into, links) == [id |-> id, under |-> under, into |-> into, links |-> links]

\* The first job may persist a child listed before the parent it links to; the
\* second nothing, or an item for the tree's first one and two of one local id.
MCBatches ==
  j1 :> {<<Item(b, a, 0, TRUE), Item(a, NoItem, 0, FALSE)>>} @@
  j2 :> {<<>>, <<Item(b, NoItem, 1, FALSE), Item(a, NoItem, 0, FALSE), Item(a, b, 0, FALSE)>>}

MCMaxLLMCalls == j1 :> 2 @@ j2 :> 1

MCJobOf == <<j1, j1, j2>>

\* One pass whose capability may be unreadable, with a fault; two passes of one job,
\* at once or one after the other, with a fault; and one of each job.
MCAllowances ==
  {[runs |-> {1}, unread |-> 1, faults |-> 1],
   [runs |-> {1, 2}, unread |-> 0, faults |-> 1],
   [runs |-> {1, 3}, unread |-> 0, faults |-> 0]}

=============================================================================
