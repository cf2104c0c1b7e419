---------------------------- MODULE MCAgentSweep -----------------------------
(* AgentSweep on days of two minutes of two units each. *)
EXTENDS AgentSweep, TLC

EveryMinute == Every(2)
CronDays == {Cron({0}, {0, 2})}
LateDaily == {Daily({2})}
Symmetry == Permutations(Passes)
=============================================================================
