------------------------------- MODULE MCCtrl -------------------------------
\* Instances of the controller for TLC: names have no order; requests,
\* publications and failures together stay within a budget.
EXTENDS DeployCtrl, TLC

CONSTANT MaxInput

Names == Permutations(Rid) \cup Permutations(Thread) \cup Permutations(Version)

Budget == Len(asks) + 2 * begun + faults <= MaxInput
=============================================================================
