---------------------------- MODULE MCGraphRuntime ----------------------------
EXTENDS GraphRuntime, TLC

Processes == Permutations(Instance) \cup Permutations(Notifier)
===============================================================================
