----------------------- MODULE MCSchedulerRegistration -----------------------
EXTENDS SchedulerRegistration, TLC

Symmetry == Permutations(Keys) \cup Permutations(Callers)

==============================================================================
