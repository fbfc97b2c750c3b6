----------------------------- MODULE MCWorkspace -----------------------------
EXTENDS Workspace, TLC

Symmetric == Permutations(Runner) \cup Permutations(Source) \cup Permutations(StateDir)
=============================================================================
