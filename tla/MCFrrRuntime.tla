---------------------------- MODULE MCFrrRuntime ----------------------------
EXTENDS FrrRuntime

OneNode    == <<"r1">>
OneDaemon  == <<"zebra">>
TwoDaemons == <<"zebra", "ospfd">>

PidSymmetry == Permutations(Pids)
=============================================================================
