---------------------------- MODULE MCVMAdmission ----------------------------
(* Instances of VMAdmission for TLC.                                         *)
EXTENDS VMAdmission, TLC

\* Machines are alike, and so are threads.
Symmetry == Permutations(VMs) \cup Permutations(Threads)
=============================================================================
