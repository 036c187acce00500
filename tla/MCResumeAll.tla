---------------------------- MODULE MCResumeAll ----------------------------
(* ResumeAll for TLC.  The tasks are alike, and so are the timers.           *)
EXTENDS ResumeAll, TLC

Symmetry == Permutations(Node \ Timers) \cup Permutations(Timers)
=============================================================================
