------------------------------ MODULE MCKernel ------------------------------
(* Kernel for TLC: tasks are interchangeable until they are created.         *)
EXTENDS Kernel

TaskSymmetry == Permutations(Task)
=============================================================================
