------------------------------- MODULE MCKernel -------------------------------
(* The instance of the kernel that TLC checks; see MCKernel*.cfg.           *)
EXTENDS Kernel
=============================================================================
