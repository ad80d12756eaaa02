---------------------------- MODULE MCBaseKernel -----------------------------
EXTENDS BaseKernel
=============================================================================
