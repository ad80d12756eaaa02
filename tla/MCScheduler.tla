---------------------------- MODULE MCScheduler ----------------------------
(* The instances of the scheduler that TLC checks; see MCScheduler*.cfg.    *)
EXTENDS SchedulerWait
=============================================================================
