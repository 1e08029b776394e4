---------------------------- MODULE MCScheduler ----------------------------
(* Model-checking instance of Scheduler: three slots, two priority levels. *)
EXTENDS Scheduler

TwoLevels == {High, Normal}

\* What launch_user_program and sys_thread_create use (Thread::new_user).
OneLevel == {Normal}
=============================================================================
