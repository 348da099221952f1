------------------------------- MODULE MCCron -------------------------------
(* A small instance of CronScheduler for TLC.                                *)
EXTENDS CronScheduler

OnePeriod == {2}
==============================================================================
