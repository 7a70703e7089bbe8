---------------------------- MODULE MCCronService ----------------------------
(***************************************************************************)
(* CronService on a small instance: a one-time job and a recurring one.    *)
(***************************************************************************)
EXTENDS CronService

MCKinds == <<{"at"}, {"every"}>>
=============================================================================
