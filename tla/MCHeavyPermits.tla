---------------------------- MODULE MCHeavyPermits ----------------------------
(* The service asks for a command and for a hold, another process for a command. *)
EXTENDS PermitLaneRefinement

CONSTANTS serviceRun, serviceHold, commandRun

MCJobs == {serviceRun, serviceHold, commandRun}
MCServiceJobs == {serviceRun, serviceHold}
MCHolds == {serviceHold}

=============================================================================
