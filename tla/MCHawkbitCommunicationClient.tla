-------------------- MODULE MCHawkbitCommunicationClient --------------------
(* The responses: what the Handler of this device answers, with a listener *)
(* and without a pause, and those of a plainer handler.                    *)
EXTENDS HawkbitCommunicationClient, TLC

CONSTANTS a1, a2

Resp(e, l, i) == [execution |-> e, listener |-> l, ignoreSleep |-> i]

MCActions == {a1, a2}
MCDeploymentResponses == {Resp("CLOSED", TRUE, TRUE), Resp("REJECTED", TRUE, TRUE),
                          Resp("CLOSED", FALSE, FALSE)}
MCCancelResponses == {Resp("CLOSED", FALSE, TRUE), Resp("REJECTED", TRUE, FALSE)}
MCSleepTimes == {-1, 0, 2}
=============================================================================
