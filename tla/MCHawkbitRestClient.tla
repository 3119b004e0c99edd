------------------------ MODULE MCHawkbitRestClient ------------------------
(* Responses with and without a listener, and with and without a pause;    *)
(* no sleep time, one of seconds and hawkBit's usual five minutes.         *)
EXTENDS HawkbitRestClient, TLC

CONSTANTS a1, a2

Resp(e, l, i) == [execution |-> e, listener |-> l, ignoreSleep |-> i]

MCActions == {a1, a2}
MCDeploymentResponses == {Resp("CLOSED", TRUE, TRUE), Resp("REJECTED", TRUE, TRUE),
                          Resp("CLOSED", FALSE, FALSE)}
MCCancelResponses == {Resp("CLOSED", FALSE, TRUE), Resp("CLOSED", TRUE, TRUE)}
MCSleepTimes == {0, 20000, 300000}
MCPollingTimeouts == {None, 3000}
=============================================================================
