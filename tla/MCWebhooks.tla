------------------------------ MODULE MCWebhooks ------------------------------
(* Instances of Webhooks for TLC. *)
EXTENDS Webhooks

CONSTANTS h1, s1, s2, v1

\* The shortest schedule with a retry.
OneRetry == <<1, 2>>

\* RETRY_SCHEDULE itself.
FullSchedule == <<60, 300, 1800, 7200, 21600, 86400>>
===============================================================================
