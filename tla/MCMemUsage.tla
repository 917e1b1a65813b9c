----------------------------- MODULE MCMemUsage -----------------------------
(* Two callers, two counters: one capped at two different caps (as after a  *)
(* plan change), one uncapped, in 3-bit integers so that it wraps.          *)
EXTENDS MemUsage

CONSTANTS calls, emails

MCInc(k, delta, max) == [op |-> "increment", key |-> k, delta |-> delta, max |-> max]
MCGet(k) == [op |-> "get", key |-> k, delta |-> 0, max |-> 0]

MCKeys == {calls, emails}
MCRequests == {MCInc(calls, 1, 1), MCInc(calls, 1, 2), MCInc(emails, 1, -1), MCGet(calls)}

\* Two caps near the largest integer.
MCNearMax == {MCInc(calls, 2, 3), MCInc(calls, 1, 2)}
=============================================================================
