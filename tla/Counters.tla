------------------------------ MODULE Counters ------------------------------
(***************************************************************************)
(* The arithmetic of one usage counter: what MemUsage.Increment            *)
(* (entitlement/memstore.go) does to it in the end.                        *)
(***************************************************************************)
EXTENDS GoValues

FitsBefore(total, delta, max) == max < 0 \/ total <= max

\* max < 0 means uncapped.
Fits(total, delta, max) == max < 0 \/ Wrap(total + delta) <= max

Increment(total, delta, max) ==
    IF Fits(total, delta, max) THEN Wrap(total + delta) ELSE total
=============================================================================
