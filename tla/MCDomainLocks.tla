--------------------------- MODULE MCDomainLocks ---------------------------
(***************************************************************************)
(* One section under every kind of contention.  BombVault runs its probes  *)
(* on one worker, so there is one follow-up.                               *)
(***************************************************************************)
EXTENDS DomainLocks, TLC

CONSTANTS r1, r2, a1, d1, f1, w1

TwoRuns == {r1, r2}
OneRun == {r1}
OneAsk == {a1}
OneRemoval == {d1}
OneProbe == {f1}
OneWindow == {w1}
ProbeOnly == {f1}
ProbeAndCopy == {f1, r2}
=============================================================================
