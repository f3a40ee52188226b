-------------------------- MODULE MCBrowserControl --------------------------
(* An agent, two humans who may ask for control, two overlapping control *)
(* changes and two other calls.                                          *)
EXTENDS BrowserControl, TLC

CONSTANTS a1, s1, s2, t1, t2, c1, c2

MCAgents == {a1}
MCSystems == {s1, s2}
MCTransfers == {t1, t2}
MCCalls == {c1, c2}
MCSymmetry == Permutations(MCSystems) \cup Permutations(MCTransfers) \cup Permutations(MCCalls)
=============================================================================
