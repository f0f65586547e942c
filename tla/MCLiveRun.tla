------------------------------ MODULE MCLiveRun ------------------------------
(* Model-checking instance of LiveRun: order ids are interchangeable.        *)
EXTENDS LiveRun, TLC

SlotSymmetry == Permutations(Slots)

\* For the runs of TargetReached and HaltedFlattens: a client that is down, an
\* order that is lost and a run that has ended stay so and settle both
\* properties, so a counterexample never leaves these states.
Undecided == Healthy /\ RunLasts
=============================================================================
