------------------------------ MODULE MCTimerWheel -----------------------------
(***************************************************************************)
(* Small instances of TimerWheel for TLC: a wheel of two or three levels   *)
(* whose whole range the clock can cross.                                  *)
(***************************************************************************)
EXTENDS TimerWheel, TLC

\* Two levels of two slots: the wheel reaches 4 ticks.
TwoLevels == [l \in 0 .. 1 |-> 2]
TwoSpans == [l \in 0 .. 1 |-> 2 ^ l]

\* Three levels of two slots: the wheel reaches 8 ticks.
ThreeLevels == [l \in 0 .. 2 |-> 2]
ThreeSpans == [l \in 0 .. 2 |-> 2 ^ l]

IdSymmetry == Permutations(TimerIds)

================================================================================
