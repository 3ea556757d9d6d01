------------------------------ MODULE WheelLayout ------------------------------
(***************************************************************************)
(* Where the hierarchical timer wheel of mill-io/src/timer_wheel.rs keeps  *)
(* a timer: the level and slot of a deadline, seen from a cursor position. *)
(* The tables LEVEL_SIZE, SHIFTS and MASKS of the code (l.23-33) are the   *)
(* constants LevelSize and Span, with Span[l] = 2^SHIFTS[l], so that       *)
(* "x >> SHIFTS[l]" is x \div Span[l] and "x & MASKS[l]" is                *)
(* x % LevelSize[l].                                                       *)
(***************************************************************************)
EXTENDS Integers

CONSTANTS NumLevels,    \* NUM_LEVELS, 4 in the code
          LevelSize,    \* slots of each level, 256, 64, 64, 64 in the code
          Span          \* ticks one slot of each level stands for

Levels == 0 .. NumLevels - 1

(***************************************************************************)
(* The tables fit together: a slot of a level stands for exactly one turn  *)
(* of the level below it.                                                  *)
(***************************************************************************)
ASSUME LayoutAssumption ==
    /\ NumLevels \in Nat \ {0}
    /\ LevelSize \in [Levels -> Nat \ {0, 1}]
    /\ Span \in [Levels -> Nat \ {0}]
    /\ Span[0] = 1
    /\ \A l \in Levels \ {0} : Span[l] = Span[l - 1] * LevelSize[l - 1]

\* The ticks the levels up to l reach: 1 << cumulative_bits.
Reach(l) == Span[l] * LevelSize[l]

\* MAX_RANGE_TICKS
MaxRange == Reach(NumLevels - 1)

\* The slots of all levels; a wheel is a set of timers for each of them.
Cells == UNION {{l} \X (0 .. LevelSize[l] - 1) : l \in Levels}

\* The slot of level l that tick x falls in.
SlotOf(l, x) == (x \div Span[l]) % LevelSize[l]

\* u64::saturating_sub
Monus(x, y) == IF x >= y THEN x - y ELSE 0

\* An off-by-one in the level's reach (a mutant).
LevelForDeltaInclusive(delta) ==
    CHOOSE l \in Levels : /\ delta <= Reach(l) \/ l = NumLevels - 1
                          /\ \A k \in 0 .. l - 1 : delta > Reach(k)

\* The lowest level whose span covers delta, the last one when none does.
LevelForDelta(delta) ==
    CHOOSE l \in Levels : /\ delta < Reach(l) \/ l = NumLevels - 1
                          /\ \A k \in 0 .. l - 1 : delta >= Reach(k)

\* Whether a deadline is beyond the wheel when the cursor is at c.
TooFar(c, deadline) == Monus(deadline, c) >= MaxRange

\* The cell of a deadline that is not too far.
CellOf(c, deadline) ==
    LET l == LevelForDelta(Monus(deadline, c)) IN <<l, SlotOf(l, deadline)>>

\* The level-0 slot the cursor is in.
CursorCell(c) == <<0, SlotOf(0, c)>>

================================================================================
