--------------------------- MODULE TimerCalibrate ---------------------------
(***************************************************************************)
(* timer_calibrate (devices/timer.c): the number of busy-wait loops that   *)
(* fit in a timer tick, found by doubling and then bit by bit.  The        *)
(* machine runs exactly "limit" loops in a tick; limit is at least the     *)
(* 2^10 loops the search starts from.                                      *)
(***************************************************************************)
EXTENDS Naturals

CONSTANT Limits   \* bound: the speeds of machines that are tried, from 2^10 up

VARIABLES limit, loops_per_tick, high_bit, test_bit, pc

vars == <<limit, loops_per_tick, high_bit, test_bit, pc>>

too_many_loops(loops) == loops > limit

Init ==
  /\ limit \in Limits
  /\ loops_per_tick = 2^10
  /\ high_bit = 0 /\ test_bit = 0
  /\ pc = "double"

Double ==
  /\ pc = "double"
  /\ ~too_many_loops(2 * loops_per_tick)
  /\ loops_per_tick' = 2 * loops_per_tick
  /\ UNCHANGED <<limit, high_bit, test_bit, pc>>

StartRefining ==
  /\ pc = "double"
  /\ too_many_loops(2 * loops_per_tick)
  /\ high_bit' = loops_per_tick
  /\ test_bit' = loops_per_tick \div 2
  /\ pc' = "refine"
  /\ UNCHANGED <<limit, loops_per_tick>>

\* high_bit | test_bit is a sum: the two are different powers of two, and
\* test_bit is not yet set in loops_per_tick.
Refine ==
  /\ pc = "refine"
  /\ test_bit # high_bit \div 2^10
  /\ loops_per_tick' = IF too_many_loops(high_bit + test_bit)
                       THEN loops_per_tick ELSE loops_per_tick + test_bit
  /\ test_bit' = test_bit \div 2
  /\ UNCHANGED <<limit, high_bit, pc>>

Calibrated ==
  /\ pc = "refine"
  /\ test_bit = high_bit \div 2^10
  /\ pc' = "done"
  /\ UNCHANGED <<limit, loops_per_tick, high_bit, test_bit>>

Next == Double \/ StartRefining \/ Refine \/ Calibrated

Spec == Init /\ [][Next]_vars
-----------------------------------------------------------------------------

\* timer.c calls loops_per_tick the "Number of loops per timer tick": the result
\* of the calibration fits in a tick, as every partial result was tested to.
FitsInTick == pc = "done" => ~too_many_loops(loops_per_tick)
=============================================================================
