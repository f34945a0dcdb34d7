------------------------------ MODULE RoundRobin ------------------------------
(* What a round robin scheduler promises: tasks join at the end of the ring *)
(* and each yield hands the processor to the next one.                      *)
EXTENDS Integers

CONSTANT MaxTasks

VARIABLES
  count,   \* tasks on the ring: 0 .. count - 1
  turn     \* the task that runs, -1 before the first one does

Init == count = 0 /\ turn = -1
Join == count < MaxTasks /\ count' = count + 1 /\ UNCHANGED turn
Start == turn = -1 /\ count > 0 /\ turn' = 0 /\ UNCHANGED count
Pass == turn # -1 /\ turn' = (turn + 1) % count /\ UNCHANGED count

Next == Join \/ Start \/ Pass
Spec == Init /\ [][Next]_<<count, turn>>
===============================================================================
