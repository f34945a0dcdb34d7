---------------------------- MODULE SchedulerProofs ---------------------------
(***************************************************************************)
(* When only tasks call task_yield and there are at least two of them, no  *)
(* switch ever loses a task, for any size of the task table.               *)
(***************************************************************************)
EXTENDS Scheduler, TLAPS

USE DEF MAIN, LOST

(* (current_task + 1) % task_count is another registered task.             *)
LEMMA NextTask ==
  ASSUME NEW n \in Nat, n >= 2, NEW c \in 0..(n - 1)
  PROVE  (c + 1) % n \in 0..(n - 1) /\ (c + 1) % n # c
<1>1. CASE c + 1 < n
  <2>1. (c + 1) % n = c + 1
    BY <1>1
  <2>2. QED
    BY <1>1, <2>1
<1>2. CASE c + 1 = n
  <2>1. (c + 1) % n = 0
    BY <1>2
  <2>2. QED
    BY <1>2, <2>1
<1>3. QED
  BY <1>1, <1>2

LEMMA InitSwitchInv == Init => SwitchInv
<1> SUFFICES ASSUME Init PROVE SwitchInv
  OBVIOUS
<1>1. MAX_TASKS \in Nat /\ MAX_TASKS >= 1 /\ 0 \in Registers
  BY SchedulerAssumption
<1>2. NoFrame \in Frame
  BY <1>1 DEF NoFrame, Frame, Context
<1>3. TypeOK
  BY <1>1, <1>2 DEF Init, TypeOK, Context, Slots
<1>4. NoTaskLost
  BY DEF Init, NoTaskLost, Registered
<1>5. QED
  BY <1>1, <1>3, <1>4 DEF Init, SwitchInv, Context

(* popa; ret on the frame of slot n, after the caller saved itself in s:   *)
(* the invariant holds again, with n running.                              *)
LEMMA ResumeKeepsInv ==
  ASSUME SwitchInv, NEW n \in Registered, NEW slots \in [Slots -> Frame],
         cpu # n, current_task' = n,
         \A t \in Registered \ {n} : slots[t] = Saved(t, work[t]),
         Resume(slots, esp[n])
  PROVE  SwitchInv'
<1>1. /\ task_count \in Nat /\ task_count <= MAX_TASKS /\ MAX_TASKS \in Nat
      /\ Registered \subseteq Slots /\ n \in Slots
  BY SchedulerAssumption DEF SwitchInv, TypeOK, Registered, Slots
<1>2. esp[n] = Saved(n, work[n])
  BY DEF SwitchInv, NoTaskLost
<1>3. esp[n].fresh = TRUE /\ esp[n].ctx = n /\ esp[n].regs = work[n]
  BY <1>2 DEF Saved
<1>4. cpu' = n /\ regs' = work[n] /\ UNCHANGED <<task_count, work>>
  BY <1>3 DEF Resume
<1>5. esp' = [i \in Slots |-> IF slots[i].ctx = n THEN [slots[i] EXCEPT !.fresh = FALSE]
                                                 ELSE slots[i]]
  BY <1>3 DEF Resume
<1>6. ASSUME NEW t \in Registered, t # n PROVE esp'[t] = Saved(t, work[t])
  <2>1. slots[t] = Saved(t, work[t]) /\ Saved(t, work[t]).ctx = t
    BY <1>6 DEF Saved
  <2>2. t \in Slots /\ slots[t].ctx # n
    BY <1>1, <1>6, <2>1
  <2>3. esp'[t] = slots[t]
    BY <1>5, <2>2
  <2>4. QED
    BY <2>1, <2>3
<1>7. esp' \in [Slots -> Frame]
  <2>1. ASSUME NEW i \in Slots
        PROVE  [slots[i] EXCEPT !.fresh = FALSE] \in Frame
    BY DEF Frame
  <2>2. QED
    BY <1>5, <2>1
<1>8. TypeOK'
  BY <1>1, <1>4, <1>7 DEF SwitchInv, TypeOK, Context, Slots
<1>9. NoTaskLost'
  BY <1>4, <1>6 DEF NoTaskLost, Registered
<1>10. QED
  BY <1>1, <1>4, <1>8, <1>9 DEF SwitchInv, Registered

LEMMA NextKeepsSwitchInv ==
  ASSUME YieldFromMain = FALSE, MinTasks >= 2
  PROVE  SwitchInv /\ [Next]_vars => SwitchInv'
<1> SUFFICES ASSUME SwitchInv, [Next]_vars PROVE SwitchInv'
  OBVIOUS
<1>1. /\ task_count \in Nat /\ task_count <= MAX_TASKS /\ MAX_TASKS \in Nat
      /\ MinTasks \in Nat /\ 0 \in Registers
      /\ current_task \in Int /\ current_task >= -1
      /\ esp \in [Slots -> Frame] /\ cpu = current_task /\ cpu < task_count
      /\ regs \in Registers
  BY SchedulerAssumption DEF SwitchInv, TypeOK
<1>2. ASSUME NEW r \in Registers, Compute(r) PROVE SwitchInv'
  BY <1>1, <1>2 DEF SwitchInv, TypeOK, NoTaskLost, Registered, Compute, Slots, Context, Saved
<1>3. CASE AddTask
  <2>1. CASE UNCHANGED vars
    BY <2>1 DEF vars, SwitchInv, TypeOK, NoTaskLost, Registered
  <2>2. CASE /\ task_count < MAX_TASKS
             /\ esp' = [esp EXCEPT ![task_count] = Saved(task_count, 0)]
             /\ task_count' = task_count + 1
             /\ UNCHANGED <<current_task, cpu, regs, work>>
    <3>1. Saved(task_count, 0) \in Frame /\ task_count \in Slots
      BY <1>1, <2>2 DEF Saved, Frame, Context, Slots
    <3>2. work[task_count] = 0
      BY <1>1, <3>1 DEF SwitchInv
    <3>3. esp' \in [Slots -> Frame] /\ esp'[task_count] = Saved(task_count, 0)
      BY <1>1, <2>2, <3>1
    <3>4. \A t \in Slots \ {task_count} : esp'[t] = esp[t]
      BY <1>1, <2>2
    <3>5. TypeOK'
      BY <1>1, <2>2, <3>3 DEF SwitchInv, TypeOK
    <3>6. NoTaskLost'
      <4>1. Registered' = Registered \cup {task_count} /\ Registered \subseteq Slots
        BY <1>1, <2>2 DEF Registered, Slots
      <4>2. cpu' = cpu /\ regs' = regs /\ work' = work /\ current_task' = current_task
        BY <2>2
      <4>3. ASSUME NEW t \in Registered PROVE t # task_count /\ esp'[t] = esp[t]
        BY <1>1, <3>4, <4>1 DEF Registered
      <4>4. cpu # task_count
        BY <1>1
      <4>5. ASSUME NEW t \in Registered'
            PROVE  IF cpu' = t THEN regs' = work'[t] /\ current_task' = t
                               ELSE esp'[t] = Saved(t, work'[t])
        <5>1. CASE t = task_count
          BY <3>2, <3>3, <4>2, <4>4, <5>1
        <5>2. CASE t \in Registered
          BY <4>2, <4>3, <5>2 DEF SwitchInv, NoTaskLost
        <5>3. QED
          BY <4>1, <5>1, <5>2
      <4>6. QED
        BY <4>5 DEF NoTaskLost
    <3>7. QED
      BY <1>1, <2>2, <3>5, <3>6 DEF SwitchInv, Slots
  <2>3. QED
    BY <1>3, <2>1, <2>2 DEF AddTask
<1>4. CASE RunScheduler
  <2>1. /\ cpu = -1 /\ 0 \in Registered /\ current_task' = 0
        /\ Resume(esp, esp[0])
    BY <1>1, <1>4 DEF RunScheduler, Registered
  <2>2. \A t \in Registered : esp[t] = Saved(t, work[t])
    BY <2>1 DEF SwitchInv, NoTaskLost, Registered
  <2>3. QED
    BY <1>1, <2>1, <2>2, ResumeKeepsInv
<1>5. CASE TaskYield
  <2> DEFINE next == (current_task + 1) % task_count
             slots == [esp EXCEPT ![current_task] = Saved(cpu, regs)]
  <2>1. cpu # -1 /\ task_count >= 2 /\ current_task \in 0..(task_count - 1)
    BY <1>1, <1>5 DEF TaskYield, MayYield
  <2>2. next \in Registered /\ next # cpu
    BY <1>1, <2>1, NextTask DEF Registered
  <2>3. Caller = current_task
    BY <1>1, <2>1 DEF Caller
  <2>4. current_task' = next /\ Resume(slots, esp[next])
    BY <1>5, <2>3 DEF TaskYield, SwitchTo
  <2>5. current_task \in Slots /\ Saved(cpu, regs) \in Frame
    BY <1>1, <2>1 DEF Saved, Frame, Context, Slots
  <2>6. slots \in [Slots -> Frame]
    BY <1>1, <2>5
  <2>7. ASSUME NEW t \in Registered \ {next} PROVE slots[t] = Saved(t, work[t])
    <3>1. t \in Slots
      BY <1>1 DEF Registered, Slots
    <3>2. CASE t = cpu
      <4>1. slots[t] = Saved(cpu, regs) /\ regs = work[t]
        BY <1>1, <2>5, <3>2 DEF SwitchInv, NoTaskLost
      <4>2. QED
        BY <3>2, <4>1
    <3>3. CASE t # cpu
      BY <1>1, <3>1, <3>3 DEF SwitchInv, NoTaskLost
    <3>4. QED
      BY <3>2, <3>3
  <2> HIDE DEF next, slots
  <2>8. QED
    BY <2>2, <2>4, <2>6, <2>7, ResumeKeepsInv
<1>6. CASE UNCHANGED vars
  BY <1>6 DEF vars, SwitchInv, TypeOK, NoTaskLost, Registered
<1>7. QED
  BY <1>2, <1>3, <1>4, <1>5, <1>6 DEF Next

(* No switch loses a task or its registers, whatever the table's size, as  *)
(* long as only tasks yield and a yield finds another task to go to.       *)
THEOREM TasksSurviveSwitches ==
  ASSUME YieldFromMain = FALSE, MinTasks >= 2
  PROVE  Spec => []NoTaskLost
<1>1. SwitchInv /\ [Next]_vars => SwitchInv'
  BY NextKeepsSwitchInv
<1>2. SwitchInv => NoTaskLost
  BY DEF SwitchInv
<1>3. QED
  BY InitSwitchInv, <1>1, <1>2, PTL DEF Spec

(* Under the same conditions current_task and task_count stay inside the   *)
(* table that task_yield and run_scheduler index with them.                *)
THEOREM SchedulerTyped ==
  ASSUME YieldFromMain = FALSE, MinTasks >= 2
  PROVE  Spec => []TypeOK
<1>1. SwitchInv /\ [Next]_vars => SwitchInv'
  BY NextKeepsSwitchInv
<1>2. SwitchInv => TypeOK
  BY DEF SwitchInv
<1>3. QED
  BY InitSwitchInv, <1>1, <1>2, PTL DEF Spec

(* Under the same conditions the code that runs is always the task round   *)
(* robin order names: task_yield and run_scheduler implement RoundRobin.   *)
THEOREM SchedulerIsRoundRobin ==
  ASSUME YieldFromMain = FALSE, MinTasks >= 2
  PROVE  Spec => RunsRoundRobin
<1>1. Init => Ring!Init
  BY DEF Init, Ring!Init
<1>2. ASSUME SwitchInv, [Next]_vars, SwitchInv'
      PROVE  [Ring!Next]_<<task_count, cpu>>
  <2>1. ASSUME NEW r \in Registers, Compute(r) PROVE UNCHANGED <<task_count, cpu>>
    BY <2>1 DEF Compute
  <2>2. CASE AddTask
    BY <2>2 DEF AddTask, vars, Ring!Next, Ring!Join
  <2>3. CASE RunScheduler
    <3>1. cpu = -1 /\ task_count > 0 /\ cpu' = 0 /\ task_count' = task_count
      BY <1>2, <2>3 DEF RunScheduler, Resume, SwitchInv
    <3>2. QED
      BY <3>1 DEF Ring!Next, Ring!Start
  <2>4. CASE TaskYield
    <3>1. current_task >= 0 /\ cpu # -1 /\ task_count' = task_count
      BY <1>2, <2>4 DEF TaskYield, MayYield, SwitchTo, Resume, SwitchInv, TypeOK
    <3>2. cpu' = (cpu + 1) % task_count
      BY <1>2, <2>4, <3>1 DEF TaskYield, Caller, SwitchTo, SwitchInv, TypeOK
    <3>3. QED
      BY <3>1, <3>2 DEF Ring!Next, Ring!Pass
  <2>5. CASE UNCHANGED vars
    BY <2>5 DEF vars
  <2>6. QED
    BY <1>2, <2>1, <2>2, <2>3, <2>4, <2>5 DEF Next
<1>3. SwitchInv /\ [Next]_vars => SwitchInv'
  BY NextKeepsSwitchInv
<1>4. QED
  BY InitSwitchInv, <1>1, <1>2, <1>3, PTL DEF Spec, RunsRoundRobin, Ring!Spec

===============================================================================
