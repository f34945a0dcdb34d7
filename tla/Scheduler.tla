------------------------------ MODULE Scheduler -------------------------------
(***************************************************************************)
(* The cooperative scheduler of src/scheduler.c on x86, with the stack     *)
(* switch of boot/arch_x86/context.asm.  A context is the code that was    *)
(* running on a stack: MAIN for kernel_main's, i for the task add_task     *)
(* put in slot i.  task_list[i].esp is the address of a frame, eight pusha *)
(* registers and a return address, that belongs to one context; it can be  *)
(* resumed until its context runs again, which reuses that stack.          *)
(***************************************************************************)
EXTENDS Integers

CONSTANTS
  MAX_TASKS,     \* scheduler.h
  Registers,     \* contents of the registers pusha saves
  YieldFromMain, \* may code outside a task call task_yield?
  MinTasks       \* how many tasks there are when somebody yields

ASSUME SchedulerAssumption ==
  /\ MAX_TASKS \in Nat \ {0}
  /\ 0 \in Registers
  /\ YieldFromMain \in BOOLEAN
  /\ MinTasks \in Nat \ {0}

VARIABLES
  task_count,    \* tasks registered
  current_task,  \* index of the running task, -1 until first yield or run
  esp,           \* slot -> the frame task_list[slot].esp points to
  cpu,           \* the context whose code runs; LOST after a reused frame
  regs,          \* the processor's registers
  work           \* context -> the registers its own code last computed

vars == <<task_count, current_task, esp, cpu, regs, work>>

MAIN == -1
LOST == -2
Slots == 0..(MAX_TASKS - 1)
Context == Slots \cup {MAIN, LOST}
Frame == [ctx : Context, fresh : BOOLEAN, regs : Registers]
Saved(c, r) == [ctx |-> c, fresh |-> TRUE, regs |-> r]
NoFrame == [ctx |-> LOST, fresh |-> FALSE, regs |-> 0]
-------------------------------------------------------------------------------
Init ==
  /\ task_count = 0
  /\ current_task = -1
  /\ esp = [i \in Slots |-> NoFrame]
  /\ cpu = MAIN
  /\ regs = 0
  /\ work = [c \in Context |-> 0]

(* The code of the running context between two calls into the scheduler.   *)
Compute(r) ==
  /\ cpu # LOST
  /\ regs' = r
  /\ work' = [work EXCEPT ![cpu] = r]
  /\ UNCHANGED <<task_count, current_task, esp, cpu>>

BadAddTask ==       \* lets one task too many into the table
  /\ cpu # LOST /\ task_count <= MAX_TASKS
  /\ esp' = [i \in Slots |-> IF i = task_count THEN Saved(i, 0) ELSE esp[i]]
  /\ task_count' = task_count + 1
  /\ UNCHANGED <<current_task, cpu, regs, work>>

(* add_task, called by whoever runs: malloc of the stack may fail, a full  *)
(* table is ignored.                                                       *)
AddTask ==
  /\ cpu # LOST
  /\ \/ UNCHANGED vars   \* table full, or no memory for the stack
     \/ /\ task_count < MAX_TASKS
        /\ esp' = [esp EXCEPT ![task_count] = Saved(task_count, 0)]
        /\ task_count' = task_count + 1
        /\ UNCHANGED <<current_task, cpu, regs, work>>

(* popa and ret on a frame: its context runs on, and every copy of the     *)
(* frame's address is now stale.  A frame that was reused is garbage.      *)
Resume(slots, frame) ==
  /\ \/ frame.fresh /\ cpu' = frame.ctx /\ regs' = frame.regs
     \/ ~frame.fresh /\ cpu' = LOST /\ regs' \in Registers
  /\ esp' = [i \in Slots |->
               IF slots[i].ctx = frame.ctx THEN [slots[i] EXCEPT !.fresh = FALSE]
                                           ELSE slots[i]]
  /\ UNCHANGED <<task_count, work>>

(* run_scheduler: jumps into task 0 without saving the caller's stack.     *)
RunScheduler ==
  /\ cpu = MAIN
  /\ task_count > 0
  /\ current_task' = 0
  /\ Resume(esp, esp[0])

(* The conditions of every call of task_yield the instance allows.         *)
MayYield == cpu # LOST /\ task_count >= MinTasks /\ (cpu = MAIN => YieldFromMain)

Caller == IF current_task < 0 THEN 0 ELSE current_task

(* The switch: the esp of slot `next' is read before the caller's frame is *)
(* stored in slot `save'.                                                  *)
SwitchTo(save, next) ==
  /\ current_task' = next
  /\ Resume([esp EXCEPT ![save] = Saved(cpu, regs)], esp[next])

BadSaveSlot ==      \* current_task is set before save_to is computed
  MayYield /\ LET next == (Caller + 1) % task_count IN SwitchTo(next, next)

BadTableWrap ==     \* wraps at the size of the table instead of task_count
  MayYield /\ SwitchTo(Caller, (Caller + 1) % MAX_TASKS)

BadPrevious ==      \* swaps with the previous task
  MayYield /\ SwitchTo(Caller, IF Caller > 0 THEN Caller - 1 ELSE 1)

(* task_yield and task_yield_asm                                           *)
TaskYield == MayYield /\ SwitchTo(Caller, (Caller + 1) % task_count)

Next == AddTask \/ RunScheduler \/ TaskYield \/ \E r \in Registers : Compute(r)

(* Cooperative tasks: fairness is that each of them yields again and again.*)
Spec == Init /\ [][Next]_vars /\ WF_vars(TaskYield)
-------------------------------------------------------------------------------
(* task_count and current_task stay inside task_list.                      *)
TypeOK ==
  /\ task_count \in 0..MAX_TASKS
  /\ current_task \in -1..(MAX_TASKS - 1)
  /\ esp \in [Slots -> Frame]
  /\ cpu \in Context
  /\ regs \in Registers
  /\ work \in [Context -> Registers]

Registered == 0..(task_count - 1)

(* A registered task that does not run can be resumed where it stopped:    *)
(* its newest frame, with its registers, is in its own slot.  One that     *)
(* runs has its own registers and is the one task_current names.           *)
NoTaskLost ==
  \A t \in Registered :
    IF cpu = t THEN regs = work[t] /\ current_task = t
               ELSE esp[t] = Saved(t, work[t])

(* task_current as scheduler.h documents it: the index of the running      *)
(* task, -1 when the caller is not a task.                                 *)
TaskCurrentTruthful == current_task = IF cpu \in Registered THEN cpu ELSE -1

(* The context that runs is the one round robin order names.               *)
Ring == INSTANCE RoundRobin WITH MaxTasks <- MAX_TASKS,
                                 count <- task_count, turn <- cpu
RunsRoundRobin == Ring!Spec

(* Once the scheduler runs, every registered task gets the processor again *)
(* and again.                                                              *)
EveryTaskRuns ==
  \A t \in Slots : [](t < task_count /\ current_task # -1 => <>(cpu = t))

(* The inductive form of NoTaskLost when only tasks yield, to a task that  *)
(* is not themselves: current_task names the running context, and a slot   *)
(* not in use yet has a context that has computed nothing.                 *)
SwitchInv ==
  /\ TypeOK /\ NoTaskLost
  /\ cpu = current_task /\ current_task < task_count
  /\ \A t \in Slots : t >= task_count => work[t] = 0
===============================================================================
