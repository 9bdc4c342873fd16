------------------------------ MODULE Periodic ------------------------------
(***************************************************************************)
(* Periodic tasks, delays and critical sections (src/src/kernel/ipc.c):    *)
(* one caller of rtos_execute_periodic_tasks, as rtos_demo_run is, and the *)
(* timer's interrupt, which comes between any two steps of it while        *)
(* interrupts are on.  A task may register others, nest critical sections  *)
(* and delay.                                                              *)
(***************************************************************************)
EXTENDS Integers, Sequences

CONSTANTS
    MaxTasks,        \* 32
    Periods,         \* the period_ms tasks are registered with
    Microseconds,    \* the delays tasks ask for
    WORD,            \* 2^32
    MaxTicks,        \* bound of the ticks
    MaxNesting       \* bound of the critical sections in each other

PeriodicAssumption ==
    /\ MaxTasks \in Nat /\ MaxTicks \in Nat /\ MaxNesting \in Nat
    /\ Periods \subseteq Nat /\ Microseconds \subseteq Nat /\ WORD \in Nat \ {0}

VARIABLES
    system_ticks,
    tasks,           \* periodic_tasks; active is never cleared
    pc,              \* "idle", or "loop", "task", "delay" in a pass
    i,               \* the pass's index
    current_ticks,   \* its reading of the clock
    wake,            \* when the delay is over
    critical_section_count,
    interrupts       \* whether they are on

passVars == <<pc, i, current_ticks, wake>>
critVars == <<critical_section_count, interrupts>>
perVars == <<system_ticks, tasks, passVars, critVars>>

(* spent is history: the time at which the task was registered, and a       *)
(* period more for each time it was run.                                    *)
Task == [period: Periods, next: Nat, spent: Nat]

TypeOK ==
    /\ system_ticks \in Nat
    /\ tasks \in Seq(Task)
    /\ Len(tasks) <= MaxTasks
    /\ pc \in {"idle", "loop", "task", "delay"}
    /\ i \in Nat \ {0}
    /\ pc \in {"task", "delay"} => i <= Len(tasks)
    /\ {current_ticks, wake} \subseteq Nat
    /\ critical_section_count \in Nat
    /\ interrupts \in BOOLEAN

Init ==
    /\ system_ticks = 0
    /\ tasks = <<>>
    /\ pc = "idle" /\ i = 1 /\ current_ticks = 0 /\ wake = 0
    /\ critical_section_count = 0 /\ interrupts = TRUE
-----------------------------------------------------------------------------
(* rtos_tick_handler, of which the rest is in Semaphore. *)
Tick ==
    /\ interrupts
    /\ system_ticks < MaxTicks
    /\ system_ticks' = system_ticks + 1
    /\ UNCHANGED <<tasks, passVars, critVars>>

(* Seeded fault: a task is due as soon as it is registered. *)
DueAtOnce(period) == [period |-> period, next |-> system_ticks, spent |-> system_ticks]

(* It is due a period from now. *)
Registered(period) ==
    [period |-> period, next |-> system_ticks + period, spent |-> system_ticks]

(* rtos_register_periodic_task: at any time, by a task too. *)
Register(period) ==
    /\ pc \in {"idle", "task"}
    /\ Len(tasks) < MaxTasks
    /\ tasks' = Append(tasks, Registered(period))
    /\ UNCHANGED <<system_ticks, passVars, critVars>>

(* rtos_execute_periodic_tasks reads the clock once. *)
StartPass ==
    /\ pc = "idle"
    /\ pc' = "loop"
    /\ i' = 1
    /\ current_ticks' = system_ticks
    /\ UNCHANGED <<system_ticks, tasks, wake, critVars>>

Due == i <= Len(tasks) /\ current_ticks >= tasks[i].next

Charged(task) == [task EXCEPT !.spent = task.spent + task.period]

StartTask ==
    /\ pc = "loop" /\ Due
    /\ pc' = "task"
    /\ tasks' = [tasks EXCEPT ![i] = Charged(@)]
    /\ UNCHANGED <<system_ticks, i, current_ticks, wake, critVars>>

SkipTask ==
    /\ pc = "loop" /\ i <= Len(tasks) /\ ~Due
    /\ i' = i + 1
    /\ UNCHANGED <<system_ticks, tasks, pc, current_ticks, wake, critVars>>

EndPass ==
    /\ pc = "loop" /\ i > Len(tasks)
    /\ pc' = "idle"
    /\ UNCHANGED <<system_ticks, tasks, i, current_ticks, wake, critVars>>

(* The next execution is reckoned from the pass's reading, which may be     *)
(* long past.                                                               *)
Rescheduled(task) == [task EXCEPT !.next = current_ticks + task.period]

TaskReturns ==
    /\ pc = "task"
    /\ pc' = "loop"
    /\ i' = i + 1
    /\ tasks' = [tasks EXCEPT ![i] = Rescheduled(@)]
    /\ UNCHANGED <<system_ticks, current_ticks, wake, critVars>>

(* rtos_enter_critical and rtos_exit_critical *)
EnterCritical ==
    /\ pc = "task"
    /\ critical_section_count < MaxNesting
    /\ interrupts' = FALSE
    /\ critical_section_count' = critical_section_count + 1
    /\ UNCHANGED <<system_ticks, tasks, passVars>>

ExitCritical ==
    /\ pc = "task"
    /\ critical_section_count > 0
    /\ critical_section_count' = critical_section_count - 1
    /\ interrupts' = (interrupts \/ critical_section_count = 1)
    /\ UNCHANGED <<system_ticks, tasks, passVars>>

(* rtos_delay_us: the product is a u32, and what is left of a millisecond   *)
(* is no tick.  It waits for ticks, which do not come in a critical section.*)
DelayTicks(us) == ((us * 1000) % WORD) \div 1000000

Delay(us) ==
    /\ pc = "task"
    /\ pc' = "delay"
    /\ wake' = system_ticks + DelayTicks(us)
    /\ UNCHANGED <<system_ticks, tasks, i, current_ticks, critVars>>

DelayOver ==
    /\ pc = "delay" /\ system_ticks >= wake
    /\ pc' = "task"
    /\ UNCHANGED <<system_ticks, tasks, i, current_ticks, wake, critVars>>

Next ==
    \/ Tick
    \/ \E period \in Periods : Register(period)
    \/ StartPass \/ StartTask \/ SkipTask \/ EndPass \/ TaskReturns
    \/ EnterCritical \/ ExitCritical
    \/ (\E us \in Microseconds : Delay(us)) \/ DelayOver

Spec == Init /\ [][Next]_perVars
-----------------------------------------------------------------------------
(* A task is never run more often, in the ticks that went by since it       *)
(* was registered, than its period_ms allows, however late a pass comes,    *)
(* however long the tasks delay and whoever is registered by them.  Two     *)
(* executions may be closer: behind a task that delays, one comes late by   *)
(* the clock but is reckoned from the reading before the delay, and so the  *)
(* next may follow in the same tick.                                        *)
RateKept == \A k \in DOMAIN tasks : tasks[k].spent <= system_ticks

(* Interrupts are off in a critical section and only there, whatever the    *)
(* nesting.                                                                 *)
CriticalIsQuiet == interrupts <=> critical_section_count = 0
=============================================================================
