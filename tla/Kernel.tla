------------------------------- MODULE Kernel -------------------------------
(***************************************************************************)
(* Parts of the kernel in one system, one at a time as the applications    *)
(* are in Gui: the keyboard with the loop that reads it, the shell's line  *)
(* and its screen, pipes, and periodic tasks.  They keep no state in       *)
(* common.                                                                 *)
(***************************************************************************)
EXTENDS Integers, Sequences

CONSTANTS
    KEYBOARD_BUFFER_SIZE, Scancodes, NoChar,
    VGA_WIDTH, VGA_HEIGHT, MAX_COMMAND_LENGTH,
    Printable, Keys, Prompt, Output, Clear, Halt, Echo, NotFound,
    MAX_PIPES, PIPE_BUFFER_SIZE, Processes, Sizes, WORD,
    MaxTasks, Periods, Microseconds, MaxTicks, MaxNesting

VARIABLES
    part,
    keyboard_buffer, buffer_head, buffer_tail, shift_pressed, ctrl_pressed, alt_pressed,
    caps_lock, at, c, got, beat,
    screen, command_buffer, halted, torn,
    pipes, blocked, call, sigpipe, answer,
    system_ticks, tasks, pass, i, current_ticks, wake, critical_section_count, interrupts

Kb == INSTANCE Keyboard WITH pc <- at

Con == INSTANCE Console

Pi == INSTANCE Pipes WITH pc <- call

Pe == INSTANCE Periodic WITH pc <- pass

ASSUME KernelAssumption ==
    /\ Kb!KeyboardAssumption
    /\ Con!ConsoleAssumption
    /\ Pi!PipesAssumption
    /\ Pe!PeriodicAssumption
-----------------------------------------------------------------------------
Parts == {"keyboard", "console", "pipes", "periodic"}

kbVars == <<keyboard_buffer, buffer_head, buffer_tail, shift_pressed, ctrl_pressed,
            alt_pressed, caps_lock, at, c, got, beat>>
conVars == <<screen, command_buffer, halted, torn>>
pipeVars == <<pipes, blocked, call, sigpipe, answer>>
perVars == <<system_ticks, tasks, pass, i, current_ticks, wake, critical_section_count,
             interrupts>>

KernelStart == part \in Parts /\ Kb!Init /\ Con!Init /\ Pi!Init /\ Pe!Init

KeyboardTurn(step) == part = "keyboard" /\ step /\ UNCHANGED <<part, conVars, pipeVars, perVars>>

KernelNext ==
    \/ KeyboardTurn(Kb!Next)
    \/ /\ part = "console" /\ Con!Next
       /\ UNCHANGED <<part, kbVars, pipeVars, perVars>>
    \/ /\ part = "pipes" /\ Pi!Next
       /\ UNCHANGED <<part, kbVars, conVars, perVars>>
    \/ /\ part = "periodic" /\ Pe!Next
       /\ UNCHANGED <<part, kbVars, conVars, pipeVars>>

kernelVars == <<part, kbVars, conVars, pipeVars, perVars>>

(* The keyboard's Fairness, of its steps in this composition. *)
KernelFairness ==
    /\ WF_kernelVars(KeyboardTurn(Kb!Loop))
    /\ WF_kernelVars(KeyboardTurn(Kb!TimerInterrupt))

KernelSpec == KernelStart /\ [][KernelNext]_kernelVars /\ KernelFairness

(* The fields of every part have their types; and interrupts are off in a   *)
(* critical section only (rtos_enter_critical, rtos_exit_critical).         *)
KernelTypeOK ==
    /\ Kb!TypeOK
    /\ Con!TypeOK
    /\ Pi!TypeOK
    /\ Pe!TypeOK /\ Pe!CriticalIsQuiet

(* The parts' properties, under the names they have in their modules, where *)
(* they are stated and explained.                                           *)
KeysInOrder     == Kb!KeysInOrder
EveryKeyHandled == Kb!EveryKeyHandled
LineIsShown     == Con!LineIsShown
ReadGivesData   == Pi!ReadGivesData
RateKept        == Pe!RateKept
=============================================================================
