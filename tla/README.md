# Kronos OS: models, checks and proofs

Kronos is a hobby x86-64 kernel in C and assembly (`src/src/`), with a shell, a
graphical desktop, and a process scheduler, IPC, system calls and virtual
memory that are written but not yet started by `kernel_main`. This directory
holds TLA+ models of it, TLC runs that check them on small instances, and
theorems that TLAPS checks for every instance. Every definition is translated
from the code; `PROJECT.json` names the lines of each under `map`.

## 1. Inventory

| Part | State it keeps | Operations | What makes it correct |
| --- | --- | --- | --- |
| Heap, `mm/memory.c` | list of headers inside the heap | `mm_init`, `kmalloc`, `kfree` | the headers tile the heap; nothing lost, nothing shared, free neighbours merged |
| Scheduler, `kernel/scheduler.c` | process table, run queue, current process | `process_create`, `schedule`, timer, `process_exit` | one process runs; only ready ones are queued, each once, as far as nobody is woken twice; a ready one is not lost |
| Semaphores, `kernel/ipc.c` | value, wait list, timeouts, ticks, real-time queue | `sem_wait_timeout`, `sem_signal`, tick | one holder; no lost wake-up; timed waits end; priorities are inherited |
| Message queues, `kernel/ipc.c` | ring of messages, two wait lists | `msgget`, `msgsnd`, `msgrcv` | a bounded queue with receive by type; nobody sleeps on what has come |
| Pipes, `kernel/ipc.c` | bytes stored, processes waiting to read and to write | `pipe_create`, `pipe_read`, `pipe_write` | what is written is read; as the code is, nothing ever flows |
| Signals, `kernel/ipc.c` | pending and blocked sets | `signal_send`, `signal_handle_pending` | a woken process is on no stale list |
| Periodic tasks, critical sections, `kernel/ipc.c` | table of 32 tasks, nesting count | register, execute, enter, exit | no task runs more often than its period allows; interrupts on exactly when the count is 0 |
| System calls, `kernel/syscalls.c` | descriptor table of each process | open, close, read, write, brk, ... | what is closed was opened; brk agrees with the mappings |
| Virtual memory, `mm/virtual_memory.c` | page frames, page tables, VMAs, swap map | `mmap`, `munmap`, fault handlers, `swap_out_page` | a frame is free or owned; counts agree with the page tables |
| Keyboard, `drivers/keyboard.c`, `shell_run` | ring of keys with head and tail, modifiers | interrupt handler, `keyboard_has_input`, `keyboard_getchar` | keys come out in order, once each, and every one in the end |
| Shell and console, `shell/shell.c`, `drivers/vga.c` | command buffer; screen and cursor | keys, commands, `vga_putchar`, `vga_scroll` | what stands behind the prompt is what Enter will run |
| Window manager, `gui/window_manager.c` | windows with their buffers, focus, next id | create, destroy, focus, move, resize, click | one focus, on a window that exists; each window has a buffer of its own and of its size |
| Desktop and GUI loop, `gui/desktop.c`, `gui/gui_main.c` | taskbar, icons, menu, modifiers, mode | keys, clicks, launches, window events | taskbar, applications and windows agree |
| Text editor, `apps/text_editor.c` | rows of text, cursor | every key | the cursor is in its row; an edit changes the text there and nowhere else |
| Terminal, `apps/terminal_app.c` | screen, cursor, input line | keys, commands, scrolling | the line that is run is the one that is shown |
| File manager, `apps/file_manager.c` | path, selection, scroll offset of each window; one list of files for all | load, up, down, enter | the selection is on the screen and in the list |
| Package manager, `apps/package_manager.c` | state of each package, selection | upgrade, install, remove, clicks | only what is selected changes |
| Settings, `system/settings_manager.c`, `apps/settings.c` | definitions, values; a panel of its own | getters and setters; clicks | a getter returns what a setter accepted last |
| Web browser, `apps/web_browser.c` | tabs, address bar, history | load, open, switch and close tabs, keys | one active tab, and the page and address shown are its |
| Wallpaper, `gui/wallpaper_manager.c` | current picture, slideshow, selector windows | set, cycle, clicks | what is shown is the current one |
| Calculator, system information, system tools, boot, framebuffer | | | not modelled, see section 5 |

**How the parts interact.** The IPC calls change the state of a process and call
`schedule()`; waking goes through `cfs_enqueue_task`. `process_exit` sends
SIGCHLD through `signal_send`, which may wake a process out of a wait list of
another call. Windows take their buffers from `kmalloc`; the desktop creates
windows, keeps a taskbar item for each, and launches the applications.
System calls wrap the rest.

**What really runs at the same time.** `schedule()` is the only place where the
processor passes from one process to another, and it is called by `pipe_read`,
`pipe_write`, `msgsnd`, `msgrcv`, `sem_wait_timeout`, `sys_sched_yield`,
`process_exit`, `scheduler_timer_interrupt` and, for processes with a time
slice, `rtos_tick_handler`. The last two are meant for the timer interrupt, but
`irq_handler` (`idt.c:199`) does nothing for it and nothing else calls them. So
the code between two calls of `schedule()` is one step in every model; ticks
and timer interrupts come between steps. The keyboard's interrupt is the
exception: `irq_handler` does call it, on the same processor, between any two
instructions of `shell_run`. `Keyboard` takes every access of the reader to the
ring as a step of its own, `keyboard_init` included, since `irq_install` enables
interrupts before it; the handler runs to its end. The same holds for the ticks
in `Periodic`. The desktop is one loop that handles one event after the other.

**Hard behaviours.** Long sequences of splits and merges in the heap; wake-ups
and timeouts that cross; removal from the run queue by a key that is not
unique; messages taken out of the middle of a full ring; signals that wake a
process on a list; failures in the middle of `mmap`, of a window's creation or
of its resize; keys that come while the ring is read; lines that scroll while
they are typed; tabs and windows closed in any order. `PROJECT.json` lists each under `hazards` with its line.

## 2. Modules

| Module | Models | State and actions |
| --- | --- | --- |
| `Heap` | `memory.c` | `blocks`: header address to its four fields; `live`: what callers hold. `MmInit`, `Kmalloc(size, b)`, `Kfree(p)` |
| `Allocator` | what callers may rely on | held byte ranges; `Start`, allocation, release |
| `HeapProofs` | theorems about `Heap` | |
| `SchedOps` | `scheduler.c` as operators on one record | `CfsEnqueue`, `CfsDequeue`, `PutPrev`, `SetNext`, `Schedule`, `ProcessCreate`, `SignalSend`, `ProcessExit` |
| `Scheduler` | the scheduler with everything that drives it | `sched`, how often each process is `listed` as waiting, and who was `rewoken`. `Create`, `Yield`, `TimerInterrupt`, `Wait`, `Wake`, `Signal`, `Exit` |
| `DataLemmas` | lemmas about finite sets, sequences, folds and recursive functions | |
| `SchedLemmas` | lemmas about `SchedOps`, for every module that uses it | |
| `SchedulerProofs` | theorems about `Scheduler` | |
| `Semaphore`, `SemaphoreProofs` | `sem_wait_timeout`, `sem_signal`, timeouts and ticks over `SchedOps` | `SemWait` up to a return or a `schedule()`, `SemResume` behind it, `SemSignal`, `Yield`, `Tick` |
| `TypedQueue` | what users of a message queue may rely on | `Send`, `Receive(t)`, `ReceiveNothing(t)` |
| `MsgQueue`, `MsgQueueProofs` | `msgsnd`, `msgrcv`, `signal_send`, `sys_exit` over `SchedOps` | `Msgsnd`, `MsgsndResume`, `Msgrcv`, `MsgrcvResume`, `MsgrcvNoWait`, `SignalSent`, `Exit`, `Yield` |
| `VirtualMemory` | frames, page tables, VMAs and `sys_brk` | `Mmap`, `MmapFixed`, `Munmap`, `PageFault`, `Grow`, `Shrink` |
| `Pipes` | `pipe_create`, `pipe_read`, `pipe_write` | `pipes`, who is blocked in which call. `PipeCreate`, `PipeRead`, `PipeWrite` up to a return or a `schedule()`, `Resume` behind it |
| `Periodic` | periodic tasks, delays, critical sections | the pass with its own reading of the clock: `StartPass`, `StartTask`, `SkipTask`, `TaskReturns`, `EndPass`; `Tick`; `EnterCritical`, `ExitCritical`, `Delay`, `DelayOver`, `Register` |
| `KeyQueue` | what the reader of the keyboard may rely on | `Put`, dropped when full, `Take`, `Reset` |
| `Keyboard` | `keyboard.c` and the loop of `shell_run` | the ring, head, tail and modifiers; `KeyInterrupt`, `TimerInterrupt`; `InitHead`, `InitRest`, `Check`, `Read`, `Advance`, `Handle`, `Sleep` |
| `Console` | `shell.c` and `vga.c` on characters | `screen` with its cursor, `command_buffer`. `Type`, `Backspace`, `Enter` with the command it runs |
| `WindowManager` | `window_manager.c` as operators on one record | `Create`, `Destroy`, `SetFocus`, `Move`, `Resize`, `WmClick`, for each thing `kmalloc` may do |
| `Desktop` | `desktop.c`, `gui_main.c` and the applications' tables of windows | `GuiInit`, `KeyLaunch`, `KeyQuit`, `Click`, `EventClose`, `EventResize`, `Quit`, ... |
| `TextEditor`, `Terminal`, `FileManager`, `PackageManager`, `SettingsManager`, `SettingsApp`, `WebBrowser`, `Wallpaper` | the applications | one action for each kind of key, click or call |
| `Kernel` | `Keyboard`, `Console`, `Pipes` and `Periodic`, one of them at a time | `part` says which |
| `KernelProofs` | theorems about `Kernel` and about `VirtualMemory` | |
| `Gui` | `Desktop` and the applications, one of them at a time | `app` says which |
| `GuiProofs` | theorems about `Desktop`, its windows and `Gui` | |
| `MCScheduler`, `MCVirtualMemory`, `MCSemaphore`, `MCMsgQueue`, `MCKernel`, `MCGui` | instances for TLC | constants, state constraints |
| `MCCore` | `Heap`, `Scheduler` and `VirtualMemory`, one of them at a time | `part` says which |

`SchedOps` is written as operators because the IPC handlers call several
scheduler functions in one step (`msgsnd` wakes any number of receivers); a
handler is then their composition, and `Scheduler`, `Semaphore` and `MsgQueue`
all use the same definitions. A call that may wait is split where the code
calls `schedule()`: `pc[p]` says where process `p` goes on, and what the code
rereads behind the call the model rereads there too.

`WindowManager` is written as operators for the same reason: one click goes to
the desktop and then to the windows, and a launch creates a window, a taskbar
item and an entry of an application. `Kernel` and `Gui` put parts side by
side that share no state: a behaviour of all of them is one of each, in any
order, so every run of the module picks one part and leaves the others as they
began. Parts that do share state (the desktop, the windows and the applications'
tables; the ring and its reader) are composed step by step.

Definitions with the comment *Seeded fault* are variants of the definition
that follows them, each a plausible slip of the code. None is part of a
specification; they serve to show that a property notices such a slip
(`mutants` in `PROJECT.json` pairs each property with one).

**Abstractions.**
- `rb_insert`, `rb_remove` and `rb_leftmost` are called but not defined in the
  repository. `SchedOps` takes the tree to be ordered by key, with `rb_leftmost`
  and `rb_remove(root, key)` both taking the first inserted of equal keys.
- `get_system_time` is external: how long a process ran is any of `Deltas`.
- `sched.nr` and `sched.tw` are signed where the code's counters would wrap. Only
  `calculate_time_slice` reads them, which nothing calls; so `MCScheduler`'s view
  `Uncounted` takes states that differ in them alone for one.
- `context_switch` is taken to save and restore a context, as its comments say.
- Heap sizes are naturals: the wrap of `size + 15` near 2^64 is left out.
- A message is its type and one more field that tells two of a type apart.
  Copying `msgsz` bytes and the -1 for a message that is too big are left out.
- `MsgQueue` and `Semaphore` start from a table entry that is in use: the ids
  that `msgget` and `semget` give are off by one from the slots, which is listed
  as a hazard and left to the model of the tables.
- `VirtualMemory` composes `pmm_alloc_page`, `get_pte`, `map_page`, `unmap_page` and
  `munmap` as operators on one record: `mmap` calls them in a loop and `munmap`
  again when it fails. A process has few pages and the tables have few entries,
  with the four levels kept. Files behind VMAs, copy-on-write and swap are left
  out (nothing sets `PAGE_COW` or `PAGE_SWAPPED`). Frame 0, whose address means
  "out of memory", and the memory below the free frames count as reserved.
  `find_free_vma_space` is external: any aligned gap.
- `Pipes` counts bytes and does not copy them; the descriptors that
  `pipe_create` enters are left out, and calls take the slot.
- In `Keyboard` one letter, Enter and the modifiers stand for the tables of
  characters; a character is handled in one step, which goes on or halts.
- `Console` and `Terminal` take a command's output as lines of characters. What is
  kept is what is on the screen, wrapped and scrolled as the code does it.
- A window's buffer is a number and how many pixels it was asked for; `kmalloc` is
  external to `WindowManager` and may fail or hand out the buffer that was freed
  last. What the pixels are is left out, and rendering, which only reads.
- Keys and clicks of applications have handlers that nothing in the repository
  calls yet (nor `gui_handle_window_event`, `browser_close_tab` and the wallpaper's
  operations). The models call them as their signatures and comments ask: for a
  window that exists, in any order. `KEY_UP` and its like have no definition in
  the repository and are taken to differ from every printable character.
- Coordinates of clicks are points on and beside each control; arithmetic on
  them wraps at a small `WORD` as the code's wraps at 2^32.
- File paths are sequences of names, URLs of one or two characters.
- `create_setting_value` and `validate_setting_value` are called and not defined:
  each may succeed or fail at any time.
- `desktop_set_wallpaper` has no body: the model records its last argument.
- `Semaphore` has no signals; a signal to a waiting process is in `MsgQueue`.
- `Scheduler` keeps of all wait lists how often a process is on one. The loops that
  wake (`ipc.c:330`, `:371`, `:459`, `:531`, `:677`) test no state, and neither does `Wake`:
  it strikes out an entry, makes the process ready and puts it on the run queue,
  also one that a signal woke before, that has run since, is running or has exited. It is
  one round of a loop, so other actions may come between two rounds, which the
  code does not allow: there are more behaviours, not fewer. What an expired timeout
  assigns to a process's state goes past `scheduler.c` and is in `Semaphore` only.
- Two variables of history: `rewoken`, the processes a wake-up found running or
  queued, and `answer`, what the last `pipe_read` was asked for and gave; and a field,
  a periodic task's `spent`. No guard reads them.

## 3. Runs

| Run | Instance | Shows |
| --- | --- | --- |
| `core`: heap | 272 bytes, room for four headers with data; requests of 0, 1, 17, 40 and 80 bytes | the types; tiling; the list walk finds the lowest block that fits; when all is freed the heap is one block; `kmalloc` fails only when no stretch of free bytes would do; refinement of `Allocator` |
| `core`: scheduler | idle and two processes of any priority; running times 0 and 1; time slice of 2 ticks; one entry of wait lists at a time, one process woken twice | only the current process is RUNNING; the run queue holds ready processes, once, under their own vruntime; the least vruntime is picked; each except for processes that were woken twice |
| `core`: virtual memory | two processes of three usable pages in two page tables, six frames; mappings and breaks at page boundaries, lengths of half a page and of two pages | no frame is in use twice or in use and free; every present page lies in a VMA; moving the break changes no page below both breaks |
| `scheduler_exit` | the scheduler alone with three processes, nobody woken twice | `ReadyIsQueued` fails, see below |
| `semaphore` | three processes, one of each priority; waits with no timeout and of 1 tick; 2 ticks | one holder, and the value agrees with it; no lost wake-up; the wait list holds sleepers only, once each, in the order of priority |
| `semaphore_priority`, `semaphore_timeout` | the same | `HolderInherits` and `ReadyIsQueued` fail, see below |
| `msgqueue` | three processes, ring of three, messages of two types, signals between any two, exits | refinement of `TypedQueue`; the tail agrees with head and count; whoever is listed waits for what is not there; whoever is blocked is listed; whoever is listed is still in the call |
| `msgqueue_exit` | the same, a longer run queue | `ExitIsFinal` fails, see below |
| `virtual_memory_brk` | virtual memory alone, and breaks and mappings inside a page | `BrkKeepsHeap` fails, see below |
| `gui` | desktop: 2 windows, 2 taskbar items, 3 ids; editor: 3 rows of 3 characters; terminal: 3 rows of 4; file manager: two windows, pages of 3, paths of 3 names; settings: one name of each kind; browser: 3 tabs, a history of 2, URLs of 1; the wallpaper manager's 12 pictures | windows: `FocusAgrees`, `BufferIsOwn`; editor: `CursorInLine`, and `EditsAtCursor` of its steps; terminal: `InputIsShown`; files: `SelectionIsShown`; settings: `ReadsLastAccepted`; browser: `TabsAgree` |
| `kernel` | keyboard: ring of 3; console: 2 rows of 3, lines of 3 of five characters, a command that prints tabs and more rows than there are; pipes: 2 of 2 bytes, two processes, sizes 0 to 3; periodic: 2 tasks of periods 0 to 2, 6 ticks, sections nested twice | keyboard: `KeysInOrder` (refinement of `KeyQueue`), `EveryKeyHandled` (liveness); console: `LineIsShown`; periodic: `RateKept`, and that interrupts are off exactly in critical sections; pipes: their types |
| `gui_draws`, `kernel_pipes` | those of `gui` and `kernel` | `DrawsFit` and `ReadGivesData` fail, see below |

**Why these bounds.** In the heap the requests lie on both sides of the 16-byte
rounding and, with remainders of 0 to 96 bytes, of the split threshold
(`size + 48`); four blocks give every pattern of free and held neighbours on
both sides of a block. For semaphores and queues three processes give a running
one, a queued one and a waiting one at once, and two waiters at a time; every
order of wake-up and overtaking needs no more. In the scheduler's part of `core` two
processes beside idle are enough for equal keys, for a second node that lies among
the other's, and for a process that is ended and created anew in the same slot; for
any number there is the proof. The three parts of `core` share no
state and are one run for brevity: `MCCore` picks one and leaves the others as
they begin. The ring of three has a message before, at and behind
the one that is taken out, full or not, wrapped or not.
Six frames are too few for one process with all its pages, and for two with one
page each (a page needs three tables), so that a mapping fails at its first
page, at its second, and for want of each level of table; three pages let two
mappings overlap in part. `LAST_PAGE` bounds the address space.

Two windows are one more than the focus needs to move, and as many as `MAX_WINDOWS`
allows there, so the table is full, empty and half full; three ids are created,
so one slot and one buffer are used twice, with an application that still holds
the old id. Three rows let the editor and the terminal scroll or shift at the
top, in the middle and at the bottom; rows of three or four characters are
filled, and joined beyond their length. A page of three files scrolls both ways
over a list of five. Three tabs give an active one that is before, at or behind
the closed one, first or last. A ring of three holds two characters, so it is
empty, half full, full and wrapped at every index. The console's screen is
shorter than one command's output. Sizes 0 to 3 for a pipe of 2 bytes lie on both
sides of its size, where the subtraction wraps. Six ticks let a pass come late by
more than a period.

**State constraints**, all in the MC modules and named there: `MaxVruntime`
(the clock of the scheduler grows for ever), `MaxIdleNodes` (the code inserts
the idle process and never removes it), `MaxTicks`, `MaxListed` and `MaxQueued`
(a process that signals wake lists itself again and again), `MaxNodes` and
`MaxRewoken` (each second wake-up adds a node), `MaxVmas`
(`MAP_FIXED` piles VMAs on one another), and `Bound` of `MCGui`: at most `MaxIds`
windows are created, one of the two other applications is open beside the
terminals, and the start menu, which nothing depends on, is not combined with
the modifiers. In `Periodic` the bounds `MaxTicks` and `MaxNesting` are guards. They cut long
behaviours and no step out of a state within them.

**Deadlock** is checked except in `gui` and `kernel`, where the system may really
stop: a terminal or browser that was left, an editor whose row ran over its
array, a path that outgrew its 256 bytes (what the code writes behind an array
is not followed further), a halted shell, a delay that waits for ticks inside a
critical section.

**Fairness.** `Keyboard` assumes weak fairness of the loop's own steps (`Loop`) and
of the timer's interrupt. The first says that the processor executes the next
instruction when no interrupt keeps it; the second that the timer, which
`irq_install` programs and leaves unmasked, keeps coming. No fairness is assumed
of the user. `EveryKeyHandled` rests on the timer: the loop takes one character
and halts, and an interrupt between its test and `hlt` does not wake it; with the
keyboard's own interrupts alone the last key could wait until the next one.
The other models assume none, and the kernel guarantees none: a process keeps
the processor until it waits or yields, and the idle process stays queued. What
must not be lost there is stated as safety: `NoLostWakeup`, `NobodyWaitsInVain`
and `BlockedIsListed` say that whoever should go on is where the next
`schedule()`, send or receive will find it.

### Where the code does otherwise than it says

- `scheduler_exit`: `process_exit` (`scheduler.c:369`) dequeues the running
  process, which is not on the run queue. Removal is by vruntime alone, so a
  ready process with the same vruntime is unlinked instead and never runs again.
  Four steps: two processes, a yield, an exit.
- `semaphore_priority`: what the comments at `ipc.c:578` and `ipc.c:605` call
  priority inheritance raises the process that is about to wait. A holder of
  low priority is never raised.
- `semaphore_timeout`: an expired timeout (`ipc.c:203`) moves the process to
  `rt_ready_queue`, which only the uncalled `rtos_schedule_next` reads. A wait
  with a timeout on a semaphore that stays taken does not return.
- `msgqueue_exit`: a signal wakes a process that waits in `msgrcv` and leaves it
  on the queue's list; the next `msgsnd` wakes it again (`ipc.c:460`) and it is
  on the run queue twice. One node outlives its wait and its exit: the ended
  process is picked again and returns from `process_exit`, where
  `syscalls.c:229` says "Should not return". Eight steps of three processes.
- `virtual_memory_brk`: `sys_brk` hands an old break inside a page to `mmap` with
  `MAP_FIXED` (`syscalls.c:271`), which maps that page again over a cleared frame.
  What the heap held there is lost and the old frame leaks. Two calls of `brk`.
- `kernel_pipes`: `pipe_read` (`ipc.c:306`, "Block if no data available", and `ipc.c:316`,
  "Block until data available") takes the processes that wait to write for those
  that hold the write end (`ipc.c:308`), finds none and returns 0 as at an end of file.
  `pipe_write` fails for want of readers in the same way. So no first one ever waits,
  nobody is there to be woken (`ipc.c:329`, `ipc.c:370`), and no byte is ever stored, which
  is the theorem `NothingFlows`. Two steps.
- `gui_draws`: `wm_resize_window` (`window_manager.c:175`) gives a window a buffer of
  its new size, and the terminal, the file manager and the editor clear as many
  pixels as the window opened with (`terminal_app.c:189`, "Assuming window size",
  `file_manager.c:190`, `text_editor.c:243`): in a window made smaller they
  write over the end of the buffer, into the next block of the heap. Three steps.

Three more, which have no run of their own; the properties beside them say
nothing of these cases:

- *Prompt.* `terminal_print_prompt` sets the cursor's column to 8, "Position after
  prompt" (`terminal_app.c:86`), but `terminal_print_line` has gone to the next row by
  then: what is typed appears one row below the prompt, behind its width. `InputIsShown`
  is about the cursor's own row from that column on.
- *Enter.* "Enter - new line", "Move text after cursor to next line"
  (`text_editor.c:86`, `:88`): no line is put in, the one below is overwritten and lost.
- *Save.* "Show save confirmation in status bar" (`text_editor.c:197`): the message
  replaces the last line of the text. `EditsAtCursor` leaves Enter and Ctrl+S out, with
  Ctrl+O and Ctrl+N.

### What else the models show

Behaviours of the code that no comment contradicts, which the models keep as
they are; a reader of the code may want to know of them.

- *Pipes.* A pipe's address is put into the descriptor table as a
  `file_descriptor`; `sys_close` would `kfree` it.
- *Ids.* Pipes, queues and semaphores count their ids from 1 and use them as
  indices of tables that start at 0.
- *Keyboard.* Releasing one shift key counts for both. The shell handles one
  character for each interrupt, so a burst of keys is answered with the ticks.
- *Delays.* `rtos_delay_us` below 1 ms does not wait, wraps above about 4.29 s, and
  does not end inside a critical section. A missed execution of a periodic task
  is not made up for, and a task is never unregistered. The pass reads the clock once
  and reckons from that: a task behind one that delays may run late and, in the next
  pass, again in the same tick. So executions are not a period apart; what holds is
  `RateKept`, that since its registration a task has not run more often than its
  period allows.
- *Windows.* A click goes to the first slot under it and not to the window drawn
  on top. `desktop_launch_app` ignores a failed creation, so the taskbar gets an item
  for window 0. `wm_init` forgets buffers that are held. A resize that finds no
  memory leaves a visible window without buffer, and `wm_render` reads its pixels all
  the same (`window_manager.c:248`). A close
  button leaves the taskbar item; `wm_destroy_window(0)` would find a free slot
  and count it.
- *Desktop.* A second `gui_init` shows no icons: they are added behind those
  counted before. Ctrl and Alt stay pressed after Ctrl+Alt+Q.
- *Editor.* Joining rows can outgrow the row.
- *File manager.* The list is one for all windows; a path can outgrow its 256
  bytes; `..` never leads from a first-level directory to the root.
- *Package manager.* The list's last half row is not drawn and can be clicked. Each
  window installs and removes in a copy of its own.
- *Settings.* A first set that is refused leaves an entry that hides the default;
  settings of type enum cannot be set; the definition for the mouse is dropped,
  its category never being created. The settings window does not use the store.
- *Browser.* Closing the active tab leaves the address of the closed one.
- *Wallpaper.* The strip to the right of a row selects the next row's first picture.

## 4. Proofs

`HeapProofs` proves, for every heap size above one header, every start address
but 0 and every set of request sizes (`HeapAssumption`):

- `Invariance`: the inductive invariant `IInv` holds in every state;
- `TypeCorrect`, `Tiling`, `Pristine`: the run's `HeapTypeOK`, `HeapTiled` and
  `AllFreedIsPristine`;
- `NeverFailsWithRoom`: the run's `FailsOnlyWhenFull`;
- `WalkFindsFirstFit`: the run's `WalkIsFirstFit`;
- `Refinement`: `Heap` implements `Allocator`, so whatever is handed out lies in
  the heap, is at least as long as was asked for, and overlaps nothing held.

*The argument.* `HeapTiled` is not inductive alone: that a block may be freed
or merged depends on who holds it. `IInv` adds the types, `Coalesced` (no two
free neighbours) and `Owned` (the allocated headers are those below the
pointers callers hold, each as large as asked for). Marking a block, splitting
one and absorbing one into its predecessor each get a lemma on well-formed
lists (`SetFreeWellFormed`, `SplitWellFormed`, `AbsorbWellFormed`). `kfree`
breaks `Coalesced` at one block; `MergeNextLemma` and `MergePrevLemma` show that
the two merges restore it on either side and leave held blocks alone. `Pristine`
needs all three parts: with nothing held every header is free, with no free
neighbours there is one header, and it tiles the heap. `Refinement` maps a call
of `kmalloc` to an allocation through `HandedOutIsAvailable`. For
`NeverFailsWithRoom`, `BlockAt` shows that every byte of the heap lies in some
block; a stretch that touches no held block cannot run from one free block into the
next, since no two are neighbours, so one block holds all of it and fits. The walk of
`find_free_block` is a recursive function: `WalkExists` shows that its equation has a
solution, `WalkFinds` that a solution can only be the first fit, by way of the last
block at which the two would differ.

`SchedulerProofs` proves, for every number of slots, every time slice and every
set of running times (`SchedOpsAssumption`, `SchedulerAssumption`):

- `SchedulerInvariance`: the inductive invariant of the scheduler;
- `TypeCorrect`, `OneRuns`, `QueueIsRight`: the run's `SchedulerTypeOK`,
  `RunningIsCurrent` and `QueueMatchesStates`;
- `LeastIsPicked`: the run's action property `PicksLeastVruntime`.

*What they except.* The code's wake loops put a process on the run queue whatever its
state, so a process may be there twice, under different keys, while it runs or after
it has exited. All four statements hold in spite of such nodes, but not of the
processes they belong to: these are `rewoken`, from the first wake-up that finds them
running or queued, for good. Idle's nodes, never removed, are the other exception.

*The argument.* Each operation of `SchedOps` keeps a scheduler state *sane but for* a
set X of processes (`SaneBut`): typed, with positive weights (`update_vruntime`
divides by them), and the processes outside X on the run queue once at most,
ready, under their own vruntime. A wake-up that would break this for a process
puts it into X. The delicate point is `schedule()`: it picks a process, then inserts
the previous one, then removes the picked one by key. `InsertBehind` shows that
the insertion leaves the picked node the first one with its key,
`DequeueTakesFirst` that the removal then takes it and no other, whoever else has
nodes under that key; this is where the order of equal keys, assumed of the tree, is
used. `ExitStep` does not need to know which node `process_exit` removes: a removal of
any node leaves the rest in order, which is why `QueueMatchesStates` holds though
`ReadyIsQueued` does not. `LeastIsPicked` needs two more things: that the queue is
in the order of its keys (`Sorted`), kept by `InsertSorted` and `RemoveSorted` whatever the
nodes, so that the head has a least key; and that no node's key is above its
process's vruntime (`OldKeys`), which bounds from below the processes that wait, also
the rewoken ones, while the picked one's key is its vruntime. `Follows` says that all
that `schedule()` does after picking touches no other process's node or vruntime.

`KernelProofs` proves, of the composition `Kernel` and for every value of its
constants (`KernelAssumption`), one inductive invariant for each part, and from
them `KernelTypes`: the run's `KernelTypeOK` as a whole. `KernelTurns` says once
that a step of the composition is a step of a part or leaves it alone.

- *Pipes.* `NothingFlows`: `PipesInert` for any number of pipes and processes and
  any sizes. The invariant adds that no process is inside a call, which is what
  `Resume` would need.
- *Periodic tasks.* `CriticalSections` and `RatesKept`, for any tasks, periods,
  delays and nesting. `PerInv` says of each task that it is next due no earlier than a
  period after the time its executions so far account for; of the one that is
  running, whose entry is not looked at before it is rescheduled, that they account for no
  more than the pass's reading, from which it is rescheduled. Registrations while a
  task runs extend the table at its end and leave the index where it is.
- *Keyboard.* `KeyboardRefinement`: for every size of the ring above 1 the driver
  and its reader implement `KeyQueue`. The invariant `KbInv` says what the reader
  may rely on under the interrupts: past its test there is something to read,
  and the character it has read is in its place until the tail moves. The rest
  is arithmetic of the ring: what is stored, read off head and tail modulo the
  size, grows at its end with an interrupt (`AddAppends`) and loses its head with
  `Advance` (`AdvanceTakes`).
- *Shell and console.* `LineShown`: for every size of the screen and of the line,
  and whatever commands print. `ConInv` is `LineIsShown` with the types, and with
  the blank cells at and behind the cursor kept also while a command prints:
  that is what lets a prompt be read off the screen after any output. A printed
  text is a fold of `PutChar` over its characters (`PutsTurns`), and the induction
  over it is `PutsKeeps`, on top of what one character does through wrapping and
  scrolling. That no command prints a carriage return or a backspace, of which
  `ConsoleAssumption` keeps `Output` free, is so for every string in `shell.c`;
  after one, cells behind the cursor would not be blank.

`KernelProofs` also proves every property of the run `core` about virtual memory, for any
processes, number of frames, size of a page and of a table, addresses and lengths
(`VirtualMemoryAssumption`): `MemoryTypes`, `FramesHaveOneUse`, `PresentLiesInVma`
and `BreakKeepsHeap`. The last two are about calls with page-aligned addresses
(`PageAligned`, their hypothesis): `mmap` with `MAP_FIXED` does not round its address, and a
VMA that starts inside a page can lose the page at its end, where a fault maps
what `munmap`'s loop does not reach. An unaligned break is the run `virtual_memory_brk`.

*The argument.* `FrameInv` is `OneUse` in a form that every step of a call keeps.
`Sound(m, X)` is about the record a call works on and a set X of frames that are
used elsewhere: by other processes, or by this call between `pmm_alloc_page` and
the entry of what it returned. Each operator moves a frame from one of its uses
to the next (`AllocKeeps`, `TableKeeps`, `EntryKeeps`, `ClearKeeps`, `FreeKeeps`),
and a frame that `map_page` cannot enter stays in X for ever: it leaks, and is used
by nobody. The loops of `mmap` and `munmap` are folds that are followed turn by turn
(`UnmapVmaTurns`, `UnmapTurns`, `MapPagesTurns`, and `Reaches`, the induction). `TidyInv` says
which pages a call may touch: those of a VMA, which with aligned starts are the
pages `munmap` visits (`PagesFacts`). While `munmap` runs, a page may lie in a VMA that it
has yet to look at; overlapping VMAs may clear each other's pages, which leaves them
without a frame and no frame without a VMA.

`GuiProofs` proves, for any number of window slots and of taskbar items, any
places and sizes, any clicks and any failures of `kmalloc` (`WindowAssumption`,
`DesktopAssumption`), `FocusAlwaysAgrees` and `BuffersAreOwn`. Every
operator of `WindowManager` keeps a window table *sound*: ids below the next one
and given to one slot each, each buffer of one slot in use, held and of the window's size, the focus in
its two places, and a window count that is the number of windows. The count is
needed because `wm_create_window` tests it before it looks for a slot and would
take slot 0 if it found none (`FreeSlotFound`); the ids, because a closed window
hands its focus on without telling the others (`DestroyKeeps`): the one that
closed was the only one that had it. Ids are naturals here and `u32` in the code:
the theorems hold up to 2^32 - 1 creations, when `next_window_id`
becomes 0.

`GuiProofs` also proves, of the composition `Gui` and for every value of its
constants (`GuiAssumption`), every other property of the run `gui`.
`GuiTurns` says once that a step of the composition is a step of a part or leaves
it alone; each part has its own inductive invariant. Lines, paths, tables and
histories are of any limits, and what a command prints is any sequence of lines.

- *Settings.* `ReadsWhatWasAccepted`. `SmInv` says of the entries what the property
  says of the answers: an accepted value is in its entry. A set of another name, or a
  refused one, leaves it there (`SetKeeps`).
- *Browser.* `TabsAlwaysAgree`. `WbInv` is the property with the types; the address is
  the active tab's unless it was edited or its tab closed. The delicate
  step is `CloseKeeps`: the tabs behind the closed one move up and the active one is
  looked for by its new index.
- *Editor.* `CursorStaysInLine`. `EdInv` is the property with the types, of which the
  one that counts is that a line has room for its end mark. Enter splits a line and
  overwrites the next row, Backspace at the start of a line joins two and shifts the
  rest up (`JoinKeeps`); a join that outgrows the row ends the editor in the model.
- *The editor's text.* `KeysEditAtCursor`: `EditsAtCursor` of every step. The text is
  the concatenation of all lines, so each key is a fact about where one line lies in
  it: lines that stay, wherever they moved, add the same text (`SameTail`, by induction
  over the rows), and what is put into or taken out of a line is put into or taken out of
  the text behind the lines before it (`InsertInPart`, `RemoveInPart` in `DataLemmas`).
  What typing and Backspace do is right only with `CursorInLine`.
- *Terminal.* `InputAlwaysShown`. The cursor's row is only right because every row behind
  the cursor is blank when a prompt is printed, whatever was printed before and
  however often the screen scrolled: `Fresh` says so between two lines of output and
  `Ready` before one; `PrintedLine` leads from the one to the other, and
  `PrintLinesStay` is the induction over the lines of an output.
- *File manager.* `SelectionAlwaysShown`. The list that all windows share is the right
  one for each because every directory but the root has the same entries (`Listed`),
  and `FmInv` keeps every path of a window away from the root: `..` in a first-level
  directory does not lead there.
- *Types.* `EverythingTyped`: `AllTypeOK` as a whole. The types of the desktop need the
  sound window table, from which the ids in taskbar and tables come (`LaunchHolds`).

`MsgQueueProofs` proves, for every size of the ring, any processes, messages and
types (`MsgQueueAssumption`), every property of the run `msgqueue`:
`TypeCorrect`, `RingStaysConsistent`, `NobodyEverWaitsInVain`, `ListedStaysInCall`,
`BlockedStaysListed` and `QueueRefinement`: `MsgQueue` implements `TypedQueue`.

*The argument.* `MqInv` uses no definition of `SchedOps`: what the queue holds is
right whichever process the scheduler runs. It is inductive only as a whole: a
sender that finds room may return because nobody is listed as waiting for room
then, and that holds because every receive empties that list. The content of the
queue is read off head and count (`ContentFacts`); a receive from the head moves
the head (`HeadTaken`), one from behind it moves up the messages that follow and
takes the tail back by one (`MiddleTaken`), and both remove that message from the
content. `SleepInv` is about the scheduler as well: a process may be blocked and
current all the same, because its second node on the run queue was picked. It
cannot leave its loop then, since what it waits for has not come, and it is
listed still. Waking a list is a fold; `WakeTurns` is the loop turn by turn and
`WakeAllUnblocks` the induction over it.

`SemaphoreProofs` proves, for any processes, priorities, timeouts, running times
and number of slots (`SemaphoreAssumption`), every property of the run
`semaphore`: `TypeCorrect`, `LockIsOne`, `NoWakeupIsLost`, `ListedAreAsleep` and
`ListIsSorted`.

*The argument.* `IInv` is the types, `LockInv` (the lock is free, or one process
has it) and `QueuesInv`, which ties the four places of a process together: its
state, the run queue, the wait list and where it is in its call. Whoever is on
the wait list is blocked, or ready after an expired timeout, and in either
case on no run queue, so waking it enqueues it once. Between `sem_signal`'s wake-up
and the second look of the woken process the value may be taken by another;
`NoLostWakeup` holds because somebody who is awake and inside the call stays on
the run queue or is current until it has looked (`SomeoneAwake`). `schedule()` is used through
`SchedLemmas`: it keeps *sane* states sane and drops nobody who is ready and
queued. The tick's pass over the timeout table is a fold, and `ExpireTurns` is the
loop turn by turn, `CheckTimeoutsFacts` the induction over it: it makes blocked
processes ready on a queue of their own and touches nothing else of the
scheduler (`Relaxed`). `CreatedFilled` is the same for the boot code that fills the
process table.

*Inductions.* What a fold or a recursive function computes for every input is
proved by induction over finite sets of numbers, which needs no operator as a
parameter: `SetInduction` and `LeastElement` of `DataLemmas` take the set of the
cases that hold. `FoldExists`, `FoldIntervals` and `RecursionExists` say that the
functions behind `FoldLeft` and behind recursive definitions exist, which the
definitions leave to a CHOOSE.

Only model-checked: `EveryKeyHandled`, a liveness property under fairness.

## 5. Not modelled, and what is left

- *Tables and descriptors*: `msgget`, `semget` and the ids they give; `sys_open` and
  `sys_close` (`vfs_open` is not defined in the repository). Real-time priorities and
  time slices. Shared memory is declared and has no operations.
- *Copy-on-write and swap*: nothing sets `PAGE_COW` or `PAGE_SWAPPED`, and nothing
  calls `swap_out_page`.
- *Calculator*: its state is a double, and what could go wrong is arithmetic.
- *System information*, *system tools*: samples of `rand()` that are drawn, and
  commands that print over a file system the repository does not define.
- *Boot, descriptor tables, framebuffer, C strings*: straight-line set-up and
  loops over pixels and bytes.
- *HTML demonstrations and scripts*: mock-ups of the desktop in a browser.

Worth doing next: the tables and the ids as a module; keys routed through the focus once the code does it.
