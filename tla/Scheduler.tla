------------------------------- MODULE Scheduler -------------------------------
(***************************************************************************)
(* The life of a thread: process/scheduler.rs, process/proc.rs, percpu.rs, *)
(* the entry and exit code of interrupts/idt.rs, the timer, keyboard and   *)
(* page-fault handlers, and the two ways into the kernel for a system call *)
(* (the syscall instruction and int 0x80).                                 *)
(*                                                                         *)
(* One core.  Interrupts are off in the kernel, so a handler is one step   *)
(* unless it may be cut by a fault on its own kernel stack: a fast system  *)
(* call is entered, may fault, and then returns, yields or exits.  One     *)
(* iteration of schedule()'s outer loop is one step.  create_process gives *)
(* a process exactly one thread, with tid = pid.                           *)
(*                                                                         *)
(* The registers of a user thread are abstracted to a context: whose code  *)
(* they run, how far it is, and whether rbp holds what that code put in.   *)
(* cpu.regs is the zero context while kernel code executes.                *)
(***************************************************************************)
EXTENDS Integers, Sequences, FiniteSets

CONSTANTS
  MaxPid,          \* bound on the processes created before schedule() starts
  Steps,           \* bound on the distinguishable points of a user program
  MaxUserPages,    \* max_user_stack_pages
  MaxKernelPages,  \* max_kernel_stack_pages
  Buffers,         \* the argument of ensure_enough_allocated_buffers
  Calls            \* the kinds of system call that user programs make

ASSUME SchedulerAssumption ==
  /\ MaxPid \in Nat /\ Steps \in Nat \ {0}
  /\ MaxUserPages \in Nat \ {0} /\ MaxKernelPages \in Nat \ {0}
  /\ Buffers \in Nat
  /\ Calls \subseteq {"plain", "io", "set_fs", "set_gs", "yield", "exit"}

VARIABLES
  next_pid,    \* proc_create_state
  processes,   \* the pids of the process map
  threads,     \* the tids of the thread map
  task_queue,
  thread,      \* the Thread of every tid
  proc,        \* the Process of every pid
  percpu,      \* the PerCpu of the core
  cpu,         \* what the core executes, its registers, the call in progress
  left         \* history: how and with which context a waiting thread left user mode

vars == <<next_pid, processes, threads, task_queue, thread, proc, percpu, cpu, left>>

Pids  == 1 .. MaxPid
None  == 0              \* no thread, no core, the kernel's own page table
Core  == 1
AllCalls == {"plain", "io", "set_fs", "set_gs", "yield", "exit"}

Elems(s)  == {s[i] : i \in 1 .. Len(s)}
Larger(a, b) == IF a > b THEN a ELSE b

Contexts == [owner : 0 .. MaxPid, step : 0 .. (Steps - 1), rbp : {"own", "rsp"}]
Start(t) == [owner |-> t, step |-> 0, rbp |-> "own"]

NoThread ==
  [task_state |-> "None", running_cpu |-> None, locked |-> FALSE, state |-> Start(0),
   fs_base |-> 0, gs_base |-> 0, stack |-> 0, kstack |-> 0]
NoProcess == [state |-> "None", threads |-> {}, zombies |-> {}, code |-> FALSE]

NeverLeft == [via |-> "never", regs |-> Start(0)]

running == percpu.running

-------------------------------------------------------------------------------
Init ==
  /\ next_pid = 1
  /\ processes = {} /\ threads = {} /\ task_queue = <<>>
  /\ thread = [t \in Pids |-> NoThread]
  /\ proc = [p \in Pids |-> NoProcess]
  /\ percpu = [running |-> None, sources |-> <<>>, syscall_data |-> Start(0), buffers |-> 0]
  /\ cpu = [mode |-> "boot", regs |-> Start(0), fs |-> 0, gs |-> 0, cr3 |-> None,
            call |-> "plain", pt_held |-> FALSE]
  /\ left = [t \in Pids |-> NeverLeft]

(* Scheduler::create_process, called by the boot code before schedule().   *)
CreateProcess ==
  /\ cpu.mode = "boot"
  /\ next_pid \in Pids
  /\ next_pid' = next_pid + 1
  /\ proc' = [proc EXCEPT ![next_pid] =
                [state |-> "Init", threads |-> {next_pid}, zombies |-> {}, code |-> TRUE]]
  /\ thread' = [thread EXCEPT ![next_pid] =
                  [NoThread EXCEPT !.task_state = "Init", !.state = Start(next_pid),
                                   !.stack = 1, !.kstack = 1]]
  /\ processes' = processes \cup {next_pid}
  /\ threads' = threads \cup {next_pid}
  /\ task_queue' = Append(task_queue, next_pid)
  /\ UNCHANGED <<percpu, cpu, left>>

(* create_process whose Pipe::create fails: only the pid is used up.       *)
CreateProcessFails ==
  /\ cpu.mode = "boot"
  /\ next_pid \in Pids
  /\ next_pid' = next_pid + 1
  /\ UNCHANGED <<processes, threads, task_queue, thread, proc, percpu, cpu, left>>

(* The end of kmain.                                                       *)
BootSchedule ==
  /\ cpu.mode = "boot"
  /\ cpu' = [cpu EXCEPT !.mode = "schedule"]
  /\ UNCHANGED <<next_pid, processes, threads, task_queue, thread, proc, percpu, left>>

-------------------------------------------------------------------------------
(* One iteration of the loop of Scheduler::schedule.                       *)
LastSource == IF percpu.sources = <<>> THEN "None" ELSE percpu.sources[Len(percpu.sources)]

(* Variants of Requeued: dead threads too; at the front.                   *)
RequeuedDead == IF running # None THEN Append(task_queue, running) ELSE task_queue
RequeuedFront ==
  IF running # None /\ thread[running].task_state # "Zombie"
  THEN <<running>> \o task_queue ELSE task_queue

(* The queue once the interrupted thread, unless it is dead, was pushed at *)
(* its back.                                                               *)
Requeued ==
  IF /\ running # None
     /\ LastSource \in {"User", "Syscall"}
     /\ thread[running].task_state # "Zombie"
     /\ proc[running].state # "Zombie"
  THEN Append(task_queue, running)
  ELSE task_queue

(* Variant of Saved: nothing is copied.                                    *)
SavedNothing == thread

(* The threads once the registers that the syscall entry saved were copied *)
(* to the interrupted thread.                                              *)
Saved ==
  IF running # None /\ LastSource = "Syscall"
  THEN [thread EXCEPT ![running].state = percpu.syscall_data]
  ELSE thread

(* pop_front, and the variant that leaves the thread at the front.         *)
PoppedNot(q) == q
Popped(q) == Tail(q)

(* Variants of Dispatch: the sources are not cleared; the fs base of the   *)
(* last thread stays.                                                      *)
DispatchSources(t) ==
  /\ thread' = [Saved EXCEPT ![t].task_state = "Running", ![t].running_cpu = Core,
                             ![t].locked = TRUE]
  /\ percpu' = [percpu EXCEPT !.running = t]
  /\ left' = [left EXCEPT ![t] = NeverLeft]
  /\ cpu' = [cpu EXCEPT !.mode = "user", !.regs = Saved[t].state,
                        !.fs = 0, !.gs = Saved[t].gs_base, !.cr3 = t]
DispatchFs(t) ==
  /\ thread' = [Saved EXCEPT ![t].task_state = "Running", ![t].running_cpu = Core,
                             ![t].locked = TRUE]
  /\ percpu' = [percpu EXCEPT !.running = t, !.sources = <<>>]
  /\ left' = [left EXCEPT ![t] = NeverLeft]
  /\ cpu' = [cpu EXCEPT !.mode = "user", !.regs = Saved[t].state,
                        !.gs = Saved[t].gs_base, !.cr3 = t]

(* Dispatch thread t and Thread::jmp_to_userland.  Its `mov fs` reloads    *)
(* the base from the descriptor, which is 0, after FsBase::set set it.     *)
Dispatch(t) ==
  /\ thread' = [Saved EXCEPT ![t].task_state = "Running",
                             ![t].running_cpu = Core,
                             ![t].locked = TRUE]
  /\ percpu' = [percpu EXCEPT !.running = t, !.sources = <<>>]
  /\ left' = [left EXCEPT ![t] = NeverLeft]
  /\ cpu' = [cpu EXCEPT !.mode = "user", !.regs = Saved[t].state,
                        !.fs = 0, !.gs = Saved[t].gs_base, !.cr3 = t]

Schedule ==
  /\ cpu.mode = "schedule"
  /\ LET q == Requeued
         t == Head(q)
     IN IF q = <<>>
        THEN /\ cpu' = [cpu EXCEPT !.mode = "idle"]   \* sti, spin
             /\ thread' = Saved
             /\ task_queue' = q
             /\ UNCHANGED <<proc, percpu, left>>
        ELSE /\ task_queue' = Popped(q)
             /\ IF t \in processes /\ proc[t].state = "Zombie"
                THEN thread' = Saved /\ UNCHANGED <<proc, percpu, cpu, left>>  \* continue 'outer
                ELSE /\ proc' = IF t \in processes
                                THEN [proc EXCEPT ![t].state = "Running"]
                                ELSE proc
                     /\ IF thread[t].locked   \* running_cpu.lock() spins
                        THEN /\ thread' = [Saved EXCEPT ![t].task_state = "Running"]
                             /\ cpu' = [cpu EXCEPT !.mode = "stuck"]
                             /\ UNCHANGED <<percpu, left>>
                        ELSE Dispatch(t)
  /\ UNCHANGED <<next_pid, processes, threads>>

-------------------------------------------------------------------------------
(* User code runs on.                                                      *)
UserStep ==
  /\ cpu.mode = "user"
  /\ cpu' = [cpu EXCEPT !.regs.step = (@ + 1) % Steps, !.regs.rbp = "own"]
  /\ UNCHANGED <<next_pid, processes, threads, task_queue, thread, proc, percpu, left>>

(* Variant of Entered: the guard that schedule() forgot stays locked.      *)
EnteredLocked == [thread EXCEPT ![running].state = cpu.regs, ![running].running_cpu = None]

(* common_enter_interrupt on an interrupt of user code.                    *)
Entered ==
  [thread EXCEPT ![running].state = cpu.regs,
                 ![running].running_cpu = None,
                 ![running].locked = FALSE]

(* common_exit_interrupt and iretq back to the user code that was          *)
(* interrupted; the assembly stub reloads fs, and with it a base of 0.     *)
ReturnToUser(th) ==
  /\ thread' = [th EXCEPT ![running].running_cpu = Core, ![running].locked = TRUE]
  /\ cpu' = [cpu EXCEPT !.fs = 0]

(* irq0_timer::handler on an interrupt of user code: schedule().           *)
TimerInterrupt ==
  /\ cpu.mode = "user"
  /\ thread' = Entered
  /\ percpu' = [percpu EXCEPT !.sources = Append(@, "Syscall")]
  /\ cpu' = [cpu EXCEPT !.mode = "schedule", !.regs = Start(0)]
  /\ left' = [left EXCEPT ![running] = [via |-> "interrupt", regs |-> cpu.regs]]
  /\ UNCHANGED <<next_pid, processes, threads, task_queue, proc>>

(* irq1_keyboard::handler on an interrupt of user code.                    *)
KeyboardInterrupt ==
  /\ cpu.mode = "user"
  /\ ReturnToUser(Entered)
  /\ UNCHANGED <<next_pid, processes, threads, task_queue, proc, percpu, left>>

(* Either interrupt in the boot code or the idle loop: the timer handler   *)
(* counts the tick and returns.                                            *)
KernelInterrupt ==
  /\ cpu.mode \in {"boot", "idle"}
  /\ UNCHANGED vars

(* int80h::handler: it wants the last source to be User or none, the entry *)
(* code has just pushed Syscall, and the call returns -1 unserved.         *)
Int80 ==
  /\ cpu.mode = "user"
  /\ ReturnToUser(Entered)
  /\ percpu' = [percpu EXCEPT !.buffers = Larger(@, Buffers)]
  /\ UNCHANGED <<next_pid, processes, threads, task_queue, proc, left>>

(* The test against max_user_stack_pages.                                  *)
StackFits(n) == n <= MaxUserPages

(* A fault of user code on a page of its stack that is n pages down.       *)
UserStackFault(n) ==
  /\ cpu.mode = "user"
  /\ n > thread[running].stack
  /\ IF ~StackFits(n)
     THEN /\ thread' = Entered
          /\ percpu' = [percpu EXCEPT !.sources = Append(@, "Syscall")]
          /\ cpu' = [cpu EXCEPT !.mode = "panic"]
     ELSE /\ ReturnToUser([Entered EXCEPT ![running].stack = n])
          /\ UNCHANGED percpu
  /\ UNCHANGED <<next_pid, processes, threads, task_queue, proc, left>>

(* exc_6_invalid_opcode and unhandled_interrupt: both panic.               *)
UnhandledException ==
  /\ cpu.mode = "user"
  /\ thread' = Entered
  /\ percpu' = [percpu EXCEPT !.sources = Append(@, "Syscall")]
  /\ cpu' = [cpu EXCEPT !.mode = "panic"]
  /\ UNCHANGED <<next_pid, processes, threads, task_queue, proc, left>>

-------------------------------------------------------------------------------
(* The kernel page table's load(): Cr3::write executes `mov cr2`, so the   *)
(* table in use stays the one it was.                                      *)
load(cr3) == cr3

(* Variant of ThreadExit: the user stack stays mapped.                     *)
ThreadExitStack(th, t) ==
  [th EXCEPT ![t].running_cpu = None, ![t].task_state = "Zombie"]

(* handle_exit_internal for the one thread of process p, once              *)
(* running_cpu.lock() returns, and handle_process_exit for p; kill_process *)
(* does the same in another order.                                         *)
ThreadExit(th, t) ==
  [th EXCEPT ![t].running_cpu = None, ![t].stack = 0, ![t].task_state = "Zombie"]

ProcessExit(p) ==
  [proc EXCEPT ![p] = [state |-> "Zombie", threads |-> @.threads \ {p},
                       zombies |-> @.zombies \cup {p}, code |-> FALSE]]

Exit(th, p, found) ==
  /\ IF found
     THEN /\ ~th[p].locked
          /\ thread' = ThreadExit(th, p)
          /\ proc' = ProcessExit(p)
          /\ processes' = processes \ {p}
     ELSE thread' = th /\ UNCHANGED <<proc, processes>>
  /\ cpu' = [cpu EXCEPT !.mode = "schedule", !.cr3 = load(@), !.call = "plain",
                        !.regs = Start(0), !.pt_held = FALSE]

(* A fault of user code that the page-fault handler cannot mend: it kills  *)
(* the process and calls schedule().                                       *)
SegmentationFault ==
  /\ cpu.mode = "user"
  /\ Exit(Entered, running, running \in processes)
  /\ percpu' = [percpu EXCEPT !.sources = Append(@, "Syscall")]
  /\ UNCHANGED <<next_pid, threads, task_queue, left>>

-------------------------------------------------------------------------------
(* fast_syscall_entry and the start of handler_fast.                       *)
SyscallEnter(c) ==
  /\ cpu.mode = "user"
  /\ percpu' = [percpu EXCEPT !.syscall_data = cpu.regs,
                              !.sources = Append(@, "Syscall"),
                              !.buffers = Larger(@, Buffers)]
  /\ thread' = [thread EXCEPT ![running].running_cpu = None, ![running].locked = FALSE]
  /\ cpu' = [cpu EXCEPT !.mode = "syscall", !.call = c, !.regs = Start(0)]
  /\ left' = [left EXCEPT ![running] = [via |-> "syscall", regs |-> cpu.regs]]
  /\ UNCHANGED <<next_pid, processes, threads, task_queue, proc>>

(* read, write, uname and exit lock the page table of their process, the   *)
(* first three for all of the call.                                        *)
SyscallLock ==
  /\ cpu.mode = "syscall"
  /\ cpu.call \in {"io", "exit"}
  /\ ~cpu.pt_held
  /\ cpu' = [cpu EXCEPT !.pt_held = TRUE]
  /\ UNCHANGED <<next_pid, processes, threads, task_queue, thread, proc, percpu, left>>

(* The end of handler_fast and of fast_syscall_entry, whose last move puts *)
(* rsp in rbp; running_cpu stays unlocked.  arch_prctl sets fs or gs.      *)
SyscallReturn ==
  /\ cpu.mode = "syscall"
  /\ cpu.call \in {"plain", "io", "set_fs", "set_gs"}
  /\ cpu.call = "io" => cpu.pt_held
  /\ percpu' = [percpu EXCEPT !.sources = SubSeq(@, 1, Len(@) - 1)]
  /\ thread' = [thread EXCEPT
                  ![running].fs_base = IF cpu.call = "set_fs" THEN running ELSE @,
                  ![running].gs_base = IF cpu.call = "set_gs" THEN running ELSE @]
  /\ cpu' = [cpu EXCEPT !.mode = "user", !.call = "plain", !.pt_held = FALSE,
                        !.regs = [percpu.syscall_data EXCEPT !.rbp = "rsp"],
                        !.fs = IF cpu.call = "set_fs" THEN running ELSE @,
                        !.gs = IF cpu.call = "set_gs" THEN running ELSE @]
  /\ left' = [left EXCEPT ![running] = NeverLeft]
  /\ UNCHANGED <<next_pid, processes, threads, task_queue, proc>>

(* linux_sys_sched_yield.                                                  *)
SyscallYield ==
  /\ cpu.mode = "syscall"
  /\ cpu.call = "yield"
  /\ cpu' = [cpu EXCEPT !.mode = "schedule", !.call = "plain"]
  /\ UNCHANGED <<next_pid, processes, threads, task_queue, thread, proc, percpu, left>>

(* linux_sys_exit.                                                         *)
SyscallExit ==
  /\ cpu.mode = "syscall"
  /\ cpu.call = "exit"
  /\ cpu.pt_held
  /\ Exit(thread, running, running \in threads)
  /\ UNCHANGED <<next_pid, threads, task_queue, percpu, left>>

(* A fault of kernel code on the n-th page of its stack, which the         *)
(* page-fault handler maps from the buffers set aside at the entry.        *)
KernelStackGrow(n) ==
  /\ cpu.mode = "syscall"
  /\ n \in (thread[running].kstack + 1) .. MaxKernelPages
  /\ ~cpu.pt_held
  /\ n - thread[running].kstack <= percpu.buffers
  /\ percpu' = [percpu EXCEPT !.buffers = @ - (n - thread[running].kstack)]
  /\ thread' = [thread EXCEPT ![running].kstack = n]
  /\ cpu' = [cpu EXCEPT !.fs = 0]
  /\ UNCHANGED <<next_pid, processes, threads, task_queue, proc, left>>

(* The same fault while the interrupted call holds the page table: the     *)
(* handler spins on page_table.lock() for ever.                            *)
KernelStackDeadlock ==
  /\ cpu.mode = "syscall"
  /\ thread[running].kstack < MaxKernelPages
  /\ cpu.pt_held
  /\ percpu' = [percpu EXCEPT !.sources = Append(@, "Kernel")]
  /\ cpu' = [cpu EXCEPT !.mode = "stuck"]
  /\ UNCHANGED <<next_pid, processes, threads, task_queue, thread, proc, left>>

(* The same fault when the buffers run out, or beyond the last page.       *)
KernelStackOverflow(n) ==
  /\ cpu.mode = "syscall"
  /\ n > thread[running].kstack
  /\ \/ n > MaxKernelPages /\ UNCHANGED thread
     \/ /\ n <= MaxKernelPages
        /\ ~cpu.pt_held
        /\ n - thread[running].kstack > percpu.buffers
        /\ thread' = [thread EXCEPT ![running].kstack = @ + percpu.buffers]
  /\ percpu' = [percpu EXCEPT !.sources = Append(@, "Kernel"),
                              !.buffers = IF n > MaxKernelPages THEN @ ELSE 0]
  /\ cpu' = [cpu EXCEPT !.mode = "panic"]
  /\ UNCHANGED <<next_pid, processes, threads, task_queue, proc, left>>

-------------------------------------------------------------------------------
Kernel ==
  BootSchedule \/ Schedule \/ SyscallLock \/ SyscallReturn \/ SyscallYield \/ SyscallExit

Next ==
  \/ Kernel
  \/ CreateProcess \/ CreateProcessFails
  \/ UserStep \/ TimerInterrupt \/ KeyboardInterrupt \/ KernelInterrupt
  \/ Int80 \/ UnhandledException \/ SegmentationFault
  \/ KernelStackDeadlock
  \/ \E c \in Calls : SyscallEnter(c)
  \/ \E n \in 1 .. (MaxUserPages + 1) : UserStackFault(n)
  \/ \E n \in 1 .. (MaxKernelPages + 1) : KernelStackGrow(n) \/ KernelStackOverflow(n)

(* Kernel code runs on.  A tick that falls into a system call stays        *)
(* pending in the PIC and is taken at the first user instruction, so a     *)
(* thread that returns to user mode again and again is interrupted.        *)
Spec == Init /\ [][Next]_vars /\ WF_vars(Kernel) /\ SF_vars(TimerInterrupt)

-------------------------------------------------------------------------------
Executing == cpu.mode \in {"user", "syscall"}
Runnable(t) == t \in Elems(task_queue) \/ (Executing /\ t = running)

(* Every live thread is in exactly one place: once in the task queue, to   *)
(* which schedule() pushes the interrupted thread without looking for it   *)
(* first, or on the core, which never idles while there is one.            *)
QueuedOnce ==
  /\ \A i, j \in 1 .. Len(task_queue) : task_queue[i] = task_queue[j] => i = j
  /\ Executing => running \notin Elems(task_queue)
  /\ \A t \in threads :
       \/ thread[t].task_state = "Zombie"
       \/ t \in Elems(task_queue)
       \/ t = running /\ cpu.mode # "idle"

(* A thread that may be dispatched, or that executes, still has all that   *)
(* exit takes away: its process is in the map, its code and its user stack *)
(* are mapped.  schedule() dispatches a thread whose process left the map.     *)
RunnableIntact ==
  \A t \in Pids : Runnable(t) =>
    /\ t \in processes /\ t \in proc[t].threads
    /\ thread[t].task_state # "Zombie" /\ proc[t].state # "Zombie"
    /\ proc[t].code /\ thread[t].stack > 0

(* What exit and kill take from a process that left the map: its thread is *)
(* a zombie, moved to zombie_threads, without code and user stack, on no   *)
(* core, unlocked and in no queue.                                         *)
DeadReaped ==
  \A t \in threads \ processes :
    /\ thread[t].task_state = "Zombie" /\ proc[t].state = "Zombie"
    /\ proc[t].threads = {} /\ proc[t].zombies = {t}
    /\ ~proc[t].code /\ thread[t].stack = 0
    /\ thread[t].running_cpu = None /\ ~thread[t].locked
    /\ ~Runnable(t)

(* What they leave, because exit itself goes on into schedule() on it: the *)
(* kernel stack of a thread, dead or alive.                                *)
KernelStackKept == \A t \in threads : thread[t].kstack > 0

(* Exit and kill release the code, the user stack, the core, the lock and  *)
(* the place in the queue of a process, never the kernel stack they run on *)
(* (nothing frees that later: remove_zombie has no caller).  The open      *)
(* descriptors, which exit does not close either, are not modelled here.   *)
DeadReleased == DeadReaped /\ KernelStackKept

(* No spin on running_cpu: the guard that schedule() forgets is released   *)
(* by the entry code before anyone locks it again.  The kernel hangs only  *)
(* in a fault on the kernel stack under a held page table.                 *)
SpinFree ==
  /\ \A t \in Pids : thread[t].locked => cpu.mode = "user" /\ t = running
  /\ cpu.mode = "stuck" => cpu.pt_held

(* The stack of interrupt sources mirrors the nesting of the kernel        *)
(* entries although schedule() leaves without popping its own.             *)
SourcesTrackMode ==
  /\ cpu.mode \in {"boot", "user"} => percpu.sources = <<>>
  /\ cpu.mode = "syscall" => percpu.sources = <<"Syscall">>
  /\ cpu.mode \in {"schedule", "idle"} =>
       percpu.sources = IF running = None THEN <<>> ELSE <<"Syscall">>

(* The thread that schedule() resumes in this step, if it resumes one.     *)
Resumes(t) == cpu.mode = "schedule" /\ cpu'.mode = "user" /\ percpu'.running = t

(* A thread that left user mode by the syscall instruction resumes with    *)
(* the registers it left with, although those were saved per core and      *)
(* copied to the thread only by schedule().                                *)
SyscallContext ==
  [][\A t \in Pids :
       Resumes(t) /\ left[t].via = "syscall" => cpu'.regs = left[t].regs]_vars

(* An executing thread has its own page table and gs base, and never the   *)
(* fs base of another thread.                                              *)
OwnBases ==
  Executing =>
    /\ cpu.cr3 = running
    /\ cpu.gs = thread[running].gs_base
    /\ cpu.fs \in {0, thread[running].fs_base}

(* Every thread in the queue gets its turn, whatever the others do, unless *)
(* the kernel panics or hangs first.                                       *)
FairTurn ==
  \A t \in Pids :
    t \in Elems(task_queue) ~>
      (cpu.mode = "user" /\ running = t) \/ cpu.mode \in {"panic", "stuck"}

(* What InterruptSource says of its members: only a system call is tagged  *)
(* Syscall, so that a thread preempted by the timer resumes with the       *)
(* registers the entry code saved.                                         *)
SavedContext ==
  [][\A t \in Pids :
       Resumes(t) /\ left[t].via # "never" => cpu'.regs = left[t].regs]_vars

-------------------------------------------------------------------------------
(* The types of the variables.                                             *)
ThreadType ==
  [task_state : {"None", "Init", "Running", "Zombie"}, running_cpu : {None, Core},
   locked : BOOLEAN, state : Contexts, fs_base : 0 .. MaxPid, gs_base : 0 .. MaxPid,
   stack : Nat, kstack : Nat]
ProcessType ==
  [state : {"None", "Init", "Running", "Zombie"}, threads : SUBSET Pids,
   zombies : SUBSET Pids, code : BOOLEAN]
PerCpuType ==
  [running : 0 .. MaxPid, sources : Seq({"Syscall", "Kernel"}), syscall_data : Contexts,
   buffers : Nat]
CpuType ==
  [mode : {"boot", "schedule", "idle", "user", "syscall", "stuck", "panic"},
   regs : Contexts, fs : 0 .. MaxPid, gs : 0 .. MaxPid, cr3 : 0 .. MaxPid,
   call : AllCalls, pt_held : BOOLEAN]

TypeOK ==
  /\ next_pid \in 1 .. (MaxPid + 1)
  /\ processes \subseteq Pids /\ threads \subseteq Pids
  /\ task_queue \in Seq(Pids)
  /\ thread \in [Pids -> ThreadType]
  /\ proc \in [Pids -> ProcessType]
  /\ percpu \in PerCpuType
  /\ cpu \in CpuType
  /\ left \in [Pids -> [via : {"never", "interrupt", "syscall"}, regs : Contexts]]

(* Pids are given out once: a process that was not created yet has neither *)
(* thread nor history, and only created threads ever ran.                  *)
PidsFresh ==
  /\ processes \subseteq threads
  /\ \A t \in threads : t < next_pid
  /\ \A t \in Pids \ threads : left[t].via = "never"
  /\ running # None => running \in threads
  /\ cpu.mode = "boot" => running = None
  /\ Executing => running # None

(* The map holds exactly what can run: a process in it has all that exit   *)
(* takes away, only such processes are queued or execute, and a process    *)
(* that left user mode is not in the queue before schedule() pushes it.    *)
MapIntact ==
  /\ \A t \in processes :
       /\ proc[t].threads = {t} /\ proc[t].zombies = {}
       /\ thread[t].task_state # "Zombie" /\ proc[t].state # "Zombie"
       /\ proc[t].code /\ thread[t].stack > 0
  /\ Elems(task_queue) \subseteq processes
  /\ Executing => running \in processes
  /\ cpu.mode = "schedule" => running \notin Elems(task_queue)
  /\ cpu.mode = "idle" => running \notin processes

(* Where the registers of a thread that left by the syscall instruction    *)
(* are: in the core's buffer while the thread is the running one, in the   *)
(* Thread afterwards.                                                      *)
ContextKept ==
  \A t \in Pids : left[t].via = "syscall" =>
    left[t].regs = IF t = running THEN percpu.syscall_data ELSE thread[t].state

(* The inductive invariant.                                                *)
IInv ==
  /\ TypeOK
  /\ PidsFresh
  /\ MapIntact
  /\ ContextKept
  /\ QueuedOnce
  /\ DeadReaped
  /\ SpinFree
  /\ SourcesTrackMode
  /\ OwnBases
===============================================================================
