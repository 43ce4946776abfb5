---------------------------- MODULE Scheduler_proof ----------------------------
(***************************************************************************)
(* Proofs about Scheduler, for every number of processes, every size of    *)
(* the stacks and every set of system calls.                               *)
(***************************************************************************)
EXTENDS Scheduler, TLAPS

-------------------------------------------------------------------------------
(* The initial state.                                                      *)

LEMMA StartType == ASSUME NEW t \in 0 .. MaxPid PROVE Start(t) \in Contexts
BY SchedulerAssumption DEF Start, Contexts

LEMMA NoRegisters == Start(0) \in Contexts
BY SchedulerAssumption, StartType

LEMMA InitIInv == Init => IInv
<1> SUFFICES ASSUME Init PROVE IInv
  BY Zenon
<1>1. 0 \in 0 .. MaxPid /\ Start(0) \in Contexts
  BY SchedulerAssumption, NoRegisters
<1>2. TypeOK
  <2>1. NoThread \in ThreadType
    BY <1>1, Zenon DEF NoThread, ThreadType, None, Core
  <2>2. NoProcess \in ProcessType
    BY Zenon DEF NoProcess, ProcessType
  <2>3. percpu \in PerCpuType /\ cpu \in CpuType
    BY <1>1 DEF Init, PerCpuType, CpuType, None, AllCalls
  <2>4. NeverLeft \in [via : {"never", "interrupt", "syscall"}, regs : Contexts]
    BY <1>1, Zenon DEF NeverLeft
  <2> QED BY <2>1, <2>2, <2>3, <2>4, SchedulerAssumption DEF Init, TypeOK
<1>3. PidsFresh /\ MapIntact /\ ContextKept
  BY DEF Init, PidsFresh, MapIntact, ContextKept, Executing, Elems, running, NeverLeft
<1>4. QueuedOnce /\ DeadReaped /\ SpinFree /\ SourcesTrackMode /\ OwnBases
  BY DEF Init, QueuedOnce, DeadReaped, SpinFree, SourcesTrackMode, OwnBases, Executing,
         Elems, NoThread
<1> QED BY <1>2, <1>3, <1>4, Zenon DEF IInv

-------------------------------------------------------------------------------
(* The boot code.                                                          *)

(* A queue is a sequence of the elements it holds.                         *)
LEMMA AppendElems ==
  ASSUME NEW S, NEW q \in Seq(S), NEW t \in S
  PROVE  /\ Append(q, t) \in Seq(S) /\ Append(q, t) # <<>>
         /\ Elems(Append(q, t)) = Elems(q) \cup {t}
         /\ (\A i, j \in 1 .. Len(q) : q[i] = q[j] => i = j) /\ t \notin Elems(q) =>
              \A i, j \in 1 .. Len(Append(q, t)) : Append(q, t)[i] = Append(q, t)[j] => i = j
<1>1. /\ Append(q, t) \in Seq(S) /\ Len(q) \in Nat /\ Len(Append(q, t)) = Len(q) + 1
      /\ \A i \in 1 .. Len(q) : Append(q, t)[i] = q[i]
      /\ Append(q, t)[Len(q) + 1] = t
  OBVIOUS
<1> DEFINE p == Append(q, t)
<1> HIDE DEF p
<1>2. Elems(p) = Elems(q) \cup {t}
  BY <1>1 DEF Elems, p
<1>3. p # <<>>
  BY <1>1 DEF p
<1>4. ASSUME \A i, j \in 1 .. Len(q) : q[i] = q[j] => i = j, t \notin Elems(q),
             NEW i \in 1 .. Len(p), NEW j \in 1 .. Len(p), p[i] = p[j]
      PROVE  i = j
  BY <1>1, <1>4 DEF Elems, p
<1> QED BY <1>1, <1>2, <1>3, <1>4, Zenon DEF p

LEMMA TailElems ==
  ASSUME NEW S, NEW q \in Seq(S), q # <<>>,
         \A i, j \in 1 .. Len(q) : q[i] = q[j] => i = j
  PROVE  /\ Tail(q) \in Seq(S) /\ Head(q) \in Elems(q)
         /\ Elems(Tail(q)) = Elems(q) \ {Head(q)}
         /\ \A i, j \in 1 .. Len(Tail(q)) : Tail(q)[i] = Tail(q)[j] => i = j
<1>1. /\ Tail(q) \in Seq(S) /\ Len(q) \in Nat /\ Len(q) >= 1 /\ Head(q) = q[1]
      /\ Len(Tail(q)) = Len(q) - 1
      /\ \A i \in 1 .. (Len(q) - 1) : Tail(q)[i] = q[i + 1]
  OBVIOUS
<1>2. Head(q) \in Elems(q) /\ Elems(Tail(q)) \subseteq Elems(q) \ {Head(q)}
  BY <1>1 DEF Elems
<1>3. ASSUME NEW i \in 1 .. Len(q), q[i] # Head(q)
      PROVE  q[i] \in Elems(Tail(q))
  <2>1. i - 1 \in 1 .. (Len(q) - 1) /\ Tail(q)[i - 1] = q[i]
    BY <1>1, <1>3
  <2> QED BY <1>1, <2>1, Zenon DEF Elems
<1>4. Elems(q) \ {Head(q)} \subseteq Elems(Tail(q))
  BY <1>3 DEF Elems
<1>5. \A i, j \in 1 .. Len(Tail(q)) : Tail(q)[i] = Tail(q)[j] => i = j
  BY <1>1
<1> QED BY <1>1, <1>2, <1>4, <1>5, Zenon

LEMMA CreateProcessStep == IInv /\ CreateProcess => IInv'
<1> SUFFICES ASSUME IInv, CreateProcess PROVE IInv'
  BY Zenon
<1> DEFINE p == next_pid
<1>1. /\ p \in Pids /\ p \in 0 .. MaxPid /\ p + 1 \in 1 .. (MaxPid + 1) /\ p \in Nat /\ p # 0
      /\ p \notin threads /\ p \notin processes /\ p \notin Elems(task_queue)
      /\ running = None /\ p # running /\ cpu.mode = "boot" /\ ~Executing /\ left[p].via = "never"
  BY SchedulerAssumption, SMTT(30) DEF CreateProcess, IInv, TypeOK, PidsFresh, MapIntact, Executing, Pids, None
<1>2. /\ thread' \in [Pids -> ThreadType]
      /\ \A t \in Pids \ {p} : thread'[t] = thread[t]
      /\ thread'[p].task_state = "Init" /\ ~thread'[p].locked /\ thread'[p].stack = 1
  <2>1. NoThread \in ThreadType /\ Start(p) \in Contexts
    BY <1>1, StartType, SchedulerAssumption DEF NoThread, ThreadType, None, Core
  <2> DEFINE new == [NoThread EXCEPT !.task_state = "Init", !.state = Start(p),
                                     !.stack = 1, !.kstack = 1]
  <2>2. new \in ThreadType /\ new.task_state = "Init" /\ ~new.locked /\ new.stack = 1
    BY <2>1, Zenon DEF ThreadType, NoThread
  <2>3. thread' = [thread EXCEPT ![p] = new] /\ thread \in [Pids -> ThreadType]
    BY Zenon DEF CreateProcess, IInv, TypeOK
  <2> HIDE DEF new, p
  <2> QED BY <1>1, <2>2, <2>3, Zenon
<1>3. /\ proc' \in [Pids -> ProcessType]
      /\ \A t \in Pids \ {p} : proc'[t] = proc[t]
      /\ proc'[p] = [state |-> "Init", threads |-> {p}, zombies |-> {}, code |-> TRUE]
  BY <1>1 DEF CreateProcess, IInv, TypeOK, ProcessType
<1>4. /\ task_queue' \in Seq(Pids) /\ Elems(task_queue') = Elems(task_queue) \cup {p}
      /\ \A i, j \in 1 .. Len(task_queue') : task_queue'[i] = task_queue'[j] => i = j
  <2>1. /\ task_queue \in Seq(Pids) /\ task_queue' = Append(task_queue, p)
        /\ \A i, j \in 1 .. Len(task_queue) : task_queue[i] = task_queue[j] => i = j
    BY Zenon DEF CreateProcess, IInv, TypeOK, QueuedOnce
  <2> HIDE DEF p
  <2> QED BY <1>1, <2>1, AppendElems, SMTT(30)
<1>5. /\ processes' = processes \cup {p} /\ threads' = threads \cup {p} /\ next_pid' = p + 1
      /\ percpu' = percpu /\ cpu' = cpu /\ left' = left
  BY Zenon DEF CreateProcess
<1> HIDE DEF p
<1>6. TypeOK'
  BY <1>1, <1>2, <1>3, <1>4, <1>5, ZenonT(30) DEF IInv, TypeOK
<1>7. PidsFresh' /\ MapIntact'
  BY <1>1, <1>2, <1>3, <1>4, <1>5 DEF IInv, TypeOK, PidsFresh, MapIntact, Executing, running, p, Pids
<1>8. ContextKept'
  BY <1>1, <1>2, <1>5, ZenonT(30) DEF IInv, ContextKept, running
<1>9. QueuedOnce' /\ DeadReaped'
  BY <1>1, <1>2, <1>3, <1>4, <1>5, SMTT(30) DEF IInv, TypeOK, QueuedOnce, DeadReaped, Executing, Runnable, running
<1>10. (SpinFree /\ SourcesTrackMode /\ OwnBases)'
  BY <1>1, <1>2, <1>5, Zenon DEF IInv, SpinFree, SourcesTrackMode, OwnBases, Executing, running
<1> QED BY <1>6, <1>7, <1>8, <1>9, <1>10, Zenon DEF IInv

LEMMA CreateProcessFailsStep == IInv /\ CreateProcessFails => IInv'
<1> SUFFICES ASSUME IInv, CreateProcessFails PROVE IInv'
  BY Zenon
<1>1. next_pid' = next_pid + 1 /\ next_pid' \in 1 .. (MaxPid + 1)
  BY SchedulerAssumption DEF CreateProcessFails, Pids
<1>2. TypeOK' /\ PidsFresh'
  BY <1>1, SMTT(30) DEF CreateProcessFails, IInv, TypeOK, PidsFresh, Executing, running, Pids
<1>3. (MapIntact /\ ContextKept /\ QueuedOnce /\ DeadReaped /\ SpinFree /\ SourcesTrackMode /\ OwnBases)'
  BY DEF CreateProcessFails, IInv, MapIntact, ContextKept, QueuedOnce, DeadReaped, SpinFree,
         SourcesTrackMode, OwnBases, Executing, Runnable, running
<1> QED BY <1>2, <1>3, Zenon DEF IInv

LEMMA BootScheduleStep == IInv /\ BootSchedule => IInv'
<1> SUFFICES ASSUME IInv, BootSchedule PROVE IInv'
  BY Zenon
<1>1. /\ cpu' \in CpuType /\ cpu'.mode = "schedule" /\ cpu'.pt_held = cpu.pt_held
      /\ cpu.mode = "boot" /\ running = None
  BY Zenon DEF BootSchedule, IInv, TypeOK, CpuType, PidsFresh
<1>2. None \notin Elems(task_queue)
  BY DEF IInv, TypeOK, MapIntact, Pids, None
<1>3. (TypeOK /\ PidsFresh /\ MapIntact /\ ContextKept)'
  BY <1>1, <1>2 DEF BootSchedule, IInv, TypeOK, PidsFresh, MapIntact, ContextKept, Executing, running
<1>4. (QueuedOnce /\ DeadReaped /\ SpinFree /\ SourcesTrackMode /\ OwnBases)'
  BY <1>1 DEF BootSchedule, IInv, QueuedOnce, DeadReaped, SpinFree, SourcesTrackMode, OwnBases,
              Executing, Runnable, running
<1> QED BY <1>3, <1>4, Zenon DEF IInv

-------------------------------------------------------------------------------
(* User code, and what happens to it.                                      *)

(* In user mode the running thread is a created one, of a live process.    *)
LEMMA UserFacts ==
  ASSUME IInv, cpu.mode \in {"user", "syscall"}
  PROVE  /\ running \in Pids /\ running \in 0 .. MaxPid /\ running # None
         /\ running \in processes /\ running \in threads /\ running \notin Elems(task_queue)
         /\ thread[running] \in ThreadType /\ proc[running] \in ProcessType
         /\ percpu \in PerCpuType /\ cpu \in CpuType
<1>1. Executing
  BY Zenon DEF Executing
<1>2. running \in processes /\ running \in Pids /\ running \in threads
  BY <1>1, Zenon DEF IInv, TypeOK, MapIntact, PidsFresh
<1>3. running \in 0 .. MaxPid /\ running # None
  BY <1>2 DEF Pids, None
<1>4. running \notin Elems(task_queue)
  BY <1>1, Zenon DEF IInv, QueuedOnce
<1> QED BY <1>2, <1>3, <1>4, Zenon DEF IInv, TypeOK

(* What common_enter_interrupt does to the thread that was interrupted.    *)
LEMMA EnteredFacts ==
  ASSUME IInv, cpu.mode = "user"
  PROVE  /\ Entered \in [Pids -> ThreadType]
         /\ \A t \in Pids \ {running} : Entered[t] = thread[t]
         /\ Entered[running].task_state = thread[running].task_state
         /\ Entered[running].stack = thread[running].stack
         /\ Entered[running].fs_base = thread[running].fs_base
         /\ Entered[running].gs_base = thread[running].gs_base
         /\ Entered[running].running_cpu = None
         /\ ~Entered[running].locked
<1>1. /\ running \in Pids /\ thread \in [Pids -> ThreadType] /\ thread[running] \in ThreadType
      /\ cpu.regs \in Contexts
  BY UserFacts, Zenon DEF IInv, TypeOK, CpuType
<1> DEFINE e == [thread[running] EXCEPT !.state = cpu.regs, !.running_cpu = None, !.locked = FALSE]
<1>2. /\ e \in ThreadType /\ e.task_state = thread[running].task_state
      /\ e.stack = thread[running].stack /\ e.fs_base = thread[running].fs_base
      /\ e.gs_base = thread[running].gs_base /\ e.running_cpu = None /\ ~e.locked
  BY <1>1, Zenon DEF ThreadType
<1>3. Entered = [thread EXCEPT ![running] = e]
  BY <1>1, Zenon DEF Entered
<1> HIDE DEF e
<1> QED BY <1>1, <1>2, <1>3, Zenon

(* A step that only concerns the running thread and takes nothing from it  *)
(* that exit takes away.                                                   *)
Stays ==
  /\ cpu.mode \in {"user", "syscall"}
  /\ UNCHANGED <<next_pid, processes, threads, task_queue, proc>>
  /\ thread' \in [Pids -> ThreadType] /\ percpu' \in PerCpuType /\ cpu' \in CpuType
  /\ left' \in [Pids -> [via : {"never", "interrupt", "syscall"}, regs : Contexts]]
  /\ percpu'.running = running
  /\ cpu'.mode \in {"user", "syscall", "schedule", "stuck", "panic"}
  /\ \A t \in Pids \ {running} : thread'[t] = thread[t] /\ left'[t] = left[t]
  /\ thread'[running].task_state = thread[running].task_state
  /\ thread'[running].stack >= thread[running].stack

LEMMA StaysStep ==
  ASSUME IInv, Stays
  PROVE  (TypeOK /\ PidsFresh /\ MapIntact /\ QueuedOnce /\ DeadReaped)'
<1>1. /\ running \in Pids /\ running \in processes /\ running \in threads /\ running # None
      /\ running \notin Elems(task_queue) /\ running' = running
      /\ Executing /\ processes \subseteq Pids /\ threads \subseteq Pids
      /\ processes' = processes /\ threads' = threads /\ task_queue' = task_queue /\ proc' = proc
  BY UserFacts, Zenon DEF Stays, Executing, running, IInv, TypeOK
<1>2. TypeOK'
  BY Zenon DEF IInv, TypeOK, Stays
<1>3. PidsFresh'
  BY <1>1, Zenon DEF IInv, PidsFresh, Stays, Executing
<1>4. MapIntact'
  <2>1. ASSUME NEW t \in processes
        PROVE  thread'[t].task_state # "Zombie" /\ thread'[t].stack > 0
    <3>1. thread[t].task_state # "Zombie" /\ thread[t].stack > 0 /\ thread[t].stack \in Nat
      BY <1>1, Zenon DEF IInv, MapIntact, TypeOK, ThreadType
    <3>2. thread'[t].stack \in Nat
      BY <1>1, Zenon DEF Stays, ThreadType
    <3> QED BY <1>1, <3>1, <3>2 DEF Stays
  <2> QED BY <1>1, <2>1 DEF IInv, MapIntact, Stays, Executing
<1>5. QueuedOnce'
  BY <1>1, SMTT(30) DEF IInv, QueuedOnce, Stays, Executing
<1>6. DeadReaped'
  BY <1>1 DEF IInv, DeadReaped, Stays, Executing, Runnable
<1> QED BY <1>2, <1>3, <1>4, <1>5, <1>6, Zenon

(* The stack of interrupt sources, while it has at most one entry.         *)
LEMMA SourcesFacts ==
  /\ Append(<<>>, "Syscall") = <<"Syscall">>
  /\ <<>> \in Seq({"Syscall", "Kernel"})
  /\ <<"Syscall">> \in Seq({"Syscall", "Kernel"})
  /\ Append(<<"Syscall">>, "Kernel") \in Seq({"Syscall", "Kernel"})
  /\ SubSeq(<<"Syscall">>, 1, Len(<<"Syscall">>) - 1) = <<>>
OBVIOUS

LEMMA UserStepStep == IInv /\ UserStep => IInv'
<1> SUFFICES ASSUME IInv, UserStep PROVE IInv'
  BY Zenon
<1>1. /\ cpu' \in CpuType /\ cpu'.mode = cpu.mode /\ cpu'.cr3 = cpu.cr3 /\ cpu'.gs = cpu.gs
      /\ cpu'.fs = cpu.fs /\ cpu'.pt_held = cpu.pt_held
  <2>1. cpu \in CpuType
    BY Zenon DEF IInv, TypeOK
  <2>2. cpu.regs \in Contexts /\ (cpu.regs.step + 1) % Steps \in 0 .. (Steps - 1)
    BY <2>1, SchedulerAssumption DEF CpuType, Contexts
  <2>3. [cpu.regs EXCEPT !.step = (@ + 1) % Steps, !.rbp = "own"] \in Contexts
    BY <2>2, Zenon DEF Contexts
  <2> QED BY <2>1, <2>3, Zenon DEF UserStep, CpuType
<1>2. (TypeOK /\ PidsFresh /\ MapIntact /\ QueuedOnce /\ DeadReaped)'
  <2>1. thread[running].stack \in Nat
    BY UserFacts, Zenon DEF UserStep, ThreadType
  <2> QED BY <1>1, <2>1, UserFacts, StaysStep DEF UserStep, Stays, IInv, TypeOK, running
<1>3. (ContextKept /\ SpinFree /\ SourcesTrackMode /\ OwnBases)'
  BY <1>1, Zenon DEF UserStep, IInv, ContextKept, SpinFree, SourcesTrackMode, OwnBases, Executing, running
<1> QED BY <1>2, <1>3, Zenon DEF IInv

LEMMA TimerInterruptStep == IInv /\ TimerInterrupt => IInv'
<1> SUFFICES ASSUME IInv, TimerInterrupt PROVE IInv'
  BY Zenon
<1>1. cpu.mode = "user" /\ thread' = Entered /\ percpu.sources = <<>>
  BY Zenon DEF TimerInterrupt, IInv, SourcesTrackMode
<1>2. /\ cpu' \in CpuType /\ cpu'.mode = "schedule" /\ cpu'.pt_held = cpu.pt_held
  BY NoRegisters, Zenon DEF TimerInterrupt, IInv, TypeOK, CpuType
<1>3. /\ percpu' \in PerCpuType /\ percpu'.running = running /\ percpu'.sources = <<"Syscall">>
      /\ percpu'.syscall_data = percpu.syscall_data
  BY <1>1, SourcesFacts, Zenon DEF TimerInterrupt, IInv, TypeOK, PerCpuType, running
<1>4. /\ left' \in [Pids -> [via : {"never", "interrupt", "syscall"}, regs : Contexts]]
      /\ \A t \in Pids \ {running} : left'[t] = left[t]
      /\ left'[running].via = "interrupt"
  BY <1>1, UserFacts, Zenon DEF TimerInterrupt, IInv, TypeOK, CpuType
<1>5. (TypeOK /\ PidsFresh /\ MapIntact /\ QueuedOnce /\ DeadReaped)'
  <2>1. thread[running].stack \in Nat
    BY <1>1, UserFacts, Zenon DEF ThreadType
  <2> QED BY <1>1, <1>2, <1>3, <1>4, <2>1, EnteredFacts, StaysStep DEF TimerInterrupt, Stays
<1>6. ContextKept'
  BY <1>1, <1>3, <1>4, EnteredFacts DEF IInv, ContextKept, running
<1>7. SpinFree'
  BY <1>1, <1>2, EnteredFacts, Zenon DEF IInv, SpinFree, running
<1>8. SourcesTrackMode' /\ OwnBases'
  BY <1>1, <1>2, <1>3, UserFacts, Zenon DEF SourcesTrackMode, OwnBases, Executing, running
<1> QED BY <1>5, <1>6, <1>7, <1>8, Zenon DEF IInv

(* common_exit_interrupt resumes the thread that was interrupted.          *)
LEMMA ReturnToUserStep ==
  ASSUME IInv, cpu.mode = "user",
         NEW th \in [Pids -> ThreadType], ReturnToUser(th),
         \A t \in Pids \ {running} : th[t] = thread[t],
         th[running].task_state = thread[running].task_state,
         th[running].stack >= thread[running].stack,
         th[running].gs_base = thread[running].gs_base,
         percpu' \in PerCpuType, percpu'.running = running,
         percpu'.sources = percpu.sources, percpu'.syscall_data = percpu.syscall_data,
         UNCHANGED <<next_pid, processes, threads, task_queue, proc, left>>
  PROVE  IInv'
<1>1. running \in Pids /\ th[running] \in ThreadType /\ cpu \in CpuType
  BY UserFacts, Zenon
<1>2. /\ cpu' \in CpuType /\ cpu'.mode = "user" /\ cpu'.fs = 0
      /\ cpu'.gs = cpu.gs /\ cpu'.cr3 = cpu.cr3
  BY <1>1, SchedulerAssumption DEF ReturnToUser, CpuType
<1>3. /\ thread' \in [Pids -> ThreadType]
      /\ \A t \in Pids \ {running} : thread'[t] = thread[t]
      /\ thread'[running].task_state = thread[running].task_state
      /\ thread'[running].stack >= thread[running].stack
      /\ thread'[running].gs_base = thread[running].gs_base
  <2> DEFINE e == [th[running] EXCEPT !.running_cpu = Core, !.locked = TRUE]
  <2>1. /\ e \in ThreadType /\ e.task_state = th[running].task_state
        /\ e.stack = th[running].stack /\ e.gs_base = th[running].gs_base
    BY <1>1, Zenon DEF ThreadType
  <2>2. thread' = [th EXCEPT ![running] = e]
    BY <1>1, ZenonT(30) DEF ReturnToUser
  <2> HIDE DEF e
  <2> QED BY <1>1, <2>1, <2>2, Zenon
<1>4. (TypeOK /\ PidsFresh /\ MapIntact /\ QueuedOnce /\ DeadReaped)'
  BY <1>2, <1>3, StaysStep, Zenon DEF Stays, IInv, TypeOK
<1>5. ContextKept'
  BY <1>3 DEF IInv, ContextKept, running
<1>6. SpinFree'
  BY <1>2, <1>3, Zenon DEF IInv, SpinFree, running
<1>7. (SourcesTrackMode /\ OwnBases)'
  BY <1>2, <1>3, ZenonT(30) DEF IInv, SourcesTrackMode, OwnBases, Executing, running
<1> QED BY <1>4, <1>5, <1>6, <1>7, Zenon DEF IInv

LEMMA KeyboardInterruptStep == IInv /\ KeyboardInterrupt => IInv'
<1> SUFFICES ASSUME IInv, KeyboardInterrupt PROVE IInv'
  BY Zenon
<1>1. cpu.mode = "user" /\ thread[running].stack \in Nat /\ percpu \in PerCpuType
  BY UserFacts, Zenon DEF KeyboardInterrupt, ThreadType
<1> QED BY <1>1, EnteredFacts, ReturnToUserStep DEF KeyboardInterrupt, running

(* ensure_enough_allocated_buffers never takes a buffer away.              *)
LEMMA BuffersType ==
  ASSUME NEW n \in Nat PROVE Larger(n, Buffers) \in Nat
BY SchedulerAssumption, Zenon DEF Larger

LEMMA Int80Step == IInv /\ Int80 => IInv'
<1> SUFFICES ASSUME IInv, Int80 PROVE IInv'
  BY Zenon
<1>1. cpu.mode = "user" /\ thread[running].stack \in Nat
  BY UserFacts, Zenon DEF Int80, ThreadType
<1>2. /\ percpu' \in PerCpuType /\ percpu'.running = running
      /\ percpu'.sources = percpu.sources /\ percpu'.syscall_data = percpu.syscall_data
  BY BuffersType, Zenon DEF Int80, IInv, TypeOK, PerCpuType, running
<1> QED BY <1>1, <1>2, EnteredFacts, ReturnToUserStep DEF Int80

(* An exception of user code that the kernel does not handle.              *)
LEMMA PanicStep ==
  ASSUME IInv, cpu.mode = "user", thread' = Entered,
         percpu' = [percpu EXCEPT !.sources = Append(@, "Syscall")],
         cpu' = [cpu EXCEPT !.mode = "panic"],
         UNCHANGED <<next_pid, processes, threads, task_queue, proc, left>>
  PROVE  IInv'
<1>1. thread[running].stack \in Nat /\ percpu.sources = <<>>
  BY UserFacts, Zenon DEF ThreadType, IInv, SourcesTrackMode
<1>2. /\ cpu' \in CpuType /\ cpu'.mode = "panic"
      /\ percpu' \in PerCpuType /\ percpu'.running = running
      /\ percpu'.syscall_data = percpu.syscall_data
  BY <1>1, SourcesFacts, Zenon DEF IInv, TypeOK, CpuType, PerCpuType, running
<1>3. (TypeOK /\ PidsFresh /\ MapIntact /\ QueuedOnce /\ DeadReaped)'
  BY <1>1, <1>2, EnteredFacts, StaysStep, SMTT(30) DEF Stays, IInv, TypeOK
<1>4. (ContextKept /\ SpinFree)'
  BY <1>1, <1>2, EnteredFacts DEF IInv, ContextKept, SpinFree, running
<1>5. (SourcesTrackMode /\ OwnBases)'
  BY <1>2, Zenon DEF SourcesTrackMode, OwnBases, Executing
<1> QED BY <1>3, <1>4, <1>5, Zenon DEF IInv

LEMMA UserStackFaultStep ==
  ASSUME NEW n \in Nat PROVE IInv /\ UserStackFault(n) => IInv'
<1> SUFFICES ASSUME IInv, UserStackFault(n) PROVE IInv'
  BY Zenon
<1>1. /\ cpu.mode = "user" /\ thread[running].stack \in Nat /\ running \in Pids
      /\ n > thread[running].stack /\ percpu.sources = <<>>
  BY UserFacts, ZenonT(30) DEF UserStackFault, ThreadType, IInv, SourcesTrackMode
<1>2. CASE StackFits(n)
  <2> DEFINE th == [Entered EXCEPT ![running].stack = n]
  <2>1. /\ th \in [Pids -> ThreadType]
        /\ \A t \in Pids \ {running} : th[t] = thread[t]
        /\ th[running].task_state = thread[running].task_state
        /\ th[running].gs_base = thread[running].gs_base
        /\ th[running].stack = n
    <3>1. Entered[running] \in ThreadType
      BY <1>1, EnteredFacts, Zenon
    <3> DEFINE e == [Entered[running] EXCEPT !.stack = n]
    <3>2. /\ e \in ThreadType /\ e.task_state = Entered[running].task_state /\ e.stack = n
          /\ e.gs_base = Entered[running].gs_base
      BY <3>1, Zenon DEF ThreadType
    <3>3. th = [Entered EXCEPT ![running] = e]
      BY <1>1, EnteredFacts, Zenon
    <3> HIDE DEF e, th
    <3> QED BY <1>1, <3>2, <3>3, EnteredFacts, Zenon
  <2>2. ReturnToUser(th) /\ UNCHANGED <<next_pid, processes, threads, task_queue, proc, percpu, left>>
    BY <1>2, Zenon DEF UserStackFault
  <2>3. percpu \in PerCpuType
    BY Zenon DEF IInv, TypeOK
  <2> HIDE DEF th
  <2> QED BY <1>1, <2>1, <2>2, <2>3, ReturnToUserStep DEF running
<1>3. CASE ~StackFits(n)
  <2>1. /\ thread' = Entered /\ percpu' = [percpu EXCEPT !.sources = Append(@, "Syscall")]
        /\ cpu' = [cpu EXCEPT !.mode = "panic"]
        /\ UNCHANGED <<next_pid, processes, threads, task_queue, proc, left>>
    BY <1>3, Zenon DEF UserStackFault
  <2> QED BY <1>1, <2>1, PanicStep, Zenon
<1> QED BY <1>2, <1>3, Zenon

LEMMA UnhandledExceptionStep == IInv /\ UnhandledException => IInv'
BY PanicStep, Zenon DEF UnhandledException

-------------------------------------------------------------------------------
(* Exit and kill.                                                          *)

(* handle_exit_internal and kill_process, on the thread that left user     *)
(* mode: its lock is free, so it becomes a zombie and leaves the map.      *)
LEMMA ExitStep ==
  ASSUME IInv, cpu.mode \in {"user", "syscall"},
         NEW th \in [Pids -> ThreadType],
         \A t \in Pids \ {running} : th[t] = thread[t],
         ~th[running].locked,
         Exit(th, running, TRUE),
         percpu' \in PerCpuType, percpu'.running = running,
         percpu'.sources = <<"Syscall">>, percpu'.syscall_data = percpu.syscall_data,
         UNCHANGED <<next_pid, threads, task_queue, left>>
  PROVE  IInv'
<1> DEFINE r == running
<1>1. /\ r \in Pids /\ r \in processes /\ r \in threads /\ r # None
      /\ r \notin Elems(task_queue) /\ running' = r
      /\ th[r] \in ThreadType /\ proc[r] \in ProcessType /\ cpu \in CpuType
      /\ proc[r].threads = {r} /\ proc[r].zombies = {} /\ Executing
      /\ processes \subseteq Pids /\ threads \subseteq Pids
  BY UserFacts, Zenon DEF Executing, running, IInv, TypeOK, MapIntact
<1>2. /\ thread' \in [Pids -> ThreadType]
      /\ \A t \in Pids \ {r} : thread'[t] = thread[t]
      /\ thread'[r].task_state = "Zombie" /\ thread'[r].stack = 0
      /\ thread'[r].running_cpu = None /\ ~thread'[r].locked
  <2> DEFINE e == [th[r] EXCEPT !.running_cpu = None, !.stack = 0, !.task_state = "Zombie"]
  <2>1. /\ e \in ThreadType /\ e.task_state = "Zombie" /\ e.stack = 0
        /\ e.running_cpu = None /\ ~e.locked
    BY <1>1, Zenon DEF ThreadType
  <2>2. thread' = [th EXCEPT ![r] = e]
    BY <1>1, Zenon DEF Exit, ThreadExit
  <2> HIDE DEF e, r
  <2>3. \A t \in Pids \ {r} : th[t] = thread[t]
    BY Zenon DEF r
  <2> QED BY <1>1, <2>1, <2>2, <2>3, Zenon
<1>3. /\ proc' \in [Pids -> ProcessType]
      /\ \A t \in Pids \ {r} : proc'[t] = proc[t]
      /\ proc'[r] = [state |-> "Zombie", threads |-> {}, zombies |-> {r}, code |-> FALSE]
  <2> DEFINE z == [state |-> "Zombie", threads |-> proc[r].threads \ {r},
                   zombies |-> proc[r].zombies \cup {r}, code |-> FALSE]
  <2>1. proc' = [proc EXCEPT ![r] = z] /\ proc \in [Pids -> ProcessType]
    BY <1>1, Zenon DEF Exit, ProcessExit, IInv, TypeOK
  <2>2. z \in ProcessType /\ z = [state |-> "Zombie", threads |-> {}, zombies |-> {r}, code |-> FALSE]
    BY <1>1, Zenon DEF ProcessType
  <2> HIDE DEF z, r
  <2> QED BY <1>1, <2>1, <2>2, Zenon
<1>4. /\ cpu' \in CpuType /\ cpu'.mode = "schedule"
      /\ processes' = processes \ {r}
  BY <1>1, NoRegisters, Zenon DEF Exit, CpuType, load, AllCalls
<1>5. /\ percpu' \in PerCpuType /\ percpu'.sources = <<"Syscall">>
      /\ percpu'.syscall_data = percpu.syscall_data
      /\ next_pid' = next_pid /\ threads' = threads /\ task_queue' = task_queue /\ left' = left
  BY Zenon
<1>6. \A t \in Pids : left[t].via = "syscall" =>
        left[t].regs = IF t = r THEN percpu.syscall_data ELSE thread[t].state
  BY Zenon DEF IInv, ContextKept
<1> HIDE DEF r
<1>7. TypeOK'
  BY <1>2, <1>3, <1>4, <1>5, ZenonT(30) DEF IInv, TypeOK
<1>8. PidsFresh' /\ MapIntact'
  BY <1>1, <1>2, <1>3, <1>4, <1>5, SMTT(30) DEF IInv, TypeOK, PidsFresh, MapIntact, Executing
<1>9. ContextKept'
  BY <1>1, <1>2, <1>5, <1>6, SMTT(30) DEF ContextKept
<1>10. QueuedOnce'
  BY <1>1, <1>2, <1>4, <1>5, SMTT(30) DEF IInv, QueuedOnce, Executing, r
<1>11. DeadReaped'
  BY <1>1, <1>2, <1>3, <1>4, <1>5, SMTT(30) DEF IInv, DeadReaped, Executing, Runnable
<1>12. SpinFree'
  BY <1>1, <1>2, <1>4, SMTT(30) DEF IInv, SpinFree, r
<1>13. SourcesTrackMode' /\ OwnBases'
  BY <1>1, <1>4, <1>5, Zenon DEF SourcesTrackMode, OwnBases, Executing
<1> QED BY <1>7, <1>8, <1>9, <1>10, <1>11, <1>12, <1>13, Zenon DEF IInv

LEMMA SegmentationFaultStep == IInv /\ SegmentationFault => IInv'
<1> SUFFICES ASSUME IInv, SegmentationFault PROVE IInv'
  BY Zenon
<1>1. cpu.mode = "user" /\ percpu.sources = <<>>
  BY Zenon DEF SegmentationFault, IInv, SourcesTrackMode
<1>2. running \in processes
  BY <1>1, UserFacts, Zenon
<1>3. Exit(Entered, running, TRUE)
  BY <1>2, Zenon DEF SegmentationFault
<1>4. /\ percpu' \in PerCpuType /\ percpu'.running = running
      /\ percpu'.sources = <<"Syscall">> /\ percpu'.syscall_data = percpu.syscall_data
  BY <1>1, SourcesFacts, Zenon DEF SegmentationFault, IInv, TypeOK, PerCpuType, running
<1> QED BY <1>1, <1>3, <1>4, EnteredFacts, ExitStep, Zenon DEF SegmentationFault

LEMMA SyscallExitStep == IInv /\ SyscallExit => IInv'
<1> SUFFICES ASSUME IInv, SyscallExit PROVE IInv'
  BY Zenon
<1>1. cpu.mode = "syscall" /\ percpu.sources = <<"Syscall">> /\ ~thread[running].locked
  BY UserFacts, Zenon DEF SyscallExit, IInv, SourcesTrackMode, SpinFree
<1>2. running \in threads /\ percpu \in PerCpuType /\ thread \in [Pids -> ThreadType]
  BY <1>1, UserFacts, Zenon DEF IInv, TypeOK
<1>3. Exit(thread, running, TRUE)
  BY <1>2, Zenon DEF SyscallExit
<1> QED BY <1>1, <1>2, <1>3, ExitStep, Zenon DEF SyscallExit, running

-------------------------------------------------------------------------------
(* System calls.                                                           *)

LEMMA SyscallEnterStep ==
  ASSUME NEW c \in Calls PROVE IInv /\ SyscallEnter(c) => IInv'
<1> SUFFICES ASSUME IInv, SyscallEnter(c) PROVE IInv'
  BY Zenon
<1>1. /\ cpu.mode = "user" /\ running \in Pids /\ thread[running] \in ThreadType
      /\ thread[running].stack \in Nat /\ percpu.sources = <<>>
  BY UserFacts, Zenon DEF SyscallEnter, ThreadType, IInv, SourcesTrackMode
<1>2. /\ thread' \in [Pids -> ThreadType]
      /\ \A t \in Pids \ {running} : thread'[t] = thread[t]
      /\ thread'[running].task_state = thread[running].task_state
      /\ thread'[running].stack = thread[running].stack
      /\ thread'[running].fs_base = thread[running].fs_base
      /\ thread'[running].gs_base = thread[running].gs_base
      /\ ~thread'[running].locked
  <2> DEFINE e == [thread[running] EXCEPT !.running_cpu = None, !.locked = FALSE]
  <2>1. /\ e \in ThreadType /\ e.task_state = thread[running].task_state
        /\ e.stack = thread[running].stack /\ e.fs_base = thread[running].fs_base
        /\ e.gs_base = thread[running].gs_base /\ ~e.locked
    BY <1>1, Zenon DEF ThreadType
  <2>2. thread' = [thread EXCEPT ![running] = e] /\ thread \in [Pids -> ThreadType]
    BY <1>1, Zenon DEF SyscallEnter, IInv, TypeOK
  <2> HIDE DEF e
  <2> QED BY <1>1, <2>1, <2>2, Zenon
<1>3. /\ cpu' \in CpuType /\ cpu'.mode = "syscall" /\ cpu'.cr3 = cpu.cr3
      /\ cpu'.gs = cpu.gs /\ cpu'.fs = cpu.fs
  BY NoRegisters, SchedulerAssumption, Zenon DEF SyscallEnter, IInv, TypeOK, CpuType, AllCalls
<1>4. /\ percpu' \in PerCpuType /\ percpu'.running = running
      /\ percpu'.sources = <<"Syscall">> /\ percpu'.syscall_data = cpu.regs
  BY <1>1, BuffersType, SourcesFacts, ZenonT(30) DEF SyscallEnter, IInv, TypeOK, PerCpuType, CpuType, running
<1>5. /\ left' \in [Pids -> [via : {"never", "interrupt", "syscall"}, regs : Contexts]]
      /\ \A t \in Pids \ {running} : left'[t] = left[t]
      /\ left'[running].regs = cpu.regs
  BY <1>1, Zenon DEF SyscallEnter, IInv, TypeOK, CpuType
<1>6. (TypeOK /\ PidsFresh /\ MapIntact /\ QueuedOnce /\ DeadReaped)'
  BY <1>1, <1>2, <1>3, <1>4, <1>5, StaysStep, SMTT(30) DEF SyscallEnter, Stays
<1>7. ContextKept'
  BY <1>1, <1>2, <1>4, <1>5 DEF IInv, ContextKept, running
<1>8. SpinFree'
  BY <1>1, <1>2, <1>3, Zenon DEF IInv, SpinFree, running
<1>9. (SourcesTrackMode /\ OwnBases)'
  BY <1>1, <1>2, <1>3, <1>4, Zenon DEF IInv, SourcesTrackMode, OwnBases, Executing, running
<1> QED BY <1>6, <1>7, <1>8, <1>9, Zenon DEF IInv

LEMMA SyscallLockStep == IInv /\ SyscallLock => IInv'
<1> SUFFICES ASSUME IInv, SyscallLock PROVE IInv'
  BY Zenon
<1>1. /\ cpu' \in CpuType /\ cpu'.mode = "syscall" /\ cpu.mode = "syscall"
      /\ cpu'.cr3 = cpu.cr3 /\ cpu'.gs = cpu.gs /\ cpu'.fs = cpu.fs
      /\ thread[running].stack \in Nat
  BY UserFacts, Zenon DEF SyscallLock, IInv, TypeOK, CpuType, ThreadType
<1>2. (TypeOK /\ PidsFresh /\ MapIntact /\ QueuedOnce /\ DeadReaped)'
  BY <1>1, StaysStep DEF SyscallLock, Stays, IInv, TypeOK, running
<1>3. (ContextKept /\ SpinFree /\ SourcesTrackMode /\ OwnBases)'
  BY <1>1, Zenon DEF SyscallLock, IInv, ContextKept, SpinFree, SourcesTrackMode, OwnBases, Executing, running
<1> QED BY <1>2, <1>3, Zenon DEF IInv

LEMMA SyscallYieldStep == IInv /\ SyscallYield => IInv'
<1> SUFFICES ASSUME IInv, SyscallYield PROVE IInv'
  BY Zenon
<1>1. /\ cpu' \in CpuType /\ cpu'.mode = "schedule" /\ cpu.mode = "syscall"
      /\ thread[running].stack \in Nat /\ running # None
  BY UserFacts, ZenonT(30) DEF SyscallYield, IInv, TypeOK, CpuType, ThreadType, AllCalls
<1>2. (TypeOK /\ PidsFresh /\ MapIntact /\ QueuedOnce /\ DeadReaped)'
  BY <1>1, StaysStep DEF SyscallYield, Stays, IInv, TypeOK, running
<1>3. (ContextKept /\ SpinFree /\ SourcesTrackMode /\ OwnBases)'
  BY <1>1, Zenon DEF SyscallYield, IInv, ContextKept, SpinFree, SourcesTrackMode, OwnBases, Executing, running
<1> QED BY <1>2, <1>3, Zenon DEF IInv

LEMMA SyscallReturnStep == IInv /\ SyscallReturn => IInv'
<1> SUFFICES ASSUME IInv, SyscallReturn PROVE IInv'
  BY Zenon
<1>1. /\ cpu.mode = "syscall" /\ running \in Pids /\ thread[running] \in ThreadType
      /\ running \in 0 .. MaxPid
      /\ thread[running].stack \in Nat /\ percpu.sources = <<"Syscall">>
      /\ thread \in [Pids -> ThreadType]
  BY UserFacts, Zenon DEF SyscallReturn, ThreadType, IInv, TypeOK, SourcesTrackMode
<1> DEFINE fs == IF cpu.call = "set_fs" THEN running ELSE thread[running].fs_base
           gs == IF cpu.call = "set_gs" THEN running ELSE thread[running].gs_base
<1>2. /\ thread' \in [Pids -> ThreadType]
      /\ \A t \in Pids \ {running} : thread'[t] = thread[t]
      /\ thread'[running].task_state = thread[running].task_state
      /\ thread'[running].stack = thread[running].stack
      /\ thread'[running].locked = thread[running].locked
      /\ thread'[running].fs_base = fs /\ thread'[running].gs_base = gs
  <2> DEFINE e == [thread[running] EXCEPT !.fs_base = fs, !.gs_base = gs]
  <2>1. /\ e \in ThreadType /\ e.task_state = thread[running].task_state
        /\ e.stack = thread[running].stack /\ e.fs_base = fs
        /\ e.gs_base = gs /\ e.locked = thread[running].locked
    BY <1>1, Zenon DEF ThreadType
  <2>2. thread' = [thread EXCEPT ![running] = e]
    BY <1>1, Zenon DEF SyscallReturn
  <2> HIDE DEF e, fs, gs
  <2> QED BY <1>1, <2>1, <2>2, Zenon
<1>3. /\ cpu' \in CpuType /\ cpu'.mode = "user" /\ cpu'.cr3 = cpu.cr3
      /\ cpu'.fs = (IF cpu.call = "set_fs" THEN running ELSE cpu.fs)
      /\ cpu'.gs = (IF cpu.call = "set_gs" THEN running ELSE cpu.gs)
  <2>1. [percpu.syscall_data EXCEPT !.rbp = "rsp"] \in Contexts
    BY Zenon DEF IInv, TypeOK, PerCpuType, Contexts
  <2> QED BY <1>1, <2>1, Zenon DEF SyscallReturn, IInv, TypeOK, CpuType, AllCalls
<1>4. /\ percpu' \in PerCpuType /\ percpu'.running = running
      /\ percpu'.sources = <<>> /\ percpu'.syscall_data = percpu.syscall_data
  BY <1>1, SourcesFacts, ZenonT(30) DEF SyscallReturn, IInv, TypeOK, PerCpuType, running
<1>5. /\ left' \in [Pids -> [via : {"never", "interrupt", "syscall"}, regs : Contexts]]
      /\ \A t \in Pids \ {running} : left'[t] = left[t]
      /\ left'[running].via = "never"
  BY <1>1, NoRegisters, ZenonT(30) DEF SyscallReturn, IInv, TypeOK, NeverLeft
<1>6. (TypeOK /\ PidsFresh /\ MapIntact /\ QueuedOnce /\ DeadReaped)'
  BY <1>1, <1>2, <1>3, <1>4, <1>5, StaysStep, SMTT(30) DEF SyscallReturn, Stays
<1>7. ContextKept'
  BY <1>1, <1>2, <1>4, <1>5, SMTT(30) DEF IInv, ContextKept, running
<1>8. SpinFree'
  BY <1>1, <1>2, <1>3, SMTT(30) DEF IInv, SpinFree, running
<1>9. (SourcesTrackMode /\ OwnBases)'
  BY <1>1, <1>2, <1>3, <1>4 DEF IInv, SourcesTrackMode, OwnBases, Executing, running
<1> QED BY <1>6, <1>7, <1>8, <1>9, Zenon DEF IInv

-------------------------------------------------------------------------------
(* Faults on the kernel stack.                                             *)

(* A step of a fault handler that maps pages of the kernel stack of the    *)
(* running thread, or none.                                                *)
LEMMA KernelStackType ==
  ASSUME IInv, cpu.mode = "syscall", NEW n \in Nat,
         thread' = [thread EXCEPT ![running].kstack = n]
  PROVE  /\ thread' \in [Pids -> ThreadType]
         /\ \A t \in Pids \ {running} : thread'[t] = thread[t]
         /\ thread'[running].task_state = thread[running].task_state
         /\ thread'[running].stack = thread[running].stack
         /\ thread'[running].locked = thread[running].locked
         /\ thread'[running].gs_base = thread[running].gs_base
         /\ thread'[running].fs_base = thread[running].fs_base
<1>1. running \in Pids /\ thread[running] \in ThreadType /\ thread \in [Pids -> ThreadType]
  BY UserFacts, Zenon DEF IInv, TypeOK
<1> DEFINE e == [thread[running] EXCEPT !.kstack = n]
<1>2. /\ e \in ThreadType /\ e.task_state = thread[running].task_state
      /\ e.stack = thread[running].stack /\ e.locked = thread[running].locked
      /\ e.gs_base = thread[running].gs_base /\ e.fs_base = thread[running].fs_base
  BY <1>1, Zenon DEF ThreadType
<1>3. thread' = [thread EXCEPT ![running] = e]
  BY <1>1, Zenon
<1> HIDE DEF e
<1> QED BY <1>1, <1>2, <1>3, Zenon

LEMMA KernelStackGrowStep ==
  ASSUME NEW n \in Nat PROVE IInv /\ KernelStackGrow(n) => IInv'
<1> SUFFICES ASSUME IInv, KernelStackGrow(n) PROVE IInv'
  BY Zenon
<1> DEFINE k == thread[running].kstack
<1>1. /\ cpu.mode = "syscall" /\ n \in (k + 1) .. MaxKernelPages /\ n - k <= percpu.buffers
      /\ percpu' = [percpu EXCEPT !.buffers = @ - (n - k)]
      /\ thread' = [thread EXCEPT ![running].kstack = n]
      /\ cpu' = [cpu EXCEPT !.fs = 0]
      /\ UNCHANGED <<next_pid, processes, threads, task_queue, proc, left>>
  BY Zenon DEF KernelStackGrow
<1>2. /\ cpu' \in CpuType /\ cpu'.mode = "syscall" /\ cpu'.cr3 = cpu.cr3
      /\ cpu'.gs = cpu.gs /\ cpu'.fs = 0 /\ thread[running].stack \in Nat
  <2>1. 0 \in 0 .. MaxPid
    BY SchedulerAssumption
  <2> QED BY <1>1, <2>1, UserFacts, Zenon DEF CpuType, ThreadType
<1>3. /\ percpu' \in PerCpuType /\ percpu'.running = running
      /\ percpu'.sources = percpu.sources /\ percpu'.syscall_data = percpu.syscall_data
  <2>1. k \in Nat /\ percpu \in PerCpuType /\ percpu.buffers \in Nat
    BY <1>1, UserFacts, Zenon DEF ThreadType, PerCpuType
  <2> HIDE DEF k
  <2>2. percpu.buffers - (n - k) \in Nat
    BY <1>1, <2>1
  <2> QED BY <1>1, <2>1, <2>2, Zenon DEF PerCpuType, running
<1>4. (TypeOK /\ PidsFresh /\ MapIntact /\ QueuedOnce /\ DeadReaped)'
  <2>1. /\ thread' \in [Pids -> ThreadType]
        /\ \A t \in Pids \ {running} : thread'[t] = thread[t]
        /\ thread'[running].task_state = thread[running].task_state
        /\ thread'[running].stack = thread[running].stack
    BY <1>1, KernelStackType, ZenonT(30)
  <2>2. Stays
    BY <1>1, <1>2, <1>3, <2>1, SMTT(30) DEF Stays, IInv, TypeOK
  <2> QED BY <2>2, StaysStep, Zenon
<1>5. ContextKept' /\ SpinFree'
  BY <1>1, <1>2, <1>3, KernelStackType DEF KernelStackGrow, IInv, ContextKept, SpinFree, running
<1>6. (SourcesTrackMode /\ OwnBases)'
  BY <1>1, <1>2, <1>3, KernelStackType, Zenon DEF IInv, SourcesTrackMode, OwnBases, Executing, running
<1> QED BY <1>4, <1>5, <1>6, Zenon DEF IInv

LEMMA KernelStackDeadlockStep == IInv /\ KernelStackDeadlock => IInv'
<1> SUFFICES ASSUME IInv, KernelStackDeadlock PROVE IInv'
  BY Zenon
<1>1. /\ cpu' \in CpuType /\ cpu'.mode = "stuck" /\ cpu.mode = "syscall" /\ cpu'.pt_held
      /\ thread[running].stack \in Nat /\ percpu.sources = <<"Syscall">>
  BY UserFacts, Zenon DEF KernelStackDeadlock, IInv, TypeOK, CpuType, ThreadType, SourcesTrackMode
<1>2. /\ percpu' \in PerCpuType /\ percpu'.running = running
      /\ percpu'.syscall_data = percpu.syscall_data
  BY <1>1, SourcesFacts, Zenon DEF KernelStackDeadlock, IInv, TypeOK, PerCpuType, running
<1>3. (TypeOK /\ PidsFresh /\ MapIntact /\ QueuedOnce /\ DeadReaped)'
  BY <1>1, <1>2, StaysStep, SMTT(30) DEF KernelStackDeadlock, Stays, IInv, TypeOK
<1>4. ContextKept' /\ SpinFree'
  BY <1>1, <1>2 DEF KernelStackDeadlock, IInv, ContextKept, SpinFree, running
<1>5. (SourcesTrackMode /\ OwnBases)'
  BY <1>1, Zenon DEF SourcesTrackMode, OwnBases, Executing
<1> QED BY <1>3, <1>4, <1>5, Zenon DEF IInv

LEMMA KernelStackOverflowStep ==
  ASSUME NEW n \in Nat PROVE IInv /\ KernelStackOverflow(n) => IInv'
<1> SUFFICES ASSUME IInv, KernelStackOverflow(n) PROVE IInv'
  BY Zenon
<1>1. /\ cpu' \in CpuType /\ cpu'.mode = "panic" /\ cpu.mode = "syscall"
      /\ thread[running].stack \in Nat /\ percpu.sources = <<"Syscall">>
      /\ thread[running].kstack \in Nat /\ percpu.buffers \in Nat
  BY UserFacts, Zenon DEF KernelStackOverflow, IInv, TypeOK, CpuType, ThreadType, PerCpuType, SourcesTrackMode
<1>2. /\ percpu' \in PerCpuType /\ percpu'.running = running
      /\ percpu'.syscall_data = percpu.syscall_data
  BY <1>1, SourcesFacts, Zenon DEF KernelStackOverflow, IInv, TypeOK, PerCpuType, running
<1>3. /\ thread' \in [Pids -> ThreadType]
      /\ \A t \in Pids \ {running} : thread'[t] = thread[t]
      /\ thread'[running].task_state = thread[running].task_state
      /\ thread'[running].stack = thread[running].stack
      /\ thread'[running].locked = thread[running].locked
  <2>1. CASE UNCHANGED thread
    BY <2>1, Zenon DEF IInv, TypeOK
  <2>2. CASE thread' = [thread EXCEPT ![running].kstack = @ + percpu.buffers]
    <3> DEFINE k == thread[running].kstack + percpu.buffers
    <3>1. k \in Nat /\ thread' = [thread EXCEPT ![running].kstack = k]
      BY <1>1, <2>2, SMTT(30)
    <3> HIDE DEF k
    <3> QED BY <1>1, <3>1, KernelStackType, Zenon
  <2> QED BY <2>1, <2>2, Zenon DEF KernelStackOverflow
<1>4. (TypeOK /\ PidsFresh /\ MapIntact /\ QueuedOnce /\ DeadReaped)'
  BY <1>1, <1>2, <1>3, StaysStep, SMTT(30) DEF KernelStackOverflow, Stays, IInv, TypeOK
<1>5. ContextKept' /\ SpinFree'
  BY <1>1, <1>2, <1>3 DEF KernelStackOverflow, IInv, ContextKept, SpinFree, running
<1>6. (SourcesTrackMode /\ OwnBases)'
  BY <1>1, Zenon DEF SourcesTrackMode, OwnBases, Executing
<1> QED BY <1>4, <1>5, <1>6, Zenon DEF IInv

-------------------------------------------------------------------------------
(* schedule().                                                             *)

(* The interrupted thread goes back to the queue exactly when its process  *)
(* is alive, and never when it is there already.                           *)
LEMMA RequeuedFacts ==
  ASSUME IInv, cpu.mode = "schedule"
  PROVE  /\ Requeued \in Seq(Pids)
         /\ \A i, j \in 1 .. Len(Requeued) : Requeued[i] = Requeued[j] => i = j
         /\ Elems(Requeued) = Elems(task_queue) \cup ({running} \cap processes)
         /\ Elems(Requeued) \subseteq processes
         /\ running \in processes => Requeued # <<>>
<1>1. /\ task_queue \in Seq(Pids) /\ running \notin Elems(task_queue)
      /\ Elems(task_queue) \subseteq processes /\ processes \subseteq Pids
      /\ \A i, j \in 1 .. Len(task_queue) : task_queue[i] = task_queue[j] => i = j
  BY Zenon DEF IInv, TypeOK, MapIntact, QueuedOnce
<1>2. CASE running \in processes
  <2>1. running \in Pids /\ running # None
    BY <1>1, <1>2 DEF Pids, None
  <2>2. percpu.sources = <<"Syscall">>
    BY <2>1, Zenon DEF IInv, SourcesTrackMode
  <2>3. LastSource = "Syscall"
    BY <2>2 DEF LastSource
  <2>4. Requeued = Append(task_queue, running)
    BY <1>2, <2>1, <2>3, Zenon DEF Requeued, IInv, MapIntact
  <2> QED BY <1>1, <1>2, <2>1, <2>4, AppendElems
<1>3. CASE running \notin processes
  <2>1. running # None => thread[running].task_state = "Zombie"
    BY <1>3, Zenon DEF IInv, PidsFresh, DeadReaped
  <2>2. Requeued = task_queue
    BY <2>1, Zenon DEF Requeued
  <2> QED BY <1>1, <1>3, <2>2, Zenon
<1> QED BY <1>2, <1>3, Zenon

(* schedule() copies the registers that the syscall entry saved for the    *)
(* core into the interrupted thread.                                       *)
LEMMA SavedFacts ==
  ASSUME IInv, cpu.mode = "schedule"
  PROVE  /\ Saved \in [Pids -> ThreadType]
         /\ \A t \in Pids :
              /\ Saved[t].task_state = thread[t].task_state
              /\ Saved[t].running_cpu = thread[t].running_cpu
              /\ Saved[t].locked = thread[t].locked
              /\ Saved[t].stack = thread[t].stack
              /\ Saved[t].fs_base = thread[t].fs_base
              /\ Saved[t].gs_base = thread[t].gs_base
              /\ left[t].via = "syscall" => left[t].regs = Saved[t].state
<1>1. /\ thread \in [Pids -> ThreadType] /\ percpu.syscall_data \in Contexts
      /\ \A t \in Pids : left[t].via = "syscall" =>
           left[t].regs = IF t = running THEN percpu.syscall_data ELSE thread[t].state
  BY Zenon DEF IInv, TypeOK, PerCpuType, ContextKept
<1>2. CASE running = None
  <2>1. Saved = thread /\ \A t \in Pids : t # running
    BY <1>2 DEF Saved, Pids, None
  <2> QED BY <1>1, <2>1, Zenon
<1>3. CASE running # None
  <2>1. LastSource = "Syscall" /\ running \in Pids
    <3>1. percpu.sources = <<"Syscall">> /\ running \in Pids
      BY <1>3, Zenon DEF IInv, SourcesTrackMode, PidsFresh, TypeOK
    <3> QED BY <3>1 DEF LastSource
  <2> DEFINE e == [thread[running] EXCEPT !.state = percpu.syscall_data]
  <2>2. /\ e \in ThreadType /\ e.state = percpu.syscall_data
        /\ e.task_state = thread[running].task_state
        /\ e.running_cpu = thread[running].running_cpu
        /\ e.locked = thread[running].locked /\ e.stack = thread[running].stack
        /\ e.fs_base = thread[running].fs_base /\ e.gs_base = thread[running].gs_base
    BY <1>1, <2>1 DEF ThreadType
  <2>3. Saved = [thread EXCEPT ![running] = e]
    BY <1>1, <1>3, <2>1, Zenon DEF Saved
  <2> HIDE DEF e
  <2>4. \A t \in Pids : Saved[t] = IF t = running THEN e ELSE thread[t]
    BY <1>1, <2>1, <2>3, Zenon
  <2> QED BY <1>1, <2>1, <2>2, <2>3, <2>4, Zenon
<1> QED BY <1>2, <1>3, Zenon

(* Nothing to run: the core idles.                                         *)
LEMMA ScheduleIdleStep == IInv /\ Schedule /\ Requeued = <<>> => IInv'
<1> SUFFICES ASSUME IInv, Schedule, Requeued = <<>> PROVE IInv'
  BY Zenon
<1>1. /\ cpu.mode = "schedule" /\ cpu' = [cpu EXCEPT !.mode = "idle"] /\ thread' = Saved
      /\ task_queue' = <<>>
      /\ UNCHANGED <<next_pid, processes, threads, proc, percpu, left>>
  BY Zenon DEF Schedule
<1>2. /\ cpu' \in CpuType /\ cpu'.mode = "idle"
  BY <1>1, Zenon DEF IInv, TypeOK, CpuType
<1>3. running \notin processes /\ Elems(task_queue) = {} /\ Elems(task_queue') = {}
  <2>1. Elems(<<>>) = {}
    BY DEF Elems
  <2> QED BY <1>1, <2>1, RequeuedFacts, Zenon
<1>4. TypeOK'
  BY <1>1, <1>2, SavedFacts, SMTT(30) DEF IInv, TypeOK
<1>5. PidsFresh' /\ MapIntact'
  BY <1>1, <1>2, <1>3, SavedFacts, SMTT(30) DEF IInv, TypeOK, PidsFresh, MapIntact, Executing, running
<1>6. ContextKept'
  <2>1. \A t \in Pids : t = running /\ left[t].via = "syscall" => left[t].regs = percpu.syscall_data
    BY Zenon DEF IInv, ContextKept
  <2> QED BY <1>1, <2>1, SavedFacts, Zenon DEF ContextKept, running
<1>7. QueuedOnce'
  <2>1. ASSUME NEW t \in threads PROVE thread'[t].task_state = "Zombie"
    <3>1. t \in Pids
      BY Zenon DEF IInv, TypeOK
    <3>2. t = running => thread[t].task_state = "Zombie"
      BY <1>3, Zenon DEF IInv, DeadReaped
    <3> QED BY <1>1, <1>3, <3>1, <3>2, SavedFacts, Zenon DEF IInv, QueuedOnce
  <2> QED BY <1>1, <1>2, <2>1 DEF QueuedOnce, Executing
<1>8. DeadReaped'
  BY <1>1, <1>2, <1>3, SavedFacts, SMTT(30) DEF IInv, TypeOK, DeadReaped, Runnable, Executing
<1>9. (SpinFree /\ SourcesTrackMode /\ OwnBases)'
  BY <1>1, <1>2, SavedFacts, Zenon DEF IInv, SpinFree, SourcesTrackMode, OwnBases, Executing, running
<1> QED BY <1>4, <1>5, <1>6, <1>7, <1>8, <1>9, Zenon DEF IInv

(* Otherwise the thread at the front is alive and its lock is free, so it  *)
(* is dispatched; schedule() neither skips it nor spins on it.             *)
LEMMA ScheduleDispatches ==
  ASSUME IInv, Schedule, Requeued # <<>>
  PROVE  LET t == Head(Requeued)
         IN  /\ t \in processes /\ Dispatch(t)
             /\ task_queue' = Tail(Requeued)
             /\ proc' = [proc EXCEPT ![t].state = "Running"]
             /\ UNCHANGED <<next_pid, processes, threads>>
<1> DEFINE t == Head(Requeued)
<1>1. cpu.mode = "schedule"
  BY Zenon DEF Schedule
<1>2. t \in processes /\ t \in Pids
  BY <1>1, RequeuedFacts, TailElems, Zenon DEF IInv, TypeOK
<1>3. proc[t].state # "Zombie" /\ ~thread[t].locked
  BY <1>1, <1>2, Zenon DEF IInv, MapIntact, SpinFree
<1> HIDE DEF t
<1> QED BY <1>2, <1>3, Zenon DEF Schedule, Popped, t

LEMMA ScheduleDispatchStep == IInv /\ Schedule /\ Requeued # <<>> => IInv'
<1> SUFFICES ASSUME IInv, Schedule, Requeued # <<>> PROVE IInv'
  BY Zenon
<1> DEFINE t == Head(Requeued)
<1>1. /\ cpu.mode = "schedule" /\ t \in processes /\ Dispatch(t) /\ task_queue' = Tail(Requeued)
      /\ proc' = [proc EXCEPT ![t].state = "Running"]
      /\ UNCHANGED <<next_pid, processes, threads>>
  BY ScheduleDispatches, Zenon DEF Schedule
<1>2. /\ task_queue' \in Seq(Pids) /\ Elems(task_queue') = Elems(Requeued) \ {t}
      /\ \A i, j \in 1 .. Len(task_queue') : task_queue'[i] = task_queue'[j] => i = j
  BY <1>1, RequeuedFacts, TailElems, SMTT(30)
<1>3. /\ t \in Pids /\ t \in 0 .. MaxPid /\ t # None /\ t \in threads /\ t < next_pid
      /\ processes \subseteq Pids /\ threads \subseteq Pids /\ Saved[t] \in ThreadType
  <2>1. t \in Pids /\ t \in threads /\ t < next_pid /\ processes \subseteq Pids /\ threads \subseteq Pids
    BY <1>1, Zenon DEF IInv, TypeOK, PidsFresh
  <2> QED BY <1>1, <2>1, SavedFacts DEF Pids, None
<1> HIDE DEF t
<1>4. /\ thread' \in [Pids -> ThreadType]
      /\ \A u \in Pids \ {t} : thread'[u] = Saved[u]
      /\ thread'[t].task_state = "Running" /\ thread'[t].stack = thread[t].stack
      /\ thread'[t].gs_base = thread[t].gs_base
  <2> DEFINE e == [Saved[t] EXCEPT !.task_state = "Running", !.running_cpu = Core, !.locked = TRUE]
  <2>1. /\ e \in ThreadType /\ e.task_state = "Running" /\ e.stack = Saved[t].stack
        /\ e.gs_base = Saved[t].gs_base
    BY <1>3, Zenon DEF ThreadType
  <2>2. thread' = [Saved EXCEPT ![t] = e]
    BY <1>1, <1>3, SavedFacts, Zenon DEF Dispatch
  <2> HIDE DEF e
  <2> QED BY <1>1, <1>3, <2>1, <2>2, SavedFacts, Zenon
<1>5. /\ proc' \in [Pids -> ProcessType]
      /\ \A u \in Pids \ {t} : proc'[u] = proc[u]
      /\ proc'[t].state = "Running" /\ proc'[t].threads = proc[t].threads
      /\ proc'[t].zombies = proc[t].zombies /\ proc'[t].code = proc[t].code
  <2>1. proc \in [Pids -> ProcessType] /\ proc[t] \in ProcessType
    BY <1>3, Zenon DEF IInv, TypeOK
  <2> DEFINE e == [proc[t] EXCEPT !.state = "Running"]
  <2>2. /\ e \in ProcessType /\ e.state = "Running" /\ e.threads = proc[t].threads
        /\ e.zombies = proc[t].zombies /\ e.code = proc[t].code
    BY <2>1, Zenon DEF ProcessType
  <2>3. proc' = [proc EXCEPT ![t] = e]
    BY <1>1, Zenon
  <2> HIDE DEF e
  <2> QED BY <1>3, <2>1, <2>2, <2>3, Zenon
<1>6. /\ cpu' \in CpuType /\ cpu'.mode = "user" /\ cpu'.cr3 = t /\ cpu'.fs = 0
      /\ cpu'.gs = thread[t].gs_base
  <2>1. /\ cpu' = [cpu EXCEPT !.mode = "user", !.regs = Saved[t].state,
                              !.fs = 0, !.gs = Saved[t].gs_base, !.cr3 = t]
        /\ cpu \in CpuType
    BY <1>1, Zenon DEF Dispatch, IInv, TypeOK
  <2>2. /\ Saved[t].state \in Contexts /\ Saved[t].gs_base \in 0 .. MaxPid
        /\ Saved[t].gs_base = thread[t].gs_base /\ 0 \in 0 .. MaxPid
    BY <1>1, <1>3, SavedFacts, SchedulerAssumption, SMTT(30) DEF ThreadType
  <2> QED BY <1>3, <2>1, <2>2, Zenon DEF CpuType
<1>7. /\ percpu' \in PerCpuType /\ running' = t /\ percpu'.sources = <<>>
  BY <1>1, <1>3, SourcesFacts, Zenon DEF Dispatch, IInv, TypeOK, PerCpuType, running
<1>8. /\ left' \in [Pids -> [via : {"never", "interrupt", "syscall"}, regs : Contexts]]
      /\ \A u \in Pids \ {t} : left'[u] = left[u]
      /\ left'[t].via = "never"
  BY <1>1, <1>3, NoRegisters, ZenonT(30) DEF Dispatch, IInv, TypeOK, NeverLeft
<1>9. /\ processes' = processes /\ threads' = threads /\ next_pid' = next_pid
  BY <1>1, Zenon
<1>10. TypeOK'
  BY <1>2, <1>4, <1>5, <1>6, <1>7, <1>8, <1>9, ZenonT(30) DEF IInv, TypeOK
<1>11. PidsFresh'
  BY <1>3, <1>6, <1>7, <1>8, <1>9, SMTT(30) DEF IInv, PidsFresh, Executing
<1>12. MapIntact'
  <2>1. Elems(task_queue') \subseteq processes
    BY <1>1, <1>2, RequeuedFacts, Zenon
  <2>2. ASSUME NEW u \in processes
        PROVE  /\ proc'[u].threads = {u} /\ proc'[u].zombies = {}
               /\ thread'[u].task_state # "Zombie" /\ proc'[u].state # "Zombie"
               /\ proc'[u].code /\ thread'[u].stack > 0
    <3>1. /\ u \in Pids /\ proc[u].threads = {u} /\ proc[u].zombies = {}
          /\ thread[u].task_state # "Zombie" /\ proc[u].state # "Zombie"
          /\ proc[u].code /\ thread[u].stack > 0
      BY Zenon DEF IInv, MapIntact, TypeOK
    <3> QED BY <1>1, <1>3, <1>4, <1>5, <3>1, SavedFacts, SMTT(30)
  <2> QED BY <1>1, <1>6, <1>7, <1>9, <2>1, <2>2, Zenon DEF MapIntact
<1>13. ContextKept'
  BY <1>1, <1>4, <1>7, <1>8, SavedFacts DEF ContextKept
<1>14. QueuedOnce'
  <2>1. ASSUME NEW u \in threads
        PROVE  thread'[u].task_state = "Zombie" \/ u \in Elems(task_queue') \/ u = t
    <3>1. u \in Pids
      BY <1>3, Zenon
    <3>2. \/ thread[u].task_state = "Zombie" \/ u \in Elems(task_queue) \/ u = running
      BY Zenon DEF IInv, QueuedOnce
    <3>3. u \notin processes => thread[u].task_state = "Zombie"
      BY Zenon DEF IInv, DeadReaped
    <3> QED BY <1>1, <1>2, <1>4, <3>1, <3>2, <3>3, RequeuedFacts, SavedFacts
  <2> QED BY <1>2, <1>6, <1>7, <1>9, <2>1, Zenon DEF QueuedOnce
<1>15. DeadReaped'
  <2>1. ASSUME NEW u \in threads \ processes
        PROVE  /\ thread'[u].task_state = "Zombie" /\ proc'[u].state = "Zombie"
               /\ proc'[u].threads = {} /\ proc'[u].zombies = {u}
               /\ ~proc'[u].code /\ thread'[u].stack = 0
               /\ thread'[u].running_cpu = None /\ ~thread'[u].locked
               /\ u # t /\ u \notin Elems(task_queue')
    <3>1. /\ thread[u].task_state = "Zombie" /\ proc[u].state = "Zombie"
          /\ proc[u].threads = {} /\ proc[u].zombies = {u}
          /\ ~proc[u].code /\ thread[u].stack = 0
          /\ thread[u].running_cpu = None /\ ~thread[u].locked
      BY Zenon DEF IInv, DeadReaped
    <3>2. u # t /\ u \in Pids /\ u \notin Elems(task_queue')
      BY <1>1, <1>2, <1>3, RequeuedFacts, Zenon
    <3> QED BY <1>1, <1>4, <1>5, <3>1, <3>2, SavedFacts, SMTT(30)
  <2> QED BY <1>7, <1>9, <2>1, Zenon DEF DeadReaped, Runnable
<1>16. SpinFree'
  BY <1>1, <1>4, <1>6, <1>7, SavedFacts DEF IInv, SpinFree
<1>17. (SourcesTrackMode /\ OwnBases)'
  BY <1>4, <1>6, <1>7, Zenon DEF SourcesTrackMode, OwnBases
<1> QED BY <1>10, <1>11, <1>12, <1>13, <1>14, <1>15, <1>16, <1>17, Zenon DEF IInv

-------------------------------------------------------------------------------
(* The theorems.                                                           *)

LEMMA StutterStep == IInv /\ UNCHANGED vars => IInv'
<1> SUFFICES ASSUME IInv, UNCHANGED vars PROVE IInv'
  BY Zenon
<1>1. /\ next_pid' = next_pid /\ processes' = processes /\ threads' = threads
      /\ task_queue' = task_queue /\ thread' = thread /\ proc' = proc
      /\ percpu' = percpu /\ cpu' = cpu /\ left' = left
  BY Zenon DEF vars
<1>2. TypeOK'
  BY <1>1, Zenon DEF IInv, TypeOK
<1>3. PidsFresh'
  BY <1>1, Zenon DEF IInv, PidsFresh, Executing, running
<1>4. MapIntact'
  BY <1>1, Zenon DEF IInv, MapIntact, Executing, running
<1>5. ContextKept'
  BY <1>1, Zenon DEF IInv, ContextKept, running
<1>6. QueuedOnce'
  BY <1>1, Zenon DEF IInv, QueuedOnce, Executing, running
<1>7. DeadReaped'
  BY <1>1, Zenon DEF IInv, DeadReaped, Runnable, Executing, running
<1>8. SpinFree' /\ SourcesTrackMode' /\ OwnBases'
  BY <1>1, Zenon DEF IInv, SpinFree, SourcesTrackMode, OwnBases, Executing, running
<1> QED BY <1>2, <1>3, <1>4, <1>5, <1>6, <1>7, <1>8, Zenon DEF IInv

LEMMA NextIInv == IInv /\ [Next]_vars => IInv'
<1> SUFFICES ASSUME IInv, [Next]_vars PROVE IInv'
  BY Zenon
<1>1. CASE Kernel
  BY <1>1, BootScheduleStep, ScheduleIdleStep, ScheduleDispatchStep, SyscallLockStep,
     SyscallReturnStep, SyscallYieldStep, SyscallExitStep, Zenon DEF Kernel
<1>2. CASE CreateProcess \/ CreateProcessFails
  BY <1>2, CreateProcessStep, CreateProcessFailsStep, Zenon
<1>3. CASE UserStep \/ TimerInterrupt \/ KeyboardInterrupt \/ Int80
  BY <1>3, UserStepStep, TimerInterruptStep, KeyboardInterruptStep, Int80Step, Zenon
<1>4. CASE KernelInterrupt \/ UNCHANGED vars
  BY <1>4, StutterStep, Zenon DEF KernelInterrupt
<1>5. CASE UnhandledException \/ SegmentationFault \/ KernelStackDeadlock
  BY <1>5, UnhandledExceptionStep, SegmentationFaultStep, KernelStackDeadlockStep, Zenon
<1>6. CASE \E c \in Calls : SyscallEnter(c)
  BY <1>6, SyscallEnterStep, Zenon
<1>7. CASE \E n \in 1 .. (MaxUserPages + 1) : UserStackFault(n)
  BY <1>7, UserStackFaultStep, SchedulerAssumption
<1>8. CASE \E n \in 1 .. (MaxKernelPages + 1) : KernelStackGrow(n) \/ KernelStackOverflow(n)
  BY <1>8, KernelStackGrowStep, KernelStackOverflowStep, SchedulerAssumption
<1> QED BY <1>1, <1>2, <1>3, <1>4, <1>5, <1>6, <1>7, <1>8, Zenon DEF Next

(* The inductive invariant holds in every state.                           *)
THEOREM Invariance == Spec => []IInv
<1> QED BY InitIInv, NextIInv, PTL DEF Spec

(* For any number of processes, every live thread is in exactly one place: *)
(* once in the queue of schedule(), or on the core.                        *)
THEOREM ExactlyOnePlace == Spec => []QueuedOnce
<1>1. IInv => QueuedOnce
  BY Zenon DEF IInv
<1> QED BY <1>1, Invariance, PTL

(* A thread that schedule() may dispatch still has its process, its code   *)
(* and its stack.                                                          *)
THEOREM NeverRunsDead == Spec => []RunnableIntact
<1>1. IInv => RunnableIntact
  BY DEF IInv, MapIntact, RunnableIntact, Runnable
<1> QED BY <1>1, Invariance, PTL

(* No step takes a page of a kernel stack away, and create_process maps    *)
(* the first one before the thread is in the map.                          *)
LEMMA KernelStackStep == IInv /\ KernelStackKept /\ [Next]_vars => KernelStackKept'
<1> SUFFICES ASSUME IInv, KernelStackKept, [Next]_vars PROVE KernelStackKept'
  BY Zenon
<1>1. /\ thread \in [Pids -> ThreadType] /\ threads \subseteq Pids
      /\ \A t \in threads : thread[t].kstack \in Nat /\ thread[t].kstack > 0
  BY Zenon DEF IInv, TypeOK, ThreadType, KernelStackKept
<1>2. CASE CreateProcess
  <2>1. /\ next_pid \in Pids /\ threads' = threads \cup {next_pid}
        /\ thread' = [thread EXCEPT ![next_pid] =
                        [NoThread EXCEPT !.task_state = "Init", !.state = Start(next_pid),
                                         !.stack = 1, !.kstack = 1]]
    BY <1>2, Zenon DEF CreateProcess
  <2>2. thread'[next_pid].kstack = 1 /\ \A t \in Pids \ {next_pid} : thread'[t] = thread[t]
    BY <1>1, <2>1, Zenon DEF NoThread
  <2> QED BY <1>1, <2>1, <2>2 DEF KernelStackKept
<1>3. CASE Schedule
  <2>1. threads' = threads /\ cpu.mode = "schedule"
    BY <1>3, Zenon DEF Schedule
  <2>2. \A t \in Pids : Saved[t].kstack = thread[t].kstack
    BY <1>1 DEF Saved, ThreadType
  <2>3. Saved \in [Pids -> ThreadType]
    BY <2>1, SavedFacts, Zenon
  <2>4. CASE Requeued = <<>>
    <3>1. thread' = Saved
      BY <1>3, <2>4, Zenon DEF Schedule
    <3> QED BY <1>1, <2>1, <2>2, <3>1, Zenon DEF KernelStackKept
  <2>5. CASE Requeued # <<>>
    <3> DEFINE h == Head(Requeued)
    <3>1. thread' = [Saved EXCEPT ![h].task_state = "Running", ![h].running_cpu = Core,
                                  ![h].locked = TRUE]
      BY <1>3, <2>5, ScheduleDispatches, Zenon DEF Dispatch
    <3> HIDE DEF h
    <3>2. \A t \in Pids : thread'[t].kstack = Saved[t].kstack
      BY <2>3, <3>1 DEF ThreadType
    <3> QED BY <1>1, <2>1, <2>2, <3>2, Zenon DEF KernelStackKept
  <2> QED BY <2>4, <2>5, Zenon
<1>4. ASSUME threads' = threads, \A t \in Pids : thread'[t].kstack = thread[t].kstack
      PROVE  KernelStackKept'
  BY <1>1, <1>4, Zenon DEF KernelStackKept
<1>5. /\ Entered \in [Pids -> ThreadType] \/ cpu.mode # "user"
      /\ \A t \in Pids : Entered[t].kstack = thread[t].kstack
  <2>1. \A t \in Pids : Entered[t].kstack = thread[t].kstack
    BY <1>1 DEF Entered, ThreadType
  <2> QED BY <2>1, EnteredFacts, Zenon
<1>6. CASE \/ CreateProcessFails \/ BootSchedule \/ SyscallLock \/ SyscallYield \/ UserStep
          \/ KernelInterrupt \/ KernelStackDeadlock \/ UNCHANGED vars
  BY <1>4, <1>6, Zenon DEF CreateProcessFails, BootSchedule, SyscallLock, SyscallYield, UserStep,
                           KernelInterrupt, KernelStackDeadlock, vars
<1>7. CASE TimerInterrupt \/ UnhandledException
  BY <1>4, <1>5, <1>7, Zenon DEF TimerInterrupt, UnhandledException
<1>8. ASSUME NEW th \in [Pids -> ThreadType], ReturnToUser(th)
      PROVE  \A t \in Pids : thread'[t].kstack = th[t].kstack
  BY <1>8 DEF ReturnToUser, ThreadType
<1>9. CASE KeyboardInterrupt \/ Int80
  <2>1. cpu.mode = "user" /\ ReturnToUser(Entered) /\ threads' = threads
    BY <1>9, Zenon DEF KeyboardInterrupt, Int80
  <2> QED BY <1>4, <1>5, <1>8, <2>1, Zenon
<1>10. ASSUME NEW n \in Nat, UserStackFault(n) PROVE KernelStackKept'
  <2>1. cpu.mode = "user" /\ threads' = threads
    BY <1>10, Zenon DEF UserStackFault
  <2>2. CASE StackFits(n)
    <3> DEFINE th == [Entered EXCEPT ![running].stack = n]
    <3>1. th \in [Pids -> ThreadType] /\ \A t \in Pids : th[t].kstack = Entered[t].kstack
      BY <1>5, <2>1 DEF ThreadType
    <3>2. ReturnToUser(th)
      BY <1>10, <2>2, Zenon DEF UserStackFault
    <3> HIDE DEF th
    <3> QED BY <1>4, <1>5, <1>8, <2>1, <3>1, <3>2, Zenon
  <2>3. CASE ~StackFits(n)
    BY <1>4, <1>5, <1>10, <2>1, <2>3, Zenon DEF UserStackFault
  <2> QED BY <2>2, <2>3, Zenon
<1>11. ASSUME NEW th \in [Pids -> ThreadType], NEW found, Exit(th, running, found)
       PROVE  \A t \in Pids : thread'[t].kstack = th[t].kstack
  BY <1>11 DEF Exit, ThreadExit, ThreadType
<1>12. CASE SegmentationFault
  BY <1>4, <1>5, <1>11, <1>12, Zenon DEF SegmentationFault
<1>13. CASE SyscallExit
  BY <1>1, <1>4, <1>11, <1>13, Zenon DEF SyscallExit
<1>14. CASE SyscallReturn
  <2>1. \A t \in Pids : thread'[t].kstack = thread[t].kstack
    BY <1>1, <1>14 DEF SyscallReturn, ThreadType
  <2> QED BY <1>4, <1>14, <2>1, Zenon DEF SyscallReturn
<1>15. ASSUME NEW c, SyscallEnter(c) PROVE KernelStackKept'
  <2>1. \A t \in Pids : thread'[t].kstack = thread[t].kstack
    BY <1>1, <1>15 DEF SyscallEnter, ThreadType
  <2> QED BY <1>4, <1>15, <2>1, Zenon DEF SyscallEnter
<1>16. ASSUME NEW n \in Nat, n >= thread[running].kstack,
              threads' = threads, thread' = [thread EXCEPT ![running].kstack = n]
       PROVE  KernelStackKept'
  BY <1>1, <1>16 DEF KernelStackKept, ThreadType
<1>17. ASSUME NEW n \in Nat, KernelStackGrow(n) PROVE KernelStackKept'
  <2>1. cpu.mode = "syscall" /\ thread[running].kstack \in Nat
    BY <1>17, UserFacts, Zenon DEF KernelStackGrow, ThreadType
  <2>2. n \in (thread[running].kstack + 1) .. MaxKernelPages /\ threads' = threads
        /\ thread' = [thread EXCEPT ![running].kstack = n]
    BY <1>17, Zenon DEF KernelStackGrow
  <2>3. n >= thread[running].kstack
    BY <2>1, <2>2, SchedulerAssumption
  <2> QED BY <1>16, <2>2, <2>3, Zenon
<1>18. ASSUME NEW n \in Nat, KernelStackOverflow(n) PROVE KernelStackKept'
  <2>1. /\ cpu.mode = "syscall" /\ thread[running].kstack \in Nat /\ percpu.buffers \in Nat
        /\ running \in Pids /\ threads' = threads
    BY <1>18, UserFacts, Zenon DEF KernelStackOverflow, ThreadType, PerCpuType
  <2>2. CASE UNCHANGED thread
    BY <1>4, <2>1, <2>2, Zenon
  <2>3. CASE thread' = [thread EXCEPT ![running].kstack = @ + percpu.buffers]
    <3> DEFINE k == thread[running].kstack + percpu.buffers
    <3>1. k \in Nat /\ k >= thread[running].kstack
      BY <2>1
    <3>2. thread' = [thread EXCEPT ![running].kstack = k]
      BY <1>1, <2>1, <2>3, Zenon
    <3> HIDE DEF k
    <3> QED BY <1>16, <2>1, <3>1, <3>2, Zenon
  <2> QED BY <1>18, <2>2, <2>3, Zenon DEF KernelStackOverflow
<1>19. CASE \E n \in 1 .. (MaxUserPages + 1) : UserStackFault(n)
  BY <1>10, <1>19, SchedulerAssumption
<1>20. CASE \E n \in 1 .. (MaxKernelPages + 1) : KernelStackGrow(n) \/ KernelStackOverflow(n)
  BY <1>17, <1>18, <1>20, SchedulerAssumption
<1> QED BY <1>2, <1>3, <1>6, <1>7, <1>9, <1>12, <1>13, <1>14, <1>15, <1>19, <1>20, Zenon
        DEF Next, Kernel

(* What exit and kill_process take from a process, and the kernel stack    *)
(* that they leave, for any number of processes and any stack sizes.       *)
THEOREM ExitReleases == Spec => []DeadReleased
<1>1. Init => KernelStackKept
  BY DEF Init, KernelStackKept
<1>2. IInv /\ KernelStackKept => DeadReleased
  BY Zenon DEF IInv, DeadReleased
<1> QED BY <1>1, <1>2, KernelStackStep, Invariance, PTL DEF Spec

(* Nobody spins on running_cpu; the kernel hangs only when a call that     *)
(* holds its page table faults on its own stack.                           *)
THEOREM NoSelfDeadlock == Spec => []SpinFree
<1>1. IInv => SpinFree
  BY Zenon DEF IInv
<1> QED BY <1>1, Invariance, PTL

(* The stack of interrupt sources never grows over several dispatches.     *)
THEOREM SourcesBounded == Spec => []SourcesTrackMode
<1>1. IInv => SourcesTrackMode
  BY Zenon DEF IInv
<1> QED BY <1>1, Invariance, PTL

(* No thread executes with the page table or the segment bases of another. *)
THEOREM BasesIsolated == Spec => []OwnBases
<1>1. IInv => OwnBases
  BY Zenon DEF IInv
<1> QED BY <1>1, Invariance, PTL

(* A thread that left user mode by the syscall instruction resumes with    *)
(* the registers it left with.                                             *)
THEOREM SyscallContextKept == Spec => SyscallContext
<1>1. IInv /\ [Next]_vars =>
        [\A t \in Pids : Resumes(t) /\ left[t].via = "syscall" => cpu'.regs = left[t].regs]_vars
  <2> SUFFICES ASSUME IInv, Next, NEW t \in Pids, Resumes(t), left[t].via = "syscall"
               PROVE  cpu'.regs = left[t].regs
    BY Zenon
  <2>1. cpu.mode = "schedule" /\ cpu'.mode = "user" /\ percpu'.running = t
    BY Zenon DEF Resumes
  <2>2. Schedule
    BY <2>1, Zenon DEF Next, Kernel, BootSchedule, SyscallLock, SyscallReturn, SyscallYield, SyscallExit,
                CreateProcess, CreateProcessFails, UserStep, TimerInterrupt, KeyboardInterrupt,
                KernelInterrupt, Int80, UnhandledException, SegmentationFault,
                KernelStackDeadlock, SyscallEnter, UserStackFault, KernelStackGrow,
                KernelStackOverflow
  <2>3. Requeued # <<>>
    <3>1. ASSUME Requeued = <<>> PROVE cpu'.mode = "idle"
      BY <2>2, <3>1, Zenon DEF Schedule, IInv, TypeOK, CpuType
    <3> QED BY <2>1, <3>1, Zenon
  <2> DEFINE h == Head(Requeued)
  <2>4. Dispatch(h)
    BY <2>2, <2>3, ScheduleDispatches, Zenon
  <2> HIDE DEF h
  <2>5. t = h /\ cpu'.regs = Saved[h].state
    BY <2>1, <2>4, Zenon DEF Dispatch, IInv, TypeOK, CpuType, PerCpuType
  <2> QED BY <2>1, <2>5, SavedFacts, Zenon
<1> QED BY <1>1, Invariance, PTL DEF Spec, SyscallContext
===============================================================================
