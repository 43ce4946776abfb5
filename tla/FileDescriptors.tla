---------------------------- MODULE FileDescriptors ----------------------------
(***************************************************************************)
(* The file table of a process, process/io/file_table.rs and context.rs,   *)
(* and the system calls that work on descriptors,                          *)
(* interrupts/handlers/syscall/linux/io.rs, over the pipes of PipeFs.      *)
(*                                                                         *)
(* A system call holds the process's io_context and runs with interrupts   *)
(* off, so it is one step.  Descriptors of other file systems hold the     *)
(* value Elsewhere, and calls on them leave pipes alone.  A slot records,  *)
(* beside the handle it holds, the data that handle was allocated with;    *)
(* only the properties read that.  The checks of user buffers come before  *)
(* any change and are left out: a call that fails them does nothing.       *)
(* Pipes are never unmounted while a process runs.                         *)
(***************************************************************************)
EXTENDS PipeFs

CONSTANT MAX_FILES

ASSUME FilesAssumption == MAX_FILES \in Nat /\ MAX_FILES >= 3

VARIABLES
  files,              \* the slots
  max_allocated_fd,   \* the first slot that was never handed out
  available_fds       \* the stack of slots that were given back

tableVars == <<files, max_allocated_fd, available_fds>>
allVars == <<vars, tableVars>>

Fds == 0 .. MAX_FILES - 1
Empty == [handle |-> "None"]
Elsewhere == [handle |-> "Elsewhere"]
Slot(a, id, m) == [handle |-> a, data |-> [pipe |-> id, mode |-> m]]
OnPipe(s) == s \notin {Empty, Elsewhere}

(* ProcessIOContext::new_with_stdio: kmain passes files of /dev.           *)
TableInit ==
  /\ Init
  /\ files = [fd \in Fds |-> IF fd < 3 THEN Elsewhere ELSE Empty]
  /\ max_allocated_fd = 3
  /\ available_fds = <<>>

(* FileTable::alloc_fd, on the numbers of the table: one more descriptor,  *)
(* or full.                                                                *)
AllocFd(t) ==
  IF t.available # <<>>
  THEN [t EXCEPT !.fds = Append(@, t.available[Len(t.available)]),
                 !.available = SubSeq(@, 1, Len(@) - 1)]
  ELSE IF t.max < MAX_FILES THEN [t EXCEPT !.fds = Append(@, t.max), !.max = @ + 1]
  ELSE [t EXCEPT !.full = TRUE]

Numbers == [fds |-> <<>>, available |-> available_fds, max |-> max_allocated_fd, full |-> FALSE]

(* Variant of Rollback: what was allocated is forgotten.                   *)
RollbackNot(t) == t

(* The failure path of FileTable::alloc_fds, by free_fd.                   *)
Rollback(t) == [t EXCEPT !.available = @ \o t.fds]

(* FileTable::alloc_fds.                                                   *)
AllocFds(n) ==
  LET one == AllocFd(Numbers)
      both == IF one.full \/ n = 1 THEN one ELSE AllocFd(one)
  IN  IF both.full THEN Rollback(both) ELSE both

(* The numbers in use once an allocation of n descriptors came back as t.  *)
Allocated(t) == max_allocated_fd' = t.max /\ available_fds' = t.available

-------------------------------------------------------------------------------
(* linux_sys_pipe: descriptors first, then mkdir0 and the two opens.       *)
SysPipe(r, w) ==
  LET t == AllocFds(2) IN
  /\ Allocated(t)
  /\ \/ /\ t.full
        /\ ret' = Err("EMFILE")
        /\ UNCHANGED <<mounted, next_pipe_id, pipes, pipe, handles, files>>
     \/ /\ ~t.full
        /\ next_pipe_id \in Ids
        /\ r \notin live /\ w \notin live /\ r # w
        /\ next_pipe_id' = next_pipe_id + 1
        /\ pipes' = pipes \cup {next_pipe_id}
        /\ pipe' = [pipe EXCEPT ![next_pipe_id] = Opened(Opened(new_anonymous, "Read"), "Write")]
        /\ handles' = [b \in live \cup {r, w} |->
                         IF b = r THEN [pipe |-> next_pipe_id, mode |-> "Read"]
                         ELSE IF b = w THEN [pipe |-> next_pipe_id, mode |-> "Write"]
                         ELSE handles[b]]
        /\ files' = [files EXCEPT ![t.fds[1]] = Slot(r, next_pipe_id, "Read"),
                                  ![t.fds[2]] = Slot(w, next_pipe_id, "Write")]
        /\ ret' = Done
        /\ UNCHANGED mounted

(* linux_sys_open of /pipes/<id>/r or w.  The file is opened before the    *)
(* checks of O_TRUNC (fseek refuses a pipe) and before a descriptor is     *)
(* found: when these fail the handle stays open.                           *)
SysOpen(id, m, flags, a, trunc) ==
  LET t == AllocFds(1) IN
  /\ flags \cap {"READ", "WRITE"} # {}
  /\ Fopen(id, m, flags, a)
  /\ IF ret'.res = "Ok" /\ ~trunc
     THEN /\ Allocated(t)
          /\ files' = IF t.full THEN files ELSE [files EXCEPT ![t.fds[1]] = Slot(a, id, m)]
     ELSE UNCHANGED tableVars

(* linux_sys_open of a file of another file system.                        *)
SysOpenElsewhere ==
  LET t == AllocFds(1) IN
  /\ Allocated(t)
  /\ files' = IF t.full THEN files ELSE [files EXCEPT ![t.fds[1]] = Elsewhere]
  /\ ret' = IF t.full THEN Err("EMFILE") ELSE Done
  /\ UNCHANGED <<mounted, next_pipe_id, pipes, pipe, handles>>

(* linux_sys_mkdir below /pipes.                                           *)
SysMkdir == next_pipe_id \in Ids /\ CreateChild /\ UNCHANGED tableVars

(* Variant of SysClose: the number is given back, but the slot is kept.    *)
SysCloseKeep(fd) ==
  /\ OnPipe(files[fd])
  /\ Fclose(files[fd].handle)
  /\ available_fds' = Append(available_fds, fd)
  /\ UNCHANGED <<files, max_allocated_fd>>

(* linux_sys_close: the slot keeps the closed handle.                      *)
SysClose(fd) ==
  /\ OnPipe(files[fd])
  /\ Fclose(files[fd].handle)
  /\ UNCHANGED tableVars

SysRead(fd, n) ==
  /\ OnPipe(files[fd])
  /\ Fread(files[fd].handle, n)
  /\ UNCHANGED tableVars

SysWrite(fd, buf) ==
  /\ OnPipe(files[fd])
  /\ Fwrite(files[fd].handle, buf)
  /\ UNCHANGED tableVars

(* linux_sys_lseek: fseek refuses every handle of a pipe.                  *)
SysSeek(fd) ==
  /\ OnPipe(files[fd])
  /\ NotAllowed
  /\ UNCHANGED tableVars

(* A call on a descriptor that is not open, or not of a pipe.              *)
SysOther(fd) ==
  /\ ~OnPipe(files[fd])
  /\ ret' = IF files[fd] = Empty THEN Err("EBADF") ELSE Done
  /\ UNCHANGED <<mounted, next_pipe_id, pipes, pipe, handles, tableVars>>

TableNext ==
  \/ SysOpenElsewhere \/ SysMkdir
  \/ \E r, w \in Addresses : SysPipe(r, w)
  \/ \E a \in Addresses, id \in Ids, m \in Modes, flags \in OpenFlags, trunc \in BOOLEAN :
       SysOpen(id, m, flags, a, trunc)
  \/ \E fd \in Fds :
       \/ SysClose(fd) \/ SysSeek(fd) \/ SysOther(fd)
       \/ \E n \in ReadSizes : SysRead(fd, n)
       \/ \E buf \in Requests : SysWrite(fd, buf)

TableSpec == TableInit /\ [][TableNext]_allVars

-------------------------------------------------------------------------------
(* Every number below max_allocated_fd is either the number of an open     *)
(* descriptor or waiting, once, in available_fds: alloc_fds gives back     *)
(* what it took when the table is full, alloc_fd hands out nothing twice,  *)
(* and no number is lost.                                                  *)
FdsConserved ==
  /\ max_allocated_fd \in 3 .. MAX_FILES
  /\ \A i, j \in 1 .. Len(available_fds) :
       available_fds[i] = available_fds[j] => i = j
  /\ {available_fds[i] : i \in 1 .. Len(available_fds)}
       = {fd \in 0 .. max_allocated_fd - 1 : files[fd] = Empty}
  /\ \A fd \in Fds : fd >= max_allocated_fd => files[fd] = Empty

(* A descriptor is never taken over: whatever pipe and open calls do, an   *)
(* open descriptor keeps the handle it was given.                          *)
NotTakenOver ==
  [][\A fd \in Fds : files[fd] # Empty => files'[fd] = files[fd]]_allVars
===============================================================================
