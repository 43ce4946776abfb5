-------------------------------- MODULE PipeFs ---------------------------------
(***************************************************************************)
(* Pipes: drivers/fs/virt/pipefs.rs, with the FileHandleAllocator of       *)
(* drivers/vfs.rs.  One action per method of the file system; every method *)
(* runs under the file system's lock, so it is one step.                   *)
(*                                                                         *)
(* A handle is the heap address of its data, so an address that was freed  *)
(* may come back as another handle.  A Pipe object outlives its entry in   *)
(* the map while a handle holds it; `pipe' keeps it for ever, which no     *)
(* operation can tell.  Timestamps, names and statistics are left out.     *)
(***************************************************************************)
EXTENDS Integers, Sequences, FiniteSets

CONSTANTS
  Capacity,    \* the size of a pipe's buffer, 64 KiB in create_child
  Bytes,       \* the values of a byte
  Ids,         \* the pipe ids, a bound on next_pipe_id
  Addresses,   \* the heap addresses handles are allocated at, a bound on them
  OpenFlags,   \* the combinations of flags that files are opened with
  Requests,    \* the buffers that are written
  ReadSizes    \* the lengths of the buffers that are read into

ASSUME PipeAssumption ==
  /\ Capacity \in Nat \ {0}
  /\ 0 \in Bytes
  /\ Ids \subseteq Nat
  /\ IsFiniteSet(Addresses)
  /\ OpenFlags \subseteq SUBSET {"READ", "WRITE", "APPEND", "CREATE", "FAIL_IF_EXISTS"}
  /\ Requests \subseteq Seq(Bytes)
  /\ ReadSizes \subseteq Nat

VARIABLES
  mounted,       \* os_id is the one given by on_mount
  next_pipe_id,
  pipes,         \* the ids in the map
  pipe,          \* the Pipe object of every id
  handles,       \* the data of every live handle
  ret            \* history: the outcome of the last call

vars == <<mounted, next_pipe_id, pipes, pipe, handles, ret>>

Modes == {"Read", "Write"}
Positions == 0 .. Capacity - 1
PipeFsHandle == [pipe : Ids, mode : Modes]

Min(a, b) == IF a <= b THEN a ELSE b

(* Pipe::new_anonymous.                                                    *)
new_anonymous ==
  [data |-> [i \in Positions |-> 0], data_len |-> 0, write_pos |-> 0, read_pos |-> 0,
   readers |-> 0, writers |-> 0, closed |-> FALSE]

(* The outcome of a call: the pipe, the result, the length it returns, and *)
(* the bytes that were read or that the caller was told were written.      *)
Outcome(id, res, n, bytes) == [id |-> id, res |-> res, n |-> n, bytes |-> bytes]
Done == Outcome(-1, "Ok", 0, <<>>)
Err(e) == Outcome(-1, e, 0, <<>>)

live == DOMAIN handles
Held(id, m) == {a \in live : handles[a] = [pipe |-> id, mode |-> m]}

-------------------------------------------------------------------------------
(* The ring buffer.                                                        *)
readable_bytes(p) == p.data_len
writable_bytes(p) == Capacity - p.data_len
is_empty(p) == p.data_len = 0
is_full(p) == p.data_len >= Capacity

(* The position after n bytes were copied from pos on, in one or two       *)
(* pieces.                                                                 *)
Advance(pos, n) ==
  IF n > Capacity - pos THEN n - (Capacity - pos) ELSE (pos + n) % Capacity

(* The position of the i-th byte, from 1, of a copy that starts at pos.    *)
At(pos, i) == IF i <= Capacity - pos THEN pos + i - 1 ELSE i - (Capacity - pos) - 1

(* Pipe::read: the bytes that are copied out, and the pipe afterwards.     *)
Taken(p, n) == [i \in 1 .. n |-> p.data[At(p.read_pos, i)]]
ReadN(p, n) ==
  [p EXCEPT !.read_pos = Advance(p.read_pos, n), !.data_len = @ - n]

(* Variant of Stored: the second piece is copied from the buffer's start.  *)
StoredAgain(p, buf, n) ==
  [j \in Positions |->
     IF j >= p.write_pos /\ j - p.write_pos < n THEN buf[j - p.write_pos + 1]
     ELSE IF j < p.write_pos /\ j < n - (Capacity - p.write_pos) THEN buf[j + 1]
     ELSE p.data[j]]

(* Pipe::write: the buffer after the first n bytes of buf were copied in.  *)
Stored(p, buf, n) ==
  [j \in Positions |->
     IF j >= p.write_pos /\ j - p.write_pos < n THEN buf[j - p.write_pos + 1]
     ELSE IF j < p.write_pos /\ j < n - (Capacity - p.write_pos)
          THEN buf[Capacity - p.write_pos + j + 1]
     ELSE p.data[j]]
WriteN(p, buf, n) ==
  [p EXCEPT !.data = Stored(p, buf, n),
            !.write_pos = Advance(p.write_pos, n), !.data_len = @ + n]

-------------------------------------------------------------------------------
(* The methods.                                                            *)
Init ==
  /\ mounted = TRUE
  /\ next_pipe_id = 0
  /\ pipes = {}
  /\ pipe = [id \in Ids |-> new_anonymous]
  /\ handles = [a \in {} |-> [pipe |-> 0, mode |-> "Read"]]
  /\ ret = Done

Fails(e) ==
  /\ ret' = Err(e)
  /\ UNCHANGED <<mounted, next_pipe_id, pipes, pipe, handles>>

(* create_child in the root directory.                                     *)
CreateChild ==
  \/ /\ ~mounted
     /\ Fails("FileSystemMismatch")
  \/ /\ mounted
     /\ next_pipe_id \in Ids
     /\ next_pipe_id' = next_pipe_id + 1
     /\ pipes' = pipes \cup {next_pipe_id}
     /\ pipe' = [pipe EXCEPT ![next_pipe_id] = new_anonymous]
     /\ ret' = Done
     /\ UNCHANGED <<mounted, handles>>

(* create_child below a pipe's directory, delete_file, fseek, ftruncate.   *)
NotAllowed == Fails("ActionNotAllowed")

Count(m) == IF m = "Read" THEN "readers" ELSE "writers"
Other(m) == IF m = "Read" THEN "writers" ELSE "readers"

ModeFits(m, flags) ==
  IF m = "Read" THEN "READ" \in flags /\ flags \cap {"WRITE", "APPEND", "CREATE"} = {}
                ELSE "WRITE" \in flags /\ flags \cap {"READ", "APPEND", "CREATE"} = {}

MayOpen(id) == id \in pipes /\ ~pipe[id].closed

(* Variant of Opened: only the other side is counted.                      *)
OpenedOther(p, m) == [p EXCEPT ![Other(m)] = @ + 1]
Opened(p, m) == [p EXCEPT ![Count(m)] = @ + 1]

NewHandle(id, m, a) ==
  handles' = [b \in live \cup {a} |-> IF b = a THEN [pipe |-> id, mode |-> m] ELSE handles[b]]

(* fopen of the entry r or w of a pipe that existed when it was looked up. *)
Fopen(id, m, flags, a) ==
  /\ id \in 0 .. next_pipe_id - 1
  /\ \/ ~mounted /\ Fails("FileSystemMismatch")
     \/ mounted /\ ~ModeFits(m, flags) /\ Fails("InvalidOpenMode")
     \/ mounted /\ ModeFits(m, flags) /\ "FAIL_IF_EXISTS" \in flags /\ Fails("FileAlreadyExists")
     \/ /\ mounted /\ ModeFits(m, flags) /\ "FAIL_IF_EXISTS" \notin flags
        /\ \/ ~MayOpen(id) /\ Fails("PathNotFound")
           \/ /\ MayOpen(id)
              /\ a \notin live
              /\ pipe' = [pipe EXCEPT ![id] = Opened(@, m)]
              /\ NewHandle(id, m, a)
              /\ ret' = Outcome(id, "Ok", 0, <<>>)
              /\ UNCHANGED <<mounted, next_pipe_id, pipes>>

(* Variant of Closed: the pipe hangs up only when both sides are gone.     *)
ClosedBoth(p, m) ==
  [p EXCEPT ![Count(m)] = @ - 1, !.closed = @ \/ (p[Count(m)] = 1 /\ p[Other(m)] = 0)]

(* The pipe once an end of mode m was closed.                              *)
Closed(p, m) == [p EXCEPT ![Count(m)] = @ - 1, !.closed = @ \/ p[Count(m)] = 1]

Unused(p, m) == p[Count(m)] = 1 /\ p[Other(m)] = 0

(* FileHandleAllocator::dealloc_file_handle.                               *)
Freed(a) == handles' = [b \in live \ {a} |-> handles[b]]

Fclose(a) ==
  \/ a \notin live /\ Fails("BadHandle")
  \/ /\ a \in live
     /\ LET id == handles[a].pipe
            m == handles[a].mode
        IN  /\ pipe' = [pipe EXCEPT ![id] = Closed(@, m)]
            /\ pipes' = IF Unused(pipe[id], m) THEN pipes \ {id} ELSE pipes
            /\ ret' = Outcome(id, "Ok", 0, <<>>)
     /\ Freed(a)
     /\ UNCHANGED <<mounted, next_pipe_id>>

FreadFrom(id, n) ==
  LET p == pipe[id]
      to_read == Min(readable_bytes(p), n)
  IN  /\ \/ /\ is_empty(p) /\ p.closed
            /\ ret' = Outcome(id, "Ok", 0, <<>>)
            /\ UNCHANGED pipe
         \/ /\ is_empty(p) /\ ~p.closed
            /\ ret' = Outcome(id, "WouldBlock", 0, <<>>)
            /\ UNCHANGED pipe
         \/ /\ ~is_empty(p)
            /\ ret' = Outcome(id, "Ok", to_read, Taken(p, to_read))
            /\ pipe' = [pipe EXCEPT ![id] = ReadN(p, to_read)]
      /\ UNCHANGED <<mounted, next_pipe_id, pipes, handles>>

Fread(a, n) ==
  \/ a \notin live /\ Fails("BadHandle")
  \/ a \in live /\ handles[a].mode # "Read" /\ Fails("ActionNotAllowed")
  \/ a \in live /\ handles[a].mode = "Read" /\ FreadFrom(handles[a].pipe, n)

(* Variant of Broken: nobody looks for readers.                            *)
BrokenNot(p) == FALSE
Broken(p) == p.readers = 0

FwriteTo(id, buf) ==
  LET p == pipe[id]
      to_write == Min(writable_bytes(p), Len(buf))
  IN  /\ \/ /\ Broken(p)
            /\ ret' = Outcome(id, "BrokenPipe", 0, <<>>)
            /\ UNCHANGED pipe
         \/ /\ ~Broken(p) /\ is_full(p)
            /\ ret' = Outcome(id, "WouldBlock", 0, <<>>)
            /\ UNCHANGED pipe
         \/ /\ ~Broken(p) /\ ~is_full(p)
            /\ ret' = Outcome(id, "Ok", to_write, SubSeq(buf, 1, to_write))
            /\ pipe' = [pipe EXCEPT ![id] = WriteN(p, buf, to_write)]
      /\ UNCHANGED <<mounted, next_pipe_id, pipes, handles>>

Fwrite(a, buf) ==
  \/ a \notin live /\ Fails("BadHandle")
  \/ a \in live /\ handles[a].mode # "Write" /\ Fails("ActionNotAllowed")
  \/ a \in live /\ handles[a].mode = "Write" /\ FwriteTo(handles[a].pipe, buf)

(* fflush and fsync only look the handle up.                               *)
Fflush(a) ==
  /\ ret' = IF a \in live THEN Done ELSE Err("BadHandle")
  /\ UNCHANGED <<mounted, next_pipe_id, pipes, pipe, handles>>

(* on_pre_unmount and on_unmount: every handle is freed, the pipes stay.   *)
Unmount ==
  /\ mounted
  /\ mounted' = FALSE
  /\ handles' = [a \in {} |-> [pipe |-> 0, mode |-> "Read"]]
  /\ ret' = Done
  /\ UNCHANGED <<next_pipe_id, pipes, pipe>>

Next ==
  \/ CreateChild \/ NotAllowed \/ Unmount
  \/ \E a \in Addresses :
       \/ \E id \in Ids, m \in Modes, flags \in OpenFlags : Fopen(id, m, flags, a)
       \/ Fclose(a) \/ Fflush(a)
       \/ \E n \in ReadSizes : Fread(a, n)
       \/ \E buf \in Requests : Fwrite(a, buf)

Spec == Init /\ [][Next]_vars

-------------------------------------------------------------------------------
(* readers and writers, by which fclose decides that a pipe hangs up and   *)
(* fwrite that it is broken, are the numbers of live handles of each mode, *)
(* however handles are opened by path, closed and their addresses reused;  *)
(* and the map holds exactly the pipes that can still be opened or have an *)
(* end open: fclose removes a pipe with its last handle, and never one     *)
(* that a handle still refers to.                                          *)
CountsExact ==
  mounted => \A id \in Ids :
    /\ pipe[id].readers = Cardinality(Held(id, "Read"))
    /\ pipe[id].writers = Cardinality(Held(id, "Write"))
    /\ id \in pipes <=>
         /\ id < next_pipe_id
         /\ ~pipe[id].closed \/ Held(id, "Read") \cup Held(id, "Write") # {}

-------------------------------------------------------------------------------
(* The contents of a pipe, oldest byte first.                              *)
Contents(p) == [i \in 1 .. p.data_len |-> p.data[(p.read_pos + i - 1) % Capacity]]

Queue == INSTANCE PipeQueue WITH
  Ends   <- Addresses,
  queue  <- [id \in Ids |-> Contents(pipe[id])],
  ends   <- [id \in Ids |-> [m \in Modes |-> Held(id, m)]],
  hungup <- {id \in Ids : pipe[id].closed},
  reply  <- ret

(* Every call behaves like a call on a bounded queue of bytes: what fread  *)
(* returns is what was written, in order, each byte once; end of stream is *)
(* reported only when the last writer has gone and the queue is empty.     *)
RefinesQueue == Queue!Spec

-------------------------------------------------------------------------------
(* The inductive invariant behind both: the types,                         *)
PipeType ==
  [data : [Positions -> Bytes], data_len : 0 .. Capacity, write_pos : Positions,
   read_pos : Positions, readers : Int, writers : Int, closed : BOOLEAN]

TypeOK ==
  /\ mounted \in BOOLEAN
  /\ next_pipe_id \in Nat
  /\ pipes \subseteq Ids
  /\ pipe \in [Ids -> PipeType]
  /\ live \subseteq Addresses
  /\ handles \in [live -> PipeFsHandle]

(* that bytes are appended where the contents of the ring buffer end,      *)
RingsClosed ==
  \A id \in Ids : pipe[id].write_pos = (pipe[id].read_pos + pipe[id].data_len) % Capacity

(* that a handle is of a pipe that was created, on the file system that is *)
(* mounted, and a pipe that was not created yet is as it will be,          *)
HandlesCreated ==
  /\ ~mounted => live = {}
  /\ \A a \in live : handles[a].pipe < next_pipe_id
  /\ \A id \in Ids : id >= next_pipe_id => pipe[id] = new_anonymous

(* and that a pipe that hung up has lost a side.                           *)
HungUpLostSide ==
  \A id \in Ids : pipe[id].closed => Held(id, "Read") = {} \/ Held(id, "Write") = {}

IInv == TypeOK /\ RingsClosed /\ HandlesCreated /\ HungUpLostSide /\ CountsExact
===============================================================================
