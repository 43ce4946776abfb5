------------------------------- MODULE PipeQueue -------------------------------
(***************************************************************************)
(* What a pipe promises, without its ring buffer, its counters and the     *)
(* file system's tables: a bounded first-in first-out queue of bytes with  *)
(* a set of open read ends and a set of open write ends.  When the last    *)
(* end of a side is closed the pipe hangs up, for good.                    *)
(***************************************************************************)
EXTENDS Integers, Sequences

CONSTANTS Capacity, Ids, Ends, Requests, ReadSizes

VARIABLES
  queue,    \* the bytes in each pipe, oldest first
  ends,     \* the open ends of each pipe, by mode
  hungup,   \* the pipes that lost all the ends of a side
  reply     \* the outcome of the last call, with the bytes read or accepted

vars == <<queue, ends, hungup, reply>>

Modes == {"Read", "Write"}
Least(a, b) == IF a <= b THEN a ELSE b

Answer(id, res, n, bytes) == [id |-> id, res |-> res, n |-> n, bytes |-> bytes]
Refuse == \E e \in {"BadHandle", "InvalidOpenMode", "FileAlreadyExists", "PathNotFound",
                    "ActionNotAllowed", "FileSystemMismatch"} :
            reply' = Answer(-1, e, 0, <<>>)

Init ==
  /\ queue = [id \in Ids |-> <<>>]
  /\ ends = [id \in Ids |-> [m \in Modes |-> {}]]
  /\ hungup = {}
  /\ reply = Answer(-1, "Ok", 0, <<>>)

(* A call that is refused, or that only names a pipe, changes nothing.     *)
Quiet ==
  /\ Refuse \/ reply' = Answer(-1, "Ok", 0, <<>>)
  /\ UNCHANGED <<queue, ends, hungup>>

Open(id, m, e) ==
  /\ id \notin hungup
  /\ e \notin ends[id][m]
  /\ ends' = [ends EXCEPT ![id][m] = @ \cup {e}]
  /\ reply' = Answer(id, "Ok", 0, <<>>)
  /\ UNCHANGED <<queue, hungup>>

Close(id, m, e) ==
  /\ e \in ends[id][m]
  /\ ends' = [ends EXCEPT ![id][m] = @ \ {e}]
  /\ hungup' = IF ends[id][m] = {e} THEN hungup \cup {id} ELSE hungup
  /\ reply' = Answer(id, "Ok", 0, <<>>)
  /\ UNCHANGED queue

Read(id, e, n) ==
  LET k == Least(n, Len(queue[id])) IN
  /\ e \in ends[id]["Read"]
  /\ \/ /\ queue[id] # <<>>
        /\ reply' = Answer(id, "Ok", k, SubSeq(queue[id], 1, k))
        /\ queue' = [queue EXCEPT ![id] = SubSeq(@, k + 1, Len(@))]
     \/ /\ queue[id] = <<>> /\ id \notin hungup
        /\ reply' = Answer(id, "WouldBlock", 0, <<>>)
        /\ UNCHANGED queue
     \/ /\ queue[id] = <<>> /\ ends[id]["Write"] = {} /\ id \in hungup
        /\ reply' = Answer(id, "Ok", 0, <<>>)
        /\ UNCHANGED queue
  /\ UNCHANGED <<ends, hungup>>

Write(id, e, buf) ==
  LET k == Least(Len(buf), Capacity - Len(queue[id])) IN
  /\ e \in ends[id]["Write"]
  /\ \/ /\ ends[id]["Read"] = {}
        /\ reply' = Answer(id, "BrokenPipe", 0, <<>>)
        /\ UNCHANGED queue
     \/ /\ ends[id]["Read"] # {} /\ Len(queue[id]) = Capacity
        /\ reply' = Answer(id, "WouldBlock", 0, <<>>)
        /\ UNCHANGED queue
     \/ /\ ends[id]["Read"] # {} /\ Len(queue[id]) < Capacity
        /\ reply' = Answer(id, "Ok", k, SubSeq(buf, 1, k))
        /\ queue' = [queue EXCEPT ![id] = @ \o SubSeq(buf, 1, k)]
  /\ UNCHANGED <<ends, hungup>>

(* The file system goes away with every end still open.                    *)
Shutdown ==
  /\ ends' = [id \in Ids |-> [m \in Modes |-> {}]]
  /\ reply' = Answer(-1, "Ok", 0, <<>>)
  /\ UNCHANGED <<queue, hungup>>

Next ==
  \/ Quiet \/ Shutdown
  \/ \E id \in Ids, e \in Ends :
       \/ \E m \in Modes : Open(id, m, e) \/ Close(id, m, e)
       \/ \E n \in ReadSizes : Read(id, e, n)
       \/ \E buf \in Requests : Write(id, e, buf)

Spec == Init /\ [][Next]_vars
===============================================================================
