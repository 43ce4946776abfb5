------------------------------ MODULE PipeStream -------------------------------
(***************************************************************************)
(* Two programs joined by a pipe.  The producer writes a message, retrying *)
(* what was not accepted and when it would block, and closes its end.  The *)
(* consumer reads until the end of the stream, or gives up at any moment,  *)
(* and closes its end.  The programs are the environment; every call they  *)
(* make is one of PipeFs.  linux_sys_pipe leaves them in the initial state *)
(* of this module.                                                         *)
(***************************************************************************)
EXTENDS PipeFs

CONSTANTS Message, R, W   \* the bytes to send, the handles of the two ends

ASSUME StreamAssumption ==
  /\ Message \in Seq(Bytes)
  /\ R \in Addresses /\ W \in Addresses /\ R # W
  /\ 0 \in Ids
  /\ ReadSizes \subseteq Nat \ {0}   \* a program does not read into an empty buffer

VARIABLES
  sent,       \* how many bytes of the message were accepted
  got,        \* the bytes the consumer received
  producer,   \* what the programs do
  consumer

streamVars == <<vars, sent, got, producer, consumer>>

StreamInit ==
  /\ mounted = TRUE /\ next_pipe_id = 1 /\ pipes = {0}
  /\ pipe = [id \in Ids |-> IF id = 0
                            THEN [new_anonymous EXCEPT !.readers = 1, !.writers = 1]
                            ELSE new_anonymous]
  /\ handles = [a \in {R, W} |-> [pipe |-> 0, mode |-> IF a = R THEN "Read" ELSE "Write"]]
  /\ ret = Done
  /\ sent = 0 /\ got = <<>>
  /\ producer = "writes" /\ consumer = "reads"

Rest == SubSeq(Message, sent + 1, Len(Message))

Produce ==
  /\ producer = "writes" /\ sent < Len(Message)
  /\ Fwrite(W, Rest)
  /\ sent' = sent + ret'.n
  /\ producer' = IF ret'.res = "BrokenPipe" THEN "broken" ELSE producer
  /\ UNCHANGED <<got, consumer>>

CloseWriter ==
  /\ producer = "broken" \/ (producer = "writes" /\ sent = Len(Message))
  /\ Fclose(W)
  /\ producer' = "done"
  /\ UNCHANGED <<sent, got, consumer>>

Consume ==
  /\ consumer = "reads"
  /\ \E n \in ReadSizes : Fread(R, n)
  /\ got' = got \o ret'.bytes
  /\ consumer' = IF ret'.res = "Ok" /\ ret'.n = 0 THEN "ended" ELSE consumer
  /\ UNCHANGED <<sent, producer>>

GiveUp ==
  /\ consumer = "reads"
  /\ consumer' = "gaveup"
  /\ UNCHANGED <<vars, sent, got, producer>>

CloseReader ==
  /\ consumer \in {"ended", "gaveup"}
  /\ Fclose(R)
  /\ consumer' = IF consumer = "ended" THEN "done" ELSE "left"
  /\ UNCHANGED <<sent, got, producer>>

Finished == producer = "done" /\ consumer \in {"done", "left"} /\ UNCHANGED streamVars

StreamNext == Produce \/ CloseWriter \/ Consume \/ GiveUp \/ CloseReader \/ Finished

(* Each program goes on running; nobody is forced to give up.              *)
StreamSpec ==
  /\ StreamInit /\ [][StreamNext]_streamVars
  /\ WF_streamVars(Produce \/ CloseWriter)
  /\ WF_streamVars(Consume \/ CloseReader)

(* A consumer that does not give up is told of the end of the stream, and  *)
(* only after it has received the whole message.                           *)
Delivered ==
  /\ [](consumer \in {"ended", "done"} => got = Message)
  /\ <>(consumer \in {"gaveup", "left", "done"})

(* The producer is never left retrying for ever against a pipe nobody      *)
(* reads: it sends everything or learns that the pipe is broken; and the   *)
(* last of the two ends to be closed takes the pipe out of the map.        *)
ProducerEnds == <>[](producer = "done" /\ pipes = {} /\ handles = <<>>)
===============================================================================
