----------------------------- MODULE MCPipeStream ------------------------------
(* A message longer than the pipe, sent through it in pieces.              *)
EXTENDS PipeStream

CONSTANTS a1, a2

MCMessage == <<1, 0, 1, 1, 0>>
===============================================================================
