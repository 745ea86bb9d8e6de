------------------------------- MODULE MCPipe -------------------------------
(* Small instances of Pipe and PipeStream for TLC. *)
EXTENDS PipeStream, TLC

\* Processes, pages and bytes are interchangeable.
PipeSymmetry == Permutations(Proc) \cup Permutations(Pipe) \cup Permutations(Byte)
=============================================================================
