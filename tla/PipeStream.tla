----------------------------- MODULE PipeStream -----------------------------
(***************************************************************************)
(* The pipes of Pipe implement the byte streams of ByteStream: the bytes    *)
(* of kernel/pipe.c's ring buffer from nread up to nwrite are the stream.   *)
(***************************************************************************)
EXTENDS Pipe

Contents(s) ==
    IF pipe[s].alloc = 1
    THEN [i \in 1 .. (pipe[s].nwrite - pipe[s].nread) % UINT |->
            pipe[s].data[((pipe[s].nread + i - 1) % UINT) % PIPESIZE]]
    ELSE <<>>

Stream == INSTANCE ByteStream WITH
    Capacity <- PIPESIZE,
    queue <- [s \in Pipe |-> Contents(s)],
    writers <- {s \in Pipe : pipe[s].alloc = 1 /\ pipe[s].writeopen = 1},
    readers <- {s \in Pipe : pipe[s].alloc = 1 /\ pipe[s].readopen = 1}

\* Pipes are byte streams: what piperead() copies out is what pipewrite() put in, in
\* order and once, also when the counters wrap around and the buffer is full, and
\* nothing goes in or comes out after the end has been closed.
StreamSpec == Stream!Spec
=============================================================================
