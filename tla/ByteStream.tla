----------------------------- MODULE ByteStream -----------------------------
(***************************************************************************)
(* What kernel/pipe.c promises the processes on the two ends of a pipe: a   *)
(* bounded stream of bytes.  Bytes come out in the order they went in, each *)
(* once; they go in only while the write end is open and come out only      *)
(* while the read end is open.  The stream ends when both ends are closed.  *)
(***************************************************************************)
EXTENDS Naturals, Sequences

CONSTANTS Pipe, Byte, NoByte, Capacity

VARIABLES queue,    \* bytes written and not yet read, per pipe
          writers,  \* pipes whose write end is open
          readers,  \* pipes whose read end is open
          out       \* the byte that the last operation on the pipe delivered

bsVars == <<queue, writers, readers, out>>

Init == /\ queue = [s \in Pipe |-> <<>>]
        /\ writers = {}
        /\ readers = {}
        /\ out = [s \in Pipe |-> NoByte]

Open(s) == /\ s \notin writers \cup readers
           /\ queue[s] = <<>>
           /\ writers' = writers \cup {s}
           /\ readers' = readers \cup {s}
           /\ UNCHANGED <<queue, out>>

Put(s, b) == /\ s \in writers
             /\ Len(queue[s]) < Capacity
             /\ queue' = [queue EXCEPT ![s] = Append(@, b)]
             /\ out' = [out EXCEPT ![s] = NoByte]
             /\ UNCHANGED <<writers, readers>>

Get(s) == /\ s \in readers
          /\ queue[s] # <<>>
          /\ out' = [out EXCEPT ![s] = Head(queue[s])]
          /\ queue' = [queue EXCEPT ![s] = Tail(@)]
          /\ UNCHANGED <<writers, readers>>

CloseWrite(s) == /\ s \in writers
                 /\ writers' = writers \ {s}
                 /\ UNCHANGED <<queue, readers, out>>

CloseRead(s) == /\ s \in readers
                /\ readers' = readers \ {s}
                /\ UNCHANGED <<queue, writers, out>>

Discard(s) == /\ s \notin writers \cup readers
              /\ queue' = [queue EXCEPT ![s] = <<>>]
              /\ out' = [out EXCEPT ![s] = NoByte]
              /\ UNCHANGED <<writers, readers>>

Next == \E s \in Pipe : \/ Open(s) \/ Get(s) \/ CloseWrite(s) \/ CloseRead(s)
                        \/ Discard(s)
                        \/ \E b \in Byte : Put(s, b)

Spec == Init /\ [][Next]_bsVars
=============================================================================
