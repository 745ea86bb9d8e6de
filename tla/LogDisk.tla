------------------------------ MODULE LogDisk ------------------------------
(***************************************************************************)
(* The log of Log implements the atomic disk of AtomicDisk.  What would be  *)
(* on the disk after recovery is the durable contents, and what the calls   *)
(* see in the cache is the current contents.                                *)
(***************************************************************************)
EXTENDS LogInv

\* What calls see, or will see once recovery has run.
Current == IF boot = "up" THEN Contents ELSE Recovered

AD == INSTANCE AtomicDisk WITH
        durable <- Recovered, current <- Current, active <- Active

\* Group commit is atomic under crashes, recovery and interleaved calls: the
\* log implements AtomicDisk.
AtomicDiskSpec == AD!Spec
=============================================================================
