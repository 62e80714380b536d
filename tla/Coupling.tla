------------------------------- MODULE Coupling -------------------------------
(***************************************************************************)
(* Coupling (common/src/packet_flow_tasks.cpp): a task that copies bytes   *)
(* from one stream to another through a buffer of its own.  The            *)
(* destination is a stream buffer: when the timeout of a write ends with   *)
(* some room it takes what fits, and the task writes the rest.             *)
(***************************************************************************)
EXTENDS Naturals, Sequences

CONSTANTS
  BufSize,      \* sizeof(buf)
  DstSize       \* size of the destination's buffer

VARIABLES
  src,          \* bytes in the source
  buf, written, \* the chunk, and how much of it was written
  dst           \* bytes in the destination

couplingVars == <<src, buf, written, dst>>

Init == src = <<>> /\ buf = <<>> /\ written = 0 /\ dst = <<>>

Smaller(a, b) == IF a <= b THEN a ELSE b

\* util.read, once there is something
Read ==
  /\ written = Len(buf)
  /\ src # <<>>
  /\ LET len == Smaller(BufSize, Len(src)) IN
       /\ buf' = SubSeq(src, 1, len)
       /\ src' = SubSeq(src, len + 1, Len(src))
  /\ written' = 0
  /\ UNCHANGED dst

\* util.write(dst, buf + written, len - written): all of it if there is room, or
\* else what fits when the timeout ends.  With no room at all it is retried.
Write ==
  /\ written < Len(buf)
  /\ Len(dst) < DstSize
  /\ LET k == Smaller(Len(buf) - written, DstSize - Len(dst)) IN
       /\ dst' = dst \o SubSeq(buf, written + 1, written + k)
       /\ written' = written + k
  /\ UNCHANGED <<src, buf>>

func == Read \/ Write

Unwritten == SubSeq(buf, written + 1, Len(buf))
===============================================================================
