----------------------------- MODULE ByteQueue -----------------------------
(***************************************************************************)
(* What a pipe promises: a bounded first-in first-out queue of bytes, each *)
(* delivered once and in order.                                            *)
(***************************************************************************)
EXTENDS Integers, Sequences

CONSTANTS Bytes, Capacity, None

VARIABLES
  q,     \* the bytes written and not yet read
  got    \* the last byte delivered

queueVars == <<q, got>>

Put(v) == Len(q) < Capacity /\ q' = Append(q, v) /\ UNCHANGED got

Get == q # <<>> /\ got' = Head(q) /\ q' = Tail(q)

QueueInit == q = <<>> /\ got = None

QueueNext == Get \/ \E v \in Bytes : Put(v)

QueueSpec == QueueInit /\ [][QueueNext]_queueVars
=============================================================================
