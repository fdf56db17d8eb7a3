---------------------------- MODULE MCScheduler ----------------------------
(***************************************************************************)
(* Scheduler.cfg: two UDP peers; the first has rebinding and loses its     *)
(* path, the second only a session timeout, and stops and comes back; its  *)
(* packets are handled during ticks too.  Timeouts are one tick longer     *)
(* than the keepalives, so that a probe can run before them, and a session *)
(* is renewed and rejected after them, as with the code's times.           *)
(* SchedulerPath.cfg: the one peer of the README's example, 25 and 90      *)
(* seconds in units of about 30, sessions of 120 and 180 seconds.          *)
(***************************************************************************)
EXTENDS Scheduler

CONSTANTS a, b

Two == <<a, b>>
Keepalives == [p \in Peer |-> IF p = a THEN 1 ELSE 2]
FirstOnly == [p \in Peer |-> IF p = a THEN 2 ELSE 0]
TwoAndThree == [p \in Peer |-> IF p = a THEN 2 ELSE 3]

One == <<a>>
Ones == [p \in Peer |-> 1]
Threes == [p \in Peer |-> 3]
============================================================================
