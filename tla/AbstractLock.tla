---------------------------- MODULE AbstractLock ----------------------------
(***************************************************************************)
(* What compiler_cache_lock promises its callers, with nothing about files *)
(* or descriptors: at most one cooperating task is inside at a time, and a *)
(* task that is inside leaves by its own step (or by dying).               *)
(***************************************************************************)
CONSTANT Task

VARIABLE inside     \* the tasks running the body of the "with" statement

Init == inside = {}

Enter(t) ==
  /\ inside = {}
  /\ inside' = {t}

Leave(t) ==
  /\ inside = {t}
  /\ inside' = {}

Next == \E t \in Task : Enter(t) \/ Leave(t)

Spec == Init /\ [][Next]_inside
=============================================================================
