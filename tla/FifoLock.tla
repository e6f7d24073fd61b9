------------------------------ MODULE FifoLock ------------------------------
(***************************************************************************)
(* What a per-key lock promises its callers: they hold it one at a time,   *)
(* in the order in which they asked.  A caller asks once; a ticket is its  *)
(* place in that order.  KeyLock implements this with a chain of promises. *)
(***************************************************************************)
EXTENDS Naturals

CONSTANT Callers

VARIABLES
    stage,   \* "out", "waiting", "running" (holds the lock), "released"
    ticket,  \* the caller's place in the order of arrival, 0 before it asks
    issued   \* tickets given so far

Init ==
    /\ stage = [c \in Callers |-> "out"]
    /\ ticket = [c \in Callers |-> 0]
    /\ issued = 0

Earlier(d, c) == 0 < ticket[d] /\ ticket[d] < ticket[c]

Ask(c) ==
    /\ stage[c] = "out"
    /\ stage' = [stage EXCEPT ![c] = "waiting"]
    /\ issued' = issued + 1
    /\ ticket' = [ticket EXCEPT ![c] = issued + 1]

Acquire(c) ==
    /\ stage[c] = "waiting"
    /\ \A d \in Callers : Earlier(d, c) => stage[d] = "released"
    /\ stage' = [stage EXCEPT ![c] = "running"]
    /\ UNCHANGED <<ticket, issued>>

GiveBack(c) ==
    /\ stage[c] = "running"
    /\ stage' = [stage EXCEPT ![c] = "released"]
    /\ UNCHANGED <<ticket, issued>>

Next == \E c \in Callers : Ask(c) \/ Acquire(c) \/ GiveBack(c)

Spec == Init /\ [][Next]_<<stage, ticket, issued>>
=============================================================================
