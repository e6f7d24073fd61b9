------------------------------- MODULE KeyLock -------------------------------
(***************************************************************************)
(* withKeyLock() of packages/proxy/src/session-keys.ts for one key: the    *)
(* mutex is a chain of promises.  Each call awaits the segment that was    *)
(* the tail when it arrived, runs fn, and releases its own segment; the    *)
(* map keeps the last segment only, and drops it when nobody chained on.   *)
(* Keys share nothing, so one key is the whole of it.  A caller is one     *)
(* call; ticket and issued record the order of arrival (the code has no    *)
(* such counter: only the properties and FifoLock speak of it).            *)
(***************************************************************************)
EXTENDS Naturals

CONSTANTS
    Callers,
    None      \* no segment: keyLocks.get(key) is undefined

ASSUME NoneAssumption == None \notin Callers

VARIABLES
    stage,    \* "out", "waiting" (await prev), "running" (fn), "released"
    prev,     \* whose segment the caller awaits, None for Promise.resolve()
    tail,     \* whose segment keyLocks holds, None if it has no entry
    ticket,
    issued

lockVars == <<stage, prev, tail, ticket, issued>>

Stages == {"out", "waiting", "running", "released"}

(* Types of all the variables; no call awaits its own segment.             *)
TypeOK ==
    /\ stage \in [Callers -> Stages]
    /\ prev \in [Callers -> Callers \cup {None}]
    /\ \A c \in Callers : prev[c] # c
    /\ tail \in Callers \cup {None}
    /\ ticket \in [Callers -> Nat]
    /\ issued \in Nat

Init ==
    /\ stage = [c \in Callers |-> "out"]
    /\ prev = [c \in Callers |-> None]
    /\ tail = None
    /\ ticket = [c \in Callers |-> 0]
    /\ issued = 0

\* Faulty variants, for the mutation checks, precede what they replace.

FaultyArriveBehindItself(c) ==
    /\ stage[c] = "out"
    /\ stage' = [stage EXCEPT ![c] = "waiting"]
    /\ prev' = [prev EXCEPT ![c] = c]
    /\ tail' = c
    /\ issued' = issued + 1
    /\ ticket' = [ticket EXCEPT ![c] = issued + 1]

\* The synchronous part of the call: take the tail, become the tail
Arrive(c) ==
    /\ stage[c] = "out"
    /\ stage' = [stage EXCEPT ![c] = "waiting"]
    /\ prev' = [prev EXCEPT ![c] = tail]
    /\ tail' = c
    /\ issued' = issued + 1
    /\ ticket' = [ticket EXCEPT ![c] = issued + 1]

FaultySettled(p) == TRUE

\* The segment tail(p) = prev(p).then(() => mine(p)) has resolved: p awaited
\* its own predecessor before it could release
Settled(p) == p # None => stage[p] = "released"

\* await prev returns, fn starts
Enter(c) ==
    /\ stage[c] = "waiting"
    /\ Settled(prev[c])
    /\ stage' = [stage EXCEPT ![c] = "running"]
    /\ UNCHANGED <<prev, tail, ticket, issued>>

FaultyReleaseDropsTail(c) ==
    /\ stage[c] = "running"
    /\ stage' = [stage EXCEPT ![c] = "released"]
    /\ tail' = None
    /\ UNCHANGED <<prev, ticket, issued>>

FaultyReleaseKeepsTail(c) ==
    /\ stage[c] = "running"
    /\ stage' = [stage EXCEPT ![c] = "released"]
    /\ UNCHANGED <<prev, tail, ticket, issued>>

\* fn settled, either way: the finally block
Release(c) ==
    /\ stage[c] = "running"
    /\ stage' = [stage EXCEPT ![c] = "released"]
    /\ tail' = IF tail = c THEN None ELSE tail
    /\ UNCHANGED <<prev, ticket, issued>>

Next == \E c \in Callers : Arrive(c) \/ Enter(c) \/ Release(c)

Spec == Init /\ [][Next]_lockVars

\* A promise that resolved resumes its awaiters, and every fn settles (what
\* /connect runs as fn may not: see KeyedConnect)
FairSpec ==
    /\ Spec
    /\ \A c \in Callers : WF_lockVars(Enter(c)) /\ WF_lockVars(Release(c))

-----------------------------------------------------------------------------
(* Two calls for a key never run at once, whatever arrives while one runs  *)
(* and however arrivals fall between another's release and its successor.  *)
Exclusive ==
    \A c, d \in Callers : stage[c] = "running" /\ stage[d] = "running" => c = d

(* The map has an entry for the key exactly while a call is waiting or     *)
(* running: "idle keys don't accumulate", and a busy key is never dropped. *)
EntryWhileBusy ==
    tail # None <=> \E c \in Callers : stage[c] \in {"waiting", "running"}

\* The abstract lock, over the same callers and the same order of arrival
Fifo == INSTANCE FifoLock WITH stage <- stage, ticket <- ticket, issued <- issued

(* The chain grants the lock in the order of arrival. *)
ImplementsFifo == Fifo!Spec

(* When every fn settles, every call that waits is served. *)
EachIsServed == \A c \in Callers : stage[c] = "waiting" ~> stage[c] = "released"
=============================================================================
