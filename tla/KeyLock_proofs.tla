--------------------------- MODULE KeyLock_proofs ---------------------------
(***************************************************************************)
(* The promise chain is a first-come first-served mutex, for every set of  *)
(* callers.  The argument: a caller that entered has every earlier caller  *)
(* behind it (all released), because the segment it awaited belongs to the *)
(* caller just before it, which had entered in its turn, or there was no   *)
(* segment, and then the map was empty because all had released.           *)
(***************************************************************************)
EXTENDS KeyLock, TLAPS

Earlier(d, c) == 0 < ticket[d] /\ ticket[d] < ticket[c]
AllEarlierReleased(c) == \A d \in Callers : Earlier(d, c) => stage[d] = "released"

\* Tickets number the calls that arrived, in their order
TicketInv ==
    /\ \A c \in Callers : ticket[c] <= issued
    /\ \A c \in Callers : stage[c] = "out" <=> ticket[c] = 0
    /\ \A c, d \in Callers : ticket[c] = ticket[d] /\ ticket[c] > 0 => c = d

\* Whose segment a call awaits, and who has had his turn
ChainInv ==
    /\ \A c \in Callers : stage[c] # "out" /\ prev[c] = None => AllEarlierReleased(c)
    /\ \A c \in Callers : stage[c] # "out" /\ prev[c] # None =>
          ticket[prev[c]] > 0 /\ ticket[c] = ticket[prev[c]] + 1
    /\ \A c \in Callers : stage[c] \in {"running", "released"} => AllEarlierReleased(c)

\* The map holds the last arrival, or nothing when nobody is left
TailInv ==
    /\ tail = None => \A c \in Callers : stage[c] \in {"out", "released"}
    /\ tail # None => stage[tail] \in {"waiting", "running"} /\ ticket[tail] = issued

LockInv == TypeOK /\ TicketInv /\ ChainInv /\ TailInv

LEMMA InitLock == Init => LockInv
BY NoneAssumption DEF NoneAssumption, Init, LockInv, TypeOK, Stages, TicketInv, ChainInv, TailInv,
   AllEarlierReleased, Earlier

LEMMA NextLock == LockInv /\ [Next]_lockVars => LockInv'
<1> SUFFICES ASSUME LockInv, [Next]_lockVars PROVE LockInv'
  OBVIOUS
<1> USE NoneAssumption DEF NoneAssumption, LockInv, TypeOK, Stages
<1>1. ASSUME NEW c \in Callers, Arrive(c) PROVE LockInv'
  <2> USE <1>1 DEF Arrive
  <2>1. TypeOK'
    <3>1. tail # c
      BY DEF TailInv
    <3> QED
      BY <3>1
  <2>2. ticket[c] = 0 /\ ticket'[c] = issued + 1 /\ issued' = issued + 1
        /\ \A d \in Callers : d # c => ticket'[d] = ticket[d] /\ stage'[d] = stage[d] /\ prev'[d] = prev[d]
    BY DEF TicketInv
  <2>3. TicketInv'
    BY <2>1, <2>2 DEF TicketInv
  <2>4. ASSUME NEW d \in Callers, AllEarlierReleased(d), d # c PROVE AllEarlierReleased(d)'
    BY <2>2, <2>4 DEF AllEarlierReleased, Earlier, TicketInv
  <2>5. tail = None => AllEarlierReleased(c)'
    BY <2>2 DEF AllEarlierReleased, Earlier, TailInv, TicketInv
  <2>6. tail # None => tail # c /\ ticket'[tail] > 0 /\ ticket'[c] = ticket'[tail] + 1
    BY <2>2 DEF TailInv, TicketInv
  <2>7. prev'[c] = tail /\ stage'[c] = "waiting"
    OBVIOUS
  <2>8. ASSUME NEW d \in Callers, d # c, stage[d] # "out", prev[d] # None
        PROVE  ticket'[prev'[d]] > 0 /\ ticket'[d] = ticket'[prev'[d]] + 1
    BY <2>2, <2>8 DEF ChainInv
  <2>9. ChainInv'
    BY <2>2, <2>4, <2>5, <2>6, <2>7, <2>8 DEF ChainInv
  <2>10. TailInv'
    BY <2>2, <2>7 DEF TailInv
  <2> QED
    BY <2>1, <2>3, <2>9, <2>10
<1>2. ASSUME NEW c \in Callers, Enter(c) PROVE LockInv'
  <2> USE <1>2 DEF Enter
  <2>1. TypeOK' /\ TicketInv'
    BY DEF TicketInv
  <2>2. AllEarlierReleased(c)
    <3>1. CASE prev[c] = None
      BY <3>1 DEF ChainInv
    <3>2. CASE prev[c] # None
      <4>1. prev[c] \in Callers /\ stage[prev[c]] = "released" /\ ticket[c] = ticket[prev[c]] + 1
        BY <3>2 DEF Settled, ChainInv
      <4>2. AllEarlierReleased(prev[c])
        BY <4>1 DEF ChainInv
      <4>3. ASSUME NEW d \in Callers, Earlier(d, c) PROVE d = prev[c] \/ Earlier(d, prev[c])
        BY <4>1, <4>3 DEF Earlier, TicketInv
      <4> QED
        BY <4>1, <4>2, <4>3 DEF AllEarlierReleased
    <3> QED
      BY <3>1, <3>2
  <2>3. ASSUME NEW d \in Callers, AllEarlierReleased(d) PROVE AllEarlierReleased(d)'
    BY <2>3 DEF AllEarlierReleased, Earlier
  <2>4. ChainInv'
    BY <2>2, <2>3 DEF ChainInv
  <2>5. TailInv'
    BY DEF TailInv
  <2> QED
    BY <2>1, <2>4, <2>5
<1>3. ASSUME NEW c \in Callers, Release(c) PROVE LockInv'
  <2> USE <1>3 DEF Release
  <2>1. TypeOK' /\ TicketInv'
    BY DEF TicketInv
  <2>2. ASSUME NEW d \in Callers, AllEarlierReleased(d) PROVE AllEarlierReleased(d)'
    BY <2>2 DEF AllEarlierReleased, Earlier
  <2>3. ChainInv'
    BY <2>2 DEF ChainInv
  <2>4. CASE tail = c
    <3>1. ASSUME NEW d \in Callers, d # c, stage[d] # "out" PROVE stage[d] = "released"
      <4>1. Earlier(d, c)
        BY <2>4, <3>1 DEF Earlier, TailInv, TicketInv
      <4> QED
        BY <4>1 DEF ChainInv, AllEarlierReleased
    <3> QED
      BY <2>1, <2>3, <2>4, <3>1 DEF TailInv
  <2>5. CASE tail # c
    <3>1. tail # None
      BY DEF TailInv
    <3> QED
      BY <2>1, <2>3, <2>5, <3>1 DEF TailInv
  <2> QED
    BY <2>4, <2>5
<1>4. CASE UNCHANGED lockVars
  BY <1>4 DEF lockVars, TicketInv, ChainInv, TailInv, AllEarlierReleased, Earlier
<1> QED
  BY <1>1, <1>2, <1>3, <1>4 DEF Next

LEMMA LockInvariant == Spec => []LockInv
BY InitLock, NextLock, PTL DEF Spec

LEMMA InTurnIsExclusive == LockInv => Exclusive
<1> SUFFICES ASSUME LockInv, NEW c \in Callers, NEW d \in Callers,
                    stage[c] = "running", stage[d] = "running"
             PROVE  c = d
  BY DEF Exclusive
<1>1. ticket[c] > 0 /\ ticket[d] > 0 /\ ticket[c] \in Nat /\ ticket[d] \in Nat
  BY DEF LockInv, TypeOK, TicketInv
<1>2. ~Earlier(c, d) /\ ~Earlier(d, c)
  BY DEF LockInv, ChainInv, AllEarlierReleased
<1> QED
  BY <1>1, <1>2 DEF LockInv, TicketInv, Earlier

(* Every variable keeps its type, and no call ever awaits itself. *)
THEOREM LockTypes == Spec => []TypeOK
<1>1. LockInv => TypeOK
  BY DEF LockInv
<1> QED
  BY LockInvariant, <1>1, PTL

(* At most one call for a key runs at any time. *)
THEOREM LockExclusive == Spec => []Exclusive
BY LockInvariant, InTurnIsExclusive, PTL

(* The map never forgets a key that is in use, nor keeps one that is not.  *)
THEOREM EntryCorrect == Spec => []EntryWhileBusy
<1>1. LockInv => EntryWhileBusy
  BY NoneAssumption DEF NoneAssumption, LockInv, TypeOK, Stages, TailInv, EntryWhileBusy
<1> QED
  BY LockInvariant, <1>1, PTL

(* The chain of promises implements the first-come first-served lock. *)
THEOREM ChainImplementsFifo == Spec => ImplementsFifo
<1>1. Init => Fifo!Init
  BY DEF Init, Fifo!Init
<1>2. LockInv /\ LockInv' /\ [Next]_lockVars => [Fifo!Next]_<<stage, ticket, issued>>
  <2> SUFFICES ASSUME LockInv, LockInv', [Next]_lockVars
               PROVE  [Fifo!Next]_<<stage, ticket, issued>>
    OBVIOUS
  <2>1. ASSUME NEW c \in Callers, Arrive(c) PROVE Fifo!Ask(c)
    BY <2>1 DEF Arrive, Fifo!Ask
  <2>2. ASSUME NEW c \in Callers, Enter(c) PROVE Fifo!Acquire(c)
    <3>1. stage'[c] = "running"
      BY <2>2 DEF Enter, LockInv, TypeOK
    <3>2. AllEarlierReleased(c)'
      BY <3>1 DEF LockInv, ChainInv
    <3>3. \A d \in Callers : Fifo!Earlier(d, c) => stage[d] = "released"
      BY <2>2, <3>2 DEF Enter, AllEarlierReleased, Earlier, Fifo!Earlier, LockInv, TypeOK
    <3> QED
      BY <2>2, <3>3 DEF Enter, Fifo!Acquire
  <2>3. ASSUME NEW c \in Callers, Release(c) PROVE Fifo!GiveBack(c)
    BY <2>3 DEF Release, Fifo!GiveBack
  <2>4. CASE UNCHANGED lockVars
    BY <2>4 DEF lockVars
  <2> QED
    BY <2>1, <2>2, <2>3, <2>4 DEF Next, Fifo!Next
<1> QED
  BY <1>1, <1>2, LockInvariant, PTL DEF Spec, ImplementsFifo, Fifo!Spec
=============================================================================
