------------------------- MODULE KeyedConnect_proofs -------------------------
(***************************************************************************)
(* Theorems about connect-by-key, for every set of calls and of scopes.    *)
(* Each step of a call is a step of its lock, or leaves the lock alone, so *)
(* that the lock's theorem applies: one call at a time has its turn.  On   *)
(* it rest the two results: a call is only ever handed a session of its    *)
(* scope, and callers of one scope have at most one live session.          *)
(***************************************************************************)
EXTENDS KeyedConnect, TLAPS

LockProofs == INSTANCE KeyLock_proofs

LEMMA StepsUseTheLock == [Next]_vars => [Lock!Next]_lockVars
<1> SUFFICES ASSUME [Next]_vars PROVE [Lock!Next]_lockVars
  OBVIOUS
<1>1. ASSUME NEW c \in Callers, Arrive(c) PROVE Lock!Next
  BY <1>1 DEF Arrive, Lock!Next
<1>2. ASSUME NEW c \in Callers, NEW sc \in Scopes, Reuse(c, sc) PROVE Lock!Next
  BY <1>2 DEF Reuse, Lock!Next
<1>3. ASSUME NEW c \in Callers, NEW sc \in Scopes, NEW forceNew \in BOOLEAN, Open(c, sc, forceNew)
      PROVE Lock!Next
  BY <1>3 DEF Open, Lock!Next
<1>4. ASSUME NEW c \in Callers, Connects(c) PROVE UNCHANGED lockVars
  BY <1>4 DEF Connects
<1>5. ASSUME NEW c \in Callers, Refused(c) PROVE Lock!Next
  BY <1>5 DEF Refused, Lock!Next
<1>6. ASSUME NEW c \in Callers, NEW authenticated \in BOOLEAN, Answer(c, authenticated)
      PROVE Lock!Next
  BY <1>6 DEF Answer, Lock!Next
<1>7. ASSUME NEW s \in Callers, NEW to, Drops(s, to) PROVE UNCHANGED lockVars
  BY <1>7 DEF Drops
<1>8. ASSUME NEW s \in Callers, NEW b,
             LeaverGone(s, b) \/ Recovers(s) \/ GivesUp(s) \/ LoopWakes(s) \/ Removed(s)
             \/ MarkAuthenticated(s) \/ Disconnect(s, b) \/ Reconnect(s) \/ Redialed(s, b)
      PROVE  UNCHANGED lockVars
  BY <1>8 DEF LeaverGone, Recovers, GivesUp, LoopWakes, Removed, MarkAuthenticated, Disconnect,
     Reconnect, Redialed
<1>9. CASE UNCHANGED vars
  BY <1>9 DEF vars
<1> QED
  BY <1>1, <1>2, <1>3, <1>4, <1>5, <1>6, <1>7, <1>8, <1>9 DEF Next

LEMMA LockIsUsed == Spec => Lock!Spec
<1>1. Init => Lock!Init
  BY DEF Init
<1> QED
  BY <1>1, StepsUseTheLock, PTL DEF Spec, Lock!Spec, lockVars, Lock!lockVars

\* The lock of this module is the one that KeyLock_proofs speaks of
LEMMA SameLock ==
    /\ Lock!Spec <=> LockProofs!Spec
    /\ Lock!TypeOK <=> LockProofs!TypeOK
    /\ Lock!Exclusive <=> LockProofs!Exclusive
<1>1. Lock!Init <=> LockProofs!Init
  BY DEF Lock!Init, LockProofs!Init
<1>2. [Lock!Next]_Lock!lockVars <=> [LockProofs!Next]_LockProofs!lockVars
  BY DEF Lock!Next, Lock!Arrive, Lock!Enter, Lock!Release, Lock!Settled, Lock!lockVars,
         LockProofs!Next, LockProofs!Arrive, LockProofs!Enter, LockProofs!Release,
         LockProofs!Settled, LockProofs!lockVars
<1>3. Lock!TypeOK <=> LockProofs!TypeOK
  BY DEF Lock!TypeOK, LockProofs!TypeOK, Lock!Stages, LockProofs!Stages
<1>4. Lock!Exclusive <=> LockProofs!Exclusive
  BY DEF Lock!Exclusive, LockProofs!Exclusive
<1> QED
  BY <1>1, <1>2, <1>3, <1>4, PTL DEF Lock!Spec, LockProofs!Spec

LockOK == Lock!TypeOK /\ Lock!Exclusive

LEMMA LockStaysOK == Spec => []LockOK
<1>1. LockProofs!NoneAssumption
  BY NoneIsNobody DEF NoneIsNobody, LockProofs!NoneAssumption
<1>2. LockProofs!Spec => []LockProofs!TypeOK
  BY <1>1, LockProofs!LockTypes
<1>3. LockProofs!Spec => []LockProofs!Exclusive
  BY <1>1, LockProofs!LockExclusive
<1>4. []LockProofs!TypeOK /\ []LockProofs!Exclusive => []LockOK
  <2>1. LockProofs!TypeOK /\ LockProofs!Exclusive => LockOK
    BY SameLock DEF LockOK
  <2> QED
    BY <2>1, PTL
<1>5. Spec => LockProofs!Spec
  BY LockIsUsed, SameLock
<1> QED
  BY <1>2, <1>3, <1>4, <1>5

(* Keyed connects run one at a time, like any use of the lock. *)
THEOREM TurnsAreExclusive == Spec => []Lock!Exclusive
<1>1. LockOK => Lock!Exclusive
  BY DEF LockOK
<1> QED
  BY LockStaysOK, <1>1, PTL

-----------------------------------------------------------------------------
Dom ==
    /\ scope \in [Callers -> Scopes \cup {None}]
    /\ step \in [Callers -> Steps]
    /\ handed \in [Callers -> Callers \cup {None}]
    /\ bound \in Callers \cup {None}
    /\ phase \in [Callers -> Phases]
    /\ leaving \subseteq Callers /\ revived \subseteq Callers
    /\ loop \in [Callers -> Loops]
    /\ owner \in [Callers -> Scopes \cup {None}]

\* How far a call is, and the session it was handed
CallInv ==
    \* before its turn a call has done nothing, and its session does not exist
    /\ \A c \in Callers : stage[c] \in {"out", "waiting"} =>
          step[c] = "none" /\ handed[c] = None /\ scope[c] = None /\ phase[c] = "unborn"
    \* it works only while it has the lock
    /\ \A c \in Callers : step[c] \in {"opening", "signing"} => stage[c] = "running"
    \* it is handed, and the key resolves to, sessions that were created
    /\ \A c \in Callers : step[c] # "none" => handed[c] # None
    /\ \A c \in Callers : handed[c] # None => phase[handed[c]] # "unborn"
    /\ bound # None => phase[bound] # "unborn"
    \* nothing has happened to a session that does not exist
    /\ \A s \in Callers : phase[s] = "unborn" =>
          s \notin leaving /\ s \notin revived /\ loop[s] = "none"

RegistryInv == Dom /\ CallInv /\ HandedInScope /\ BoundIsNotLost

LEMMA InitRegistry == Init => RegistryInv
BY NoneIsNobody DEF NoneIsNobody, Init, RegistryInv, Dom, CallInv, HandedInScope,
   BoundIsNotLost, Steps, Phases, Loops

\* Whatever loop POST /reconnect leaves behind
LEMMA ReconnectLeaves ==
    ASSUME Dom, NEW s \in Callers, Reconnect(s)
    PROVE  \E left \in Loops : loop' = [loop EXCEPT ![s] = left]
<1>1. PICK left \in IF phase[s] = "recovering" THEN {"asleep", "hung"}
                    ELSE IF loop[s] = "doomed" THEN {"asleep"} ELSE {loop[s]} :
             loop' = [loop EXCEPT ![s] = left]
  BY DEF Reconnect
<1>2. left \in Loops
  BY DEF Dom, Loops
<1> QED
  BY <1>1, <1>2

LEMMA NextRegistry ==
    ASSUME LockOK, RegistryInv, [Next]_vars PROVE RegistryInv'
<1> USE NoneIsNobody DEF NoneIsNobody, RegistryInv, Dom, LockOK, Lock!TypeOK, Lock!Stages, Steps, Phases, Loops
<1>1. ASSUME NEW c \in Callers, Arrive(c) PROVE RegistryInv'
  BY <1>1 DEF Arrive, Lock!Arrive, callVars, sessionVars, CallInv, HandedInScope, BoundIsNotLost
<1>2. ASSUME NEW c \in Callers, NEW sc \in Scopes, Reuse(c, sc) PROVE RegistryInv'
  <2> USE <1>2 DEF Reuse, Reusable, Keyed, Stored
  <2>1. Dom'
    BY DEF OwnerClaimed
  <2>2. stage[c] = "waiting" /\ stage' = [stage EXCEPT ![c] = "running"]
    BY DEF Lock!Enter
  <2>3. CallInv'
    BY <2>1, <2>2 DEF CallInv
  <2>4. ASSUME NEW d \in Callers, handed'[d] # None, scope'[d] # None
        PROVE  owner'[handed'[d]] = scope'[d]
    <3>1. CASE d = c
      BY <3>1, <2>4 DEF OwnerClaimed, InScopeOnceClaimed
    <3>2. CASE d # c
      BY <3>2, <2>4 DEF OwnerClaimed, HandedInScope
    <3> QED
      BY <3>1, <3>2
  <2>5. HandedInScope'
    BY <2>4 DEF HandedInScope
  <2>6. BoundIsNotLost'
    BY DEF BoundIsNotLost
  <2> QED
    BY <2>1, <2>3, <2>5, <2>6
<1>3. ASSUME NEW c \in Callers, NEW sc \in Scopes, NEW forceNew \in BOOLEAN, Open(c, sc, forceNew)
      PROVE RegistryInv'
  <2> USE <1>3 DEF Open
  <2>1. stage[c] = "waiting" /\ stage' = [stage EXCEPT ![c] = "running"]
    BY DEF Lock!Enter
  <2>2. phase[c] = "unborn" /\ (bound # None => bound # c)
    BY <2>1 DEF CallInv
  <2>3. Dom'
    BY DEF OwnerClaimed, PhaseTornDown, LeavingWith, LoopTornDown, Doomed, Keyed
  <2>4. /\ phase'[c] = "dialing" /\ owner'[c] = sc
        /\ \A s \in Callers : s # c => phase'[s] \in {phase[s], "gone"}
        /\ \A s \in Callers : s # c /\ phase[s] = "unborn" => phase'[s] = "unborn"
        /\ \A s \in Callers : s # c /\ phase[s] # "unborn" => phase'[s] # "unborn"
        /\ \A s \in Callers : s # c /\ owner[s] # None => owner'[s] = owner[s]
        /\ \A s \in Callers : s # c /\ phase[s] = "unborn" => s \notin leaving' /\ loop'[s] = "none"
    BY <2>2 DEF OwnerClaimed, PhaseTornDown, LeavingWith, Keyed, Stored, CallInv
  <2>5. CallInv'
    BY <2>1, <2>2, <2>3, <2>4 DEF CallInv
  <2>6. ASSUME NEW d \in Callers, handed'[d] # None, scope'[d] # None
        PROVE  owner'[handed'[d]] = scope'[d]
    <3>1. CASE d = c
      BY <3>1, <2>4, <2>6
    <3>2. CASE d # c
      <4>1. handed'[d] = handed[d] /\ scope'[d] = scope[d] /\ handed[d] \in Callers
        BY <3>2, <2>6
      <4>2. phase[handed[d]] # "unborn" /\ owner[handed[d]] = scope[d]
        BY <2>6, <4>1 DEF CallInv, HandedInScope
      <4> QED
        BY <2>2, <2>4, <2>6, <4>1, <4>2
    <3> QED
      BY <3>1, <3>2
  <2>7. HandedInScope'
    BY <2>6 DEF HandedInScope
  <2>8. BoundIsNotLost'
    BY <2>2, <2>4 DEF BoundIsNotLost
  <2> QED
    BY <2>3, <2>5, <2>7, <2>8
<1>4. ASSUME NEW c \in Callers, Connects(c) PROVE RegistryInv'
  BY <1>4 DEF Connects, lockVars, CallInv, HandedInScope, BoundIsNotLost
<1>5. ASSUME NEW c \in Callers, Refused(c) PROVE RegistryInv'
  BY <1>5 DEF Refused, Lock!Release, CallInv, HandedInScope, BoundIsNotLost
<1>6. ASSUME NEW c \in Callers, NEW authenticated \in BOOLEAN, Answer(c, authenticated)
      PROVE RegistryInv'
  BY <1>6 DEF Answer, Lock!Release, CallInv, HandedInScope, BoundIsNotLost
<1>7. ASSUME NEW s \in Callers, NEW to \in {"recovering", "failed", "lost"}, Drops(s, to)
      PROVE RegistryInv'
  BY <1>7 DEF Drops, Connected, Doomed, Unbind, lockVars, callVars, CallInv, HandedInScope,
     BoundIsNotLost
<1>8. ASSUME NEW s \in Callers, NEW dropped \in BOOLEAN, LeaverGone(s, dropped) PROVE RegistryInv'
  BY <1>8 DEF LeaverGone, Unbind, lockVars, callVars, CallInv, HandedInScope, BoundIsNotLost
<1>9. ASSUME NEW s \in Callers, Recovers(s) \/ GivesUp(s) \/ MarkAuthenticated(s) PROVE RegistryInv'
  BY <1>9 DEF Recovers, GivesUp, MarkAuthenticated, Unbind, lockVars, callVars, CallInv,
     HandedInScope, BoundIsNotLost
<1>10. ASSUME NEW s \in Callers, LoopWakes(s) \/ Removed(s) PROVE RegistryInv'
  BY <1>10 DEF LoopWakes, Removed, Stored, lockVars, callVars, CallInv, HandedInScope, BoundIsNotLost
<1>11. ASSUME NEW s \in Callers, NEW signOff \in BOOLEAN, Disconnect(s, signOff) PROVE RegistryInv'
  BY <1>11 DEF Disconnect, TornDown, PhaseTornDown, LeavingWith, LoopTornDown, Doomed, Stored,
     lockVars, callVars, CallInv, HandedInScope, BoundIsNotLost
<1>12. ASSUME NEW s \in Callers, Reconnect(s) PROVE RegistryInv'
  <2>1. PICK left \in Loops : loop' = [loop EXCEPT ![s] = left]
    BY <1>12, ReconnectLeaves
  <2> QED
    BY <1>12, <2>1 DEF Reconnect, Stored, lockVars, callVars, CallInv, HandedInScope, BoundIsNotLost
<1>13. ASSUME NEW s \in Callers, NEW connected \in BOOLEAN, Redialed(s, connected) PROVE RegistryInv'
  BY <1>13 DEF Redialed, lockVars, callVars, CallInv, HandedInScope, BoundIsNotLost
<1>14. CASE UNCHANGED vars
  BY <1>14 DEF vars, lockVars, callVars, sessionVars, CallInv, HandedInScope, BoundIsNotLost
<1> QED
  BY <1>1, <1>2, <1>3, <1>4, <1>5, <1>6, <1>7, <1>8, <1>9, <1>10, <1>11, <1>12, <1>13, <1>14 DEF Next

LEMMA RegistryStaysOK == Spec => []RegistryInv
BY InitRegistry, NextRegistry, LockStaysOK, PTL DEF Spec

(* Tenant isolation: whatever calls of whatever scopes share the key, a    *)
(* scoped call never works on, nor answers with, a session of another.     *)
THEOREM ScopesIsolated == Spec => []HandedInScope
<1>1. RegistryInv => HandedInScope
  BY DEF RegistryInv
<1> QED
  BY RegistryStaysOK, <1>1, PTL

(* The key never resolves to a session that was reported lost. *)
THEOREM NoCorpseBound == Spec => []BoundIsNotLost
<1>1. RegistryInv => BoundIsNotLost
  BY DEF RegistryInv
<1> QED
  BY RegistryStaysOK, <1>1, PTL

-----------------------------------------------------------------------------
(* Callers of one scope.  KeyedScopes shows what several scopes do.       *)
OneScope == \A a, b \in Scopes : a = b

\* A session that has, or by itself will have again, a connection: also one in
\* error whose sleeping loop is to dial
Kept(s) ==
    /\ s \notin leaving /\ s \notin revived
    /\ \/ phase[s] \in {"redialing", "up", "signedOn", "recovering"}
       \/ phase[s] = "failed" /\ loop[s] = "asleep"

LiveInv ==
    /\ \A s \in Callers : phase[s] = "dialing" =>
          step[s] = "opening" /\ s \notin revived /\ loop[s] = "none"
    \* a session past its connect is bound, until another takes its place
    /\ \A s \in Callers : Kept(s) => bound = s
    /\ bound \notin revived
    \* a loop dials for no session that was reported lost, but for one revived
    /\ \A s \in Callers : phase[s] = "recovering" => loop[s] = "none"
    /\ \A s \in Callers : phase[s] = "lost" /\ s \notin revived => loop[s] # "asleep"
    \* a call opens a session only when the one bound is out of the way
    /\ \A c \in Callers : step[c] = "opening" =>
          bound = None \/ phase[bound] = "gone" \/ bound \in leaving
    /\ \A s \in Callers : phase[s] # "unborn" => owner[s] \in Scopes

LEMMA InitLive == Init => LiveInv
BY DEF Init, LiveInv, Kept

LEMMA NextLive ==
    ASSUME OneScope, LockOK, RegistryInv, LiveInv, [Next]_vars PROVE LiveInv'
<1> USE NoneIsNobody DEF NoneIsNobody, RegistryInv, Dom, CallInv, LockOK, Lock!TypeOK, Lock!Stages,
        Steps, Phases, Loops, LiveInv, Kept
<1>1. ASSUME NEW c \in Callers, Arrive(c) PROVE LiveInv'
  BY <1>1 DEF Arrive, callVars, sessionVars
<1>2. ASSUME NEW c \in Callers, NEW sc \in Scopes, Reuse(c, sc) PROVE LiveInv'
  <2>1. stage[c] = "waiting"
    BY <1>2 DEF Reuse, Lock!Enter
  <2>2. owner' = [owner EXCEPT ![bound] = OwnerClaimed(sc)] /\ bound \in Callers
        /\ phase' = phase /\ bound' = bound /\ step' = [step EXCEPT ![c] = "signing"]
        /\ leaving' = leaving /\ loop' = loop /\ revived' = revived
    BY <1>2 DEF Reuse, Reusable, Keyed
  <2>3. \A s \in Callers : phase[s] # "unborn" => owner'[s] \in Scopes
    BY <2>2 DEF OwnerClaimed
  <2>4. \A d \in Callers : step'[d] = "opening" <=> step[d] = "opening"
    BY <2>1, <2>2
  <2> QED
    BY <2>2, <2>3, <2>4
<1>3. ASSUME NEW c \in Callers, NEW sc \in Scopes, NEW forceNew \in BOOLEAN, Open(c, sc, forceNew)
      PROVE LiveInv'
  <2>1. stage[c] = "waiting" /\ phase[c] = "unborn"
    BY <1>3 DEF Open, Lock!Enter
  <2>2. step' = [step EXCEPT ![c] = "opening"] /\ bound' = bound /\ revived' = revived
    BY <1>3 DEF Open
  <2>3. CASE Keyed(sc)
    <3>1. bound \in Callers /\ bound # c
      BY <2>1, <2>3 DEF Keyed, Stored
    <3>2. /\ phase' = [phase EXCEPT ![bound] = PhaseTornDown(bound), ![c] = "dialing"]
          /\ owner' = [owner EXCEPT ![bound] = OwnerClaimed(sc), ![c] = sc]
          /\ leaving' = LeavingWith({bound})
          /\ loop' = [loop EXCEPT ![bound] = LoopTornDown(bound)]
      BY <1>3, <2>3 DEF Open
    <3>3. /\ phase'[c] = "dialing" /\ loop'[c] = "none"
          /\ \A s \in Callers : s # bound /\ s # c =>
                phase'[s] = phase[s] /\ loop'[s] = loop[s] /\ (s \in leaving' <=> s \in leaving)
      BY <2>1, <3>1, <3>2 DEF LeavingWith
    <3>4. phase'[bound] = "gone" \/ (phase'[bound] = "signedOn" /\ bound \in leaving')
      BY <3>1, <3>2 DEF PhaseTornDown, LeavingWith
    <3>5. \A s \in Callers : ~Kept(s)'
      BY <2>2, <3>1, <3>3, <3>4
    <3>6. \A s \in Callers : phase'[s] # "unborn" => owner'[s] \in Scopes
      BY <3>1, <3>2, <3>3, <2>3 DEF OwnerClaimed, Keyed, Stored
    <3>7. \A s \in Callers : phase'[s] = "dialing" =>
             step'[s] = "opening" /\ s \notin revived' /\ loop'[s] = "none"
      BY <2>1, <2>2, <3>1, <3>3, <3>4
    <3> QED
      BY <2>1, <2>2, <3>1, <3>3, <3>4, <3>5, <3>6, <3>7
  <2>4. CASE ~Keyed(sc)
    <3>1. phase' = [phase EXCEPT ![c] = "dialing"] /\ owner' = [owner EXCEPT ![c] = sc]
          /\ leaving' = leaving /\ loop' = loop
      BY <1>3, <2>4 DEF Open
    <3>2. bound = None \/ phase[bound] = "gone"
      BY <2>4 DEF Keyed, Stored, InScopeOnceClaimed, OneScope
    <3>3. \A s \in Callers : ~Kept(s)'
      BY <2>1, <2>2, <3>1, <3>2
    <3>4. \A s \in Callers : phase'[s] # "unborn" => owner'[s] \in Scopes
      BY <3>1
    <3>5. \A s \in Callers : phase'[s] = "dialing" =>
             step'[s] = "opening" /\ s \notin revived' /\ loop'[s] = "none"
      BY <2>1, <2>2, <3>1
    <3> QED
      BY <2>1, <2>2, <3>1, <3>2, <3>3, <3>4, <3>5
  <2> QED
    BY <2>3, <2>4
<1>4. ASSUME NEW c \in Callers, Connects(c) PROVE LiveInv'
  <2>1. \A d \in Callers : step[d] = "opening" => d = c
    BY <1>4 DEF Connects, Lock!Exclusive
  <2>2. \A s \in Callers : ~Kept(s)
    BY <1>4 DEF Connects
  <2> QED
    BY <1>4, <2>1, <2>2 DEF Connects
<1>5. ASSUME NEW c \in Callers, Refused(c) PROVE LiveInv'
  BY <1>5 DEF Refused
<1>6. ASSUME NEW c \in Callers, NEW authenticated \in BOOLEAN, Answer(c, authenticated)
      PROVE LiveInv'
  BY <1>6 DEF Answer
<1>7. ASSUME NEW s \in Callers, NEW to \in {"recovering", "failed", "lost"}, Drops(s, to)
      PROVE LiveInv'
  <2>1. CASE to = "lost"
    BY <1>7, <2>1 DEF Drops, Connected, Doomed, Unbind, callVars
  <2>2. CASE to # "lost"
    BY <1>7, <2>2 DEF Drops, Connected, callVars
  <2> QED
    BY <2>1, <2>2
<1>8. ASSUME NEW s \in Callers, NEW dropped \in BOOLEAN, LeaverGone(s, dropped) PROVE LiveInv'
  BY <1>8 DEF LeaverGone, Unbind, callVars
<1>9. ASSUME NEW s \in Callers, Recovers(s) \/ GivesUp(s) \/ MarkAuthenticated(s) PROVE LiveInv'
  BY <1>9 DEF Recovers, GivesUp, MarkAuthenticated, Unbind, callVars
<1>10. ASSUME NEW s \in Callers, LoopWakes(s) PROVE LiveInv'
  <2>1. CASE loop[s] = "asleep"
    BY <1>10, <2>1 DEF LoopWakes, Stored, callVars
  <2>2. CASE loop[s] # "asleep"
    BY <1>10, <2>2 DEF LoopWakes, callVars
  <2> QED
    BY <2>1, <2>2
<1>11. ASSUME NEW s \in Callers, Removed(s) PROVE LiveInv'
  BY <1>11 DEF Removed, callVars
<1>12. ASSUME NEW s \in Callers, NEW signOff \in BOOLEAN, Disconnect(s, signOff) PROVE LiveInv'
  <2>1. TornDown(s, signOff) /\ UNCHANGED <<step, bound, owner>> /\ phase[s] # "unborn"
    BY <1>12 DEF Disconnect, Stored, callVars
  <2>2. CASE signOff /\ phase[s] = "signedOn"
    <3>1. phase' = phase /\ revived' = revived
      BY <2>1, <2>2 DEF TornDown, PhaseTornDown
    <3>2. loop' = [loop EXCEPT ![s] = Doomed(s)] /\ leaving' = LeavingWith({s})
      BY <2>1, <2>2 DEF TornDown, LoopTornDown
    <3>3. \A x \in Callers : loop'[x] = loop[x] \/ (x = s /\ loop'[x] = "doomed")
      BY <3>2 DEF Doomed
    <3>4. leaving' = leaving \cup {s}
      BY <3>2, <2>2 DEF LeavingWith
    <3>5. \A x \in Callers : Kept(x)' => Kept(x)
      BY <3>1, <3>3, <3>4
    <3>6. \A x \in Callers : loop[x] = "none" /\ x # s => loop'[x] = "none"
      BY <3>2
    <3> QED
      BY <2>1, <2>2, <3>1, <3>3, <3>4, <3>5, <3>6
  <2>3. CASE ~(signOff /\ phase[s] = "signedOn")
    <3>1. phase' = [phase EXCEPT ![s] = "gone"] /\ loop' = [loop EXCEPT ![s] = "none"]
      BY <2>1, <2>3 DEF TornDown, PhaseTornDown, LoopTornDown
    <3>2. revived' = revived \ {s}
      BY <2>1, <3>1 DEF TornDown
    <3>3. leaving' = leaving \ {s}
      BY <2>1, <2>3 DEF TornDown, LeavingWith
    <3> QED
      BY <2>1, <3>1, <3>2, <3>3
  <2> QED
    BY <2>2, <2>3
<1>13. ASSUME NEW s \in Callers, Reconnect(s) PROVE LiveInv'
  <2>1. PICK left \in Loops : loop' = [loop EXCEPT ![s] = left]
    BY <1>13, ReconnectLeaves
  <2>2. /\ phase' = [phase EXCEPT ![s] = "redialing"] /\ Stored(s)
        /\ revived' = IF bound = s THEN revived ELSE revived \cup {s}
        /\ UNCHANGED <<step, bound, leaving, owner>>
    BY <1>13 DEF Reconnect, callVars
  <2> QED
    BY <2>1, <2>2 DEF Stored
<1>14. ASSUME NEW s \in Callers, NEW connected \in BOOLEAN, Redialed(s, connected) PROVE LiveInv'
  BY <1>14 DEF Redialed, callVars
<1>15. CASE UNCHANGED vars
  BY <1>15 DEF vars, callVars, sessionVars
<1> QED
  BY <1>1, <1>2, <1>3, <1>4, <1>5, <1>6, <1>7, <1>8, <1>9, <1>10, <1>11, <1>12, <1>13, <1>14, <1>15
     DEF Next

LEMMA LiveStaysOK == ASSUME OneScope PROVE Spec => [](LockOK /\ RegistryInv /\ LiveInv)
<1>1. LockOK /\ RegistryInv /\ LiveInv /\ [Next]_vars => LiveInv'
  BY NextLive
<1> QED
  BY <1>1, InitLive, LockStaysOK, RegistryStaysOK, PTL DEF Spec

(* "AT MOST ONE live session per key", for the callers of one scope, in    *)
(* every case but one: a session that POST /reconnect took back when it    *)
(* was not bound to the key is not counted.                                *)
THEOREM OneLiveSession == ASSUME OneScope PROVE Spec => []AtMostOneLive
<1>1. LockOK /\ RegistryInv /\ LiveInv => AtMostOneLive
  <2> SUFFICES ASSUME LockOK, RegistryInv, LiveInv, NEW s \in Callers \ revived,
                      NEW t \in Callers \ revived, Live(s), Live(t)
               PROVE  s = t
    BY DEF AtMostOneLive
  <2> USE DEF LiveInv, Live, Kept
  <2>1. CASE phase[s] = "dialing" /\ phase[t] = "dialing"
    BY <2>1 DEF RegistryInv, CallInv, LockOK, Lock!Exclusive
  <2>2. CASE Kept(s) /\ Kept(t)
    BY <2>2
  <2>3. ~(phase[s] = "dialing" /\ Kept(t)) /\ ~(phase[t] = "dialing" /\ Kept(s))
    BY NoneIsNobody DEF NoneIsNobody
  <2> QED
    BY <2>1, <2>2, <2>3
<1> QED
  BY LiveStaysOK, <1>1, PTL

(* No live session is left to itself, but for the same exception: the key  *)
(* resolves to it, or the call that opens it has the lock.                 *)
THEOREM NoneLeftToItself == ASSUME OneScope PROVE Spec => []LiveIsReachable
<1>1. RegistryInv /\ LiveInv => LiveIsReachable
  BY DEF RegistryInv, CallInv, LiveInv, Kept, Live, LiveIsReachable
<1> QED
  BY LiveStaysOK, <1>1, PTL

-----------------------------------------------------------------------------
(* Types, and how scopes are kept apart in the registry.                   *)

(* Every variable of the lock, the calls and the sessions keeps its type.  *)
THEOREM KeyedTypes == Spec => []TypeOK
<1>1. LockOK /\ RegistryInv => TypeOK
  BY DEF LockOK, RegistryInv, Dom, TypeOK
<1> QED
  BY LockStaysOK, RegistryStaysOK, <1>1, PTL

\* A session that was not created has no owner
UnownedInv == \A s \in Callers : phase[s] = "unborn" => owner[s] = None

LEMMA InitUnowned == Init => UnownedInv
BY DEF Init, UnownedInv

\* What a step does to the owners: one that creates a session gives it the
\* scope of its call, and it may claim the bound one if nobody has
OwnersOnlyClaimed ==
    \A s \in Callers : owner[s] # None => owner'[s] = owner[s]

LEMMA OpenOwns ==
    ASSUME LockOK, RegistryInv, UnownedInv,
           NEW c \in Callers, NEW sc \in Scopes, NEW forceNew \in BOOLEAN, Open(c, sc, forceNew)
    PROVE  /\ OwnersOnlyClaimed /\ UnownedInv'
           /\ phase[c] = "unborn" /\ scope'[c] = sc
           /\ \A d \in Callers : d # c => step'[d] = step[d]
           /\ \A s \in Callers : Stored(s) /\ (phase'[s] # phase[s] \/ s \in leaving' \ leaving) =>
                 s = bound /\ InScopeOnceClaimed(s, sc) /\ owner'[s] = OwnerClaimed(sc)
<1> USE NoneIsNobody DEF NoneIsNobody, RegistryInv, Dom, LockOK, Lock!TypeOK, Lock!Stages, Open
<1>1. stage[c] = "waiting"
  BY DEF Lock!Enter
<1>2. phase[c] = "unborn" /\ owner[c] = None /\ (bound # None => bound # c)
  BY <1>1 DEF CallInv, UnownedInv
<1>3. scope'[c] = sc /\ \A d \in Callers : d # c => step'[d] = step[d]
  OBVIOUS
<1>4. CASE Keyed(sc)
  <2>1. bound \in Callers /\ bound # c /\ Stored(bound) /\ InScopeOnceClaimed(bound, sc)
    BY <1>2, <1>4 DEF Keyed
  <2>2. phase' = [phase EXCEPT ![bound] = PhaseTornDown(bound), ![c] = "dialing"]
        /\ owner' = [owner EXCEPT ![bound] = OwnerClaimed(sc), ![c] = sc]
        /\ leaving' = LeavingWith({bound})
    BY <1>4
  <2>3. /\ owner'[bound] = OwnerClaimed(sc)
        /\ \A s \in Callers : s # bound /\ s # c => owner'[s] = owner[s] /\ phase'[s] = phase[s]
        /\ leaving' \subseteq leaving \cup {bound}
    BY <2>1, <2>2 DEF LeavingWith
  <2>4. phase'[bound] \in {"signedOn", "gone"} /\ phase'[c] = "dialing"
    BY <2>1, <2>2 DEF PhaseTornDown
  <2>5. OwnersOnlyClaimed
    BY <1>2, <2>3 DEF OwnersOnlyClaimed, OwnerClaimed
  <2>6. UnownedInv'
    BY <2>3, <2>4 DEF UnownedInv
  <2> QED
    BY <1>2, <1>3, <2>1, <2>3, <2>5, <2>6 DEF Stored
<1>5. CASE ~Keyed(sc)
  <2>1. phase' = [phase EXCEPT ![c] = "dialing"] /\ owner' = [owner EXCEPT ![c] = sc]
        /\ leaving' = leaving
    BY <1>5
  <2>2. OwnersOnlyClaimed /\ UnownedInv'
    BY <1>2, <2>1 DEF OwnersOnlyClaimed, UnownedInv
  <2> QED
    BY <1>2, <1>3, <2>1, <2>2 DEF Stored
<1> QED
  BY <1>4, <1>5

LEMMA ReuseOwns ==
    ASSUME LockOK, RegistryInv, UnownedInv, NEW c \in Callers, NEW sc \in Scopes, Reuse(c, sc)
    PROVE  OwnersOnlyClaimed /\ UnownedInv' /\ (\A d \in Callers : step'[d] = "opening" => step[d] = "opening")
<1> USE DEF RegistryInv, Dom, Reuse
<1>1. bound \in Callers /\ Stored(bound) /\ phase' = phase
      /\ owner' = [owner EXCEPT ![bound] = OwnerClaimed(sc)]
  BY DEF Reusable, Keyed
<1>2. OwnersOnlyClaimed
  BY <1>1 DEF OwnersOnlyClaimed, OwnerClaimed
<1>3. UnownedInv'
  BY <1>1 DEF UnownedInv, Stored
<1>4. \A d \in Callers : step'[d] = "opening" => step[d] = "opening"
  OBVIOUS
<1> QED
  BY <1>2, <1>3, <1>4

\* All the other steps leave the owners alone, and begin no session
LEMMA OthersOwn ==
    ASSUME LockOK, RegistryInv, UnownedInv, [Next]_vars,
           ~\E c \in Callers, sc \in Scopes, forceNew \in BOOLEAN : Open(c, sc, forceNew),
           ~\E c \in Callers, sc \in Scopes : Reuse(c, sc)
    PROVE  UNCHANGED owner /\ UnownedInv' /\ (\A d \in Callers : step'[d] = "opening" => step[d] = "opening")
<1> USE DEF RegistryInv, Dom, UnownedInv
<1> DEFINE Goal == UNCHANGED owner /\ UnownedInv' /\ (\A d \in Callers : step'[d] = "opening" => step[d] = "opening")
<1>1. ASSUME NEW c \in Callers, Arrive(c) PROVE Goal
  BY <1>1 DEF Arrive, callVars, sessionVars
<1>2. ASSUME NEW c \in Callers, Connects(c) \/ Refused(c) PROVE Goal
  BY <1>2 DEF Connects, Refused
<1>3. ASSUME NEW c \in Callers, NEW authenticated \in BOOLEAN, Answer(c, authenticated) PROVE Goal
  BY <1>3 DEF Answer
<1>4. ASSUME NEW s \in Callers, NEW to \in {"recovering", "failed", "lost"}, Drops(s, to) PROVE Goal
  BY <1>4 DEF Drops, callVars
<1>5. ASSUME NEW s \in Callers, NEW b \in BOOLEAN,
             LeaverGone(s, b) \/ Recovers(s) \/ GivesUp(s) \/ LoopWakes(s) \/ Removed(s)
      PROVE  Goal
  BY <1>5 DEF LeaverGone, Recovers, GivesUp, LoopWakes, Removed, callVars
<1>6. ASSUME NEW s \in Callers, NEW b \in BOOLEAN,
             MarkAuthenticated(s) \/ Disconnect(s, b) \/ Reconnect(s) \/ Redialed(s, b)
      PROVE  Goal
  BY <1>6 DEF MarkAuthenticated, Disconnect, TornDown, PhaseTornDown, Reconnect, Redialed, callVars
<1>7. CASE UNCHANGED vars
  BY <1>7 DEF vars, callVars, sessionVars
<1> QED
  BY <1>1, <1>2, <1>3, <1>4, <1>5, <1>6, <1>7 DEF Next

LEMMA UnownedStays == Spec => [](LockOK /\ RegistryInv /\ UnownedInv)
<1>1. LockOK /\ RegistryInv /\ UnownedInv /\ [Next]_vars => UnownedInv'
  BY OpenOwns, ReuseOwns, OthersOwn
<1> QED
  BY InitUnowned, <1>1, LockStaysOK, RegistryStaysOK, PTL DEF Spec

(* A scope, once it has claimed a session, keeps it, through reuse, takeover *)
(* and teardown; and a call with the lock only tears down a session that it  *)
(* could claim: nobody's, or its own scope's (or any, for the all-access     *)
(* scope).                                                                   *)
THEOREM ScopesKeptApart == Spec => ScopesStayApart
<1> DEFINE Inv == LockOK /\ RegistryInv /\ UnownedInv
<1>1. Inv /\ [Next]_vars => [OwnersOnlyClaimed]_owner
  BY OpenOwns, ReuseOwns, OthersOwn
<1>2. Inv /\ [Next]_vars =>
        \A c, s \in Callers :
            step[c] = "none" /\ step'[c] = "opening" /\ Stored(s) /\
            (phase'[s] # phase[s] \/ s \in leaving' \ leaving) =>
                scope'[c] = None \/ owner'[s] = scope'[c]
  <2> SUFFICES ASSUME Inv, [Next]_vars, NEW d \in Callers, NEW s \in Callers,
                      step[d] = "none", step'[d] = "opening", Stored(s),
                      phase'[s] # phase[s] \/ s \in leaving' \ leaving
               PROVE  scope'[d] = None \/ owner'[s] = scope'[d]
    OBVIOUS
  <2>1. PICK c \in Callers, sc \in Scopes, forceNew \in BOOLEAN : Open(c, sc, forceNew)
    BY ReuseOwns, OthersOwn
  <2>2. /\ scope'[c] = sc
        /\ \A e \in Callers : e # c => step'[e] = step[e]
        /\ s = bound /\ InScopeOnceClaimed(s, sc) /\ owner'[s] = OwnerClaimed(sc)
    BY <2>1, OpenOwns
  <2>3. d = c
    BY <2>2
  <2> QED
    BY <2>2, <2>3 DEF InScopeOnceClaimed, OwnerClaimed
<1>3. Spec => ClaimedOnce
  BY <1>1, UnownedStays, PTL DEF Spec, ClaimedOnce, OwnersOnlyClaimed
<1>4. Spec => OnlyOwnTornDown
  BY <1>2, UnownedStays, PTL DEF Spec, OnlyOwnTornDown
<1> QED
  BY <1>3, <1>4 DEF ScopesStayApart
=============================================================================
