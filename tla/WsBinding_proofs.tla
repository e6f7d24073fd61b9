-------------------------- MODULE WsBinding_proofs --------------------------
(***************************************************************************)
(* Theorems about the WebSocket relay, for every set of clients and of     *)
(* sessions.  First, whatever the clients do: the bookkeeping of orphans,  *)
(* and that no stored session loses its handler to a WebSocket client.     *)
(* Then, while no client makes one of the Moves: no connection leaks.      *)
(***************************************************************************)
EXTENDS WsBinding, TLAPS

\* Who is bound to what: which session a controller that somebody still
\* refers to belongs to, and which clients are indexed under a session
BindingInv ==
    /\ \A c \in Clients : ctrl[c] # None => ctrl[c].id = sid[c]
    /\ \A c \in Clients : sock[c] = "new" => ctrl[c] = None
    /\ \A c \in Clients :
         leaving[c] # None /\ leaving[c].ctrl # None => leaving[c].ctrl.id = leaving[c].id
    /\ \A s \in Ids : grip[s] # None => grip[s].id = s
    /\ \A s \in Ids, c \in Clients : c \in watchers[s] => sock[c] = "open" /\ sid[c] = s

SafeInv == TypeOK /\ BindingInv /\ ReaperPerOrphan /\ StoredIsNotGutted

-----------------------------------------------------------------------------
(* The pieces that several handlers share. *)

\* A session's controllers belong to one kind of id
LEMMA ControllerTypes ==
    /\ \A k \in Controllers : k.id \in Ids /\ k.by \in Clients /\ k # None
    /\ \A s \in Ids, c \in Clients : [id |-> s, by |-> c] \in Controllers
    /\ None \notin Ids /\ Ids = Own \cup Rest /\ Own \cap Rest = {}
    /\ \A t \in Teardowns : t # None /\ t.id \in Ids /\ t.ctrl \in Controllers \cup {None}
  BY ControllersAssumption, IdsAssumption DEF Controllers, Ids, Teardowns

\* HangUp() keeps the types of what it changes
LEMMA HangUpTypes ==
    ASSUME TypeOK, NEW ks, NEW ss, HangUp(ks, ss)
    PROVE  /\ live' \subseteq Controllers /\ holding' \subseteq Controllers
           /\ stored' \subseteq Rest
           /\ link' \in [Ids -> {"none", "dialing", "open", "dropped", "gone"}]
  BY DEF TypeOK, HangUp

\* HangUp() guts no session that stays stored, if those of its controllers
\* that adopted a stored session's handler hang up together with that session
LEMMA HangUpStored ==
    ASSUME TypeOK, StoredIsNotGutted, NEW ks, NEW ss, HangUp(ks, ss),
           \A k \in ks \cap holding : k.id \in Own \/ k.id \in ss
    PROVE  StoredIsNotGutted'
  BY ControllerTypes DEF TypeOK, HangUp, StoredIsNotGutted

\* Unorphan() keeps one reaper per orphan
LEMMA UnorphanReaps ==
    ASSUME TypeOK, ReaperPerOrphan, NEW s, Unorphan(s)
    PROVE  /\ orphans' \subseteq Controllers /\ reapers' \subseteq Ids
           /\ ReaperPerOrphan'
<1>1. orphans' = {k \in orphans : k.id # s} /\ reapers' = reapers \ {s}
  BY DEF Unorphan
<1>2. reapers' = {k.id : k \in orphans'}
  BY <1>1 DEF ReaperPerOrphan
<1>3. \A k \in orphans' : ~Adopted(k)
  BY <1>1 DEF ReaperPerOrphan
<1>4. orphans' \subseteq Controllers /\ reapers' \subseteq Ids
  BY <1>1 DEF TypeOK
<1> QED
  BY <1>2, <1>3, <1>4 DEF ReaperPerOrphan, Adopted

\* A client that is let go: what "disconnect" does to the bindings
LEMMA LetsGoBinds ==
    ASSUME SafeInv, NEW c \in Clients, LetsGo(c)
    PROVE  /\ sid[c] \in Ids
           /\ sid' \in [Clients -> Ids \cup {None}]
           /\ ctrl' \in [Clients -> Controllers \cup {None}]
           /\ watchers' \in [Ids -> SUBSET Clients]
           /\ orphans' \subseteq Controllers /\ reapers' \subseteq Ids
           /\ ReaperPerOrphan'
           /\ \A d \in Clients : ctrl'[d] # None => ctrl'[d].id = sid'[d]
           /\ \A d \in Clients : sock[d] = "new" => ctrl'[d] = None
           /\ \A s \in Ids, d \in Clients : d \in watchers'[s] => sock[d] = "open" /\ sid'[d] = s
<1> USE DEF SafeInv
<1>1. sid[c] \in Ids /\ Unorphan(sid[c])
  BY DEF LetsGo, TypeOK
<1>2. orphans' \subseteq Controllers /\ reapers' \subseteq Ids /\ ReaperPerOrphan'
  BY <1>1, UnorphanReaps
<1>3. /\ sid' = [sid EXCEPT ![c] = None] /\ ctrl' = [ctrl EXCEPT ![c] = None]
      /\ watchers' = [watchers EXCEPT ![sid[c]] = @ \ {c}]
  BY DEF LetsGo
<1>4. /\ sid' \in [Clients -> Ids \cup {None}]
      /\ ctrl' \in [Clients -> Controllers \cup {None}]
      /\ watchers' \in [Ids -> SUBSET Clients]
  BY <1>1, <1>3 DEF TypeOK
<1>5. /\ \A d \in Clients : ctrl'[d] # None => ctrl'[d].id = sid'[d]
      /\ \A d \in Clients : sock[d] = "new" => ctrl'[d] = None
  BY <1>3 DEF TypeOK, BindingInv
<1>6. \A s \in Ids, d \in Clients : d \in watchers'[s] => sock[d] = "open" /\ sid'[d] = s
  BY <1>1, <1>3 DEF TypeOK, BindingInv
<1> QED
  BY <1>1, <1>2, <1>4, <1>5, <1>6

\* "reattach" to s with a controller of s, whichever session is left behind
LEMMA RebindBinds ==
    ASSUME SafeInv, NEW c \in Clients, NEW s \in Ids, NEW k \in Controllers, k.id = s,
           Rebind(c, s, k), live' \subseteq Controllers, holding' \subseteq Controllers
    PROVE  SafeInv'
<1> DEFINE left == IF sid[c] \in {None, s} THEN {} ELSE {sid[c]}
           taken == left \cup (IF \E o \in orphans \cap live : o.id = s THEN {s} ELSE {})
<1> USE DEF SafeInv
<1>1. /\ sock[c] = "open" /\ UNCHANGED <<sock, leaving, grip>>
      /\ sid' = [sid EXCEPT ![c] = s] /\ ctrl' = [ctrl EXCEPT ![c] = k]
      /\ watchers' = Indexed(c, s)
      /\ orphans' = {o \in orphans : o.id \notin taken} /\ reapers' = reapers \ taken
      /\ stored' = stored \ left
      /\ link' = [i \in Ids |-> IF i \in left \cap stored THEN "gone" ELSE link[i]]
  BY DEF Rebind
<1> HIDE DEF taken
<1>2. TypeOK'
  <2>1. watchers' \in [Ids -> SUBSET Clients]
    BY <1>1 DEF TypeOK, Indexed
  <2>2. orphans' \subseteq Controllers /\ reapers' \subseteq Ids /\ stored' \subseteq Rest
    BY <1>1 DEF TypeOK
  <2>3. link' \in [Ids -> {"none", "dialing", "open", "dropped", "gone"}]
    BY <1>1 DEF TypeOK
  <2>4. /\ sid' \in [Clients -> Ids \cup {None}]
        /\ ctrl' \in [Clients -> Controllers \cup {None}]
    BY <1>1 DEF TypeOK
  <2> QED
    BY <1>1, <2>1, <2>2, <2>3, <2>4 DEF TypeOK
<1>3. BindingInv'
  <2>1. \A d \in Clients : ctrl'[d] # None => ctrl'[d].id = sid'[d]
    BY <1>1 DEF TypeOK, BindingInv
  <2>2. \A d \in Clients : sock'[d] = "new" => ctrl'[d] = None
    BY <1>1 DEF TypeOK, BindingInv
  <2>3. \A i \in Ids, d \in Clients : d \in watchers'[i] => sock'[d] = "open" /\ sid'[d] = i
    BY <1>1 DEF TypeOK, BindingInv, Indexed
  <2> QED
    BY <1>1, <2>1, <2>2, <2>3 DEF BindingInv
<1>4. ReaperPerOrphan'
  <2>1. reapers' = {o.id : o \in orphans'}
    BY <1>1 DEF ReaperPerOrphan
  <2> QED
    BY <1>1, <2>1 DEF ReaperPerOrphan, Adopted
<1>5. StoredIsNotGutted'
  BY <1>1, ControllerTypes DEF TypeOK, StoredIsNotGutted
<1> QED
  BY <1>2, <1>3, <1>4, <1>5

\* The end of destroyWsSession(s), with controllers of s in hand
LEMMA DestroyedBinds ==
    ASSUME SafeInv, NEW s \in Ids, NEW ks \in SUBSET Controllers, \A k \in ks : k.id = s,
           Destroyed(s, ks), UNCHANGED <<sock, sid, leaving>>,
           orphans' \subseteq Controllers, reapers' \subseteq Ids, ReaperPerOrphan',
           grip' \in [Ids -> Controllers \cup {None}],
           \A i \in Ids : grip'[i] # None => grip'[i].id = i
    PROVE  SafeInv'
<1> USE DEF SafeInv
<1>1. /\ HangUp(ks \cup Bound(s), {s})
      /\ ctrl' = [c \in Clients |-> IF c \in watchers[s] THEN None ELSE ctrl[c]]
      /\ watchers' = [watchers EXCEPT ![s] = {}]
  BY DEF Destroyed
<1>2. \A k \in Bound(s) : k.id = s
  BY DEF Bound, TypeOK, BindingInv
<1>3. StoredIsNotGutted'
  BY <1>1, <1>2, HangUpStored
<1>4. TypeOK'
  <2>1. /\ ctrl' \in [Clients -> Controllers \cup {None}]
        /\ watchers' \in [Ids -> SUBSET Clients]
    BY <1>1 DEF TypeOK
  <2> QED
    BY <1>1, <2>1, HangUpTypes DEF TypeOK
<1>5. BindingInv'
  BY <1>1 DEF TypeOK, BindingInv
<1> QED
  BY <1>3, <1>4, <1>5

-----------------------------------------------------------------------------
(* Whatever the clients do: the inductive invariant. *)

LEMMA SafeInit == Init => SafeInv
<1> SUFFICES ASSUME Init PROVE SafeInv
  OBVIOUS
<1>1. TypeOK /\ BindingInv
  BY ControllerTypes DEF Init, TypeOK, BindingInv
<1>2. ReaperPerOrphan /\ StoredIsNotGutted
  BY DEF Init, ReaperPerOrphan, StoredIsNotGutted
<1> QED
  BY <1>1, <1>2 DEF SafeInv

LEMMA SafeAccept ==
    ASSUME SafeInv, NEW c \in Clients, NEW s \in Ids \cup {None}, Accept(c, s)
    PROVE  SafeInv'
<1> USE DEF SafeInv
<1>1. /\ sock[c] = "new" /\ sock' = [sock EXCEPT ![c] = "open"] /\ sid' = [sid EXCEPT ![c] = s]
      /\ watchers' = IF s = None THEN watchers ELSE Indexed(c, s)
      /\ UNCHANGED <<ctrl, orphanage, hosts, leaving, grip>>
  BY DEF Accept
<1>2. TypeOK'
  <2>1. watchers' \in [Ids -> SUBSET Clients]
    BY <1>1 DEF TypeOK, Indexed
  <2> QED
    BY <1>1, <2>1 DEF TypeOK, orphanage, hosts
<1>3. BindingInv'
  <2>1. \A d \in Clients : ctrl'[d] # None => ctrl'[d].id = sid'[d]
    BY <1>1 DEF TypeOK, BindingInv
  <2>2. \A d \in Clients : sock'[d] = "new" => ctrl'[d] = None
    BY <1>1 DEF TypeOK, BindingInv
  <2>3. \A i \in Ids, d \in Clients : d \in watchers'[i] => sock'[d] = "open" /\ sid'[d] = i
    BY <1>1 DEF TypeOK, BindingInv, Indexed
  <2> QED
    BY <1>1, <2>1, <2>2, <2>3 DEF BindingInv
<1>4. ReaperPerOrphan' /\ StoredIsNotGutted'
  BY <1>1 DEF ReaperPerOrphan, Adopted, StoredIsNotGutted, orphanage, hosts
<1> QED
  BY <1>2, <1>3, <1>4

LEMMA SafeConnect ==
    ASSUME SafeInv, NEW c \in Clients, NEW o \in Own, Connect(c, o)
    PROVE  SafeInv'
<1> DEFINE new == [id |-> o, by |-> c]
           ended == {k \in orphans : k.id = sid[c]}
                      \cup (IF sid[c] = None THEN {} ELSE {ctrl[c]} \ {None})
<1> USE DEF SafeInv
<1>1. /\ sock[c] = "open" /\ UNCHANGED <<sock, leaving, grip>>
      /\ sid' = [sid EXCEPT ![c] = o] /\ ctrl' = [ctrl EXCEPT ![c] = new]
      /\ watchers' = Indexed(c, o)
      /\ live' = live \ ended /\ holding' = (holding \ ended) \cup {new}
      /\ stored' = stored \ {sid[c]}
      /\ link' = [i \in Ids |->
                    IF i = o THEN "dialing"
                    ELSE IF i \in stored \cap {sid[c]} \/ \E k \in ended \cap holding : k.id = i
                    THEN "gone" ELSE link[i]]
      /\ Unorphan(sid[c])
  BY DEF Connect
<1>2. new \in Controllers /\ new.id = o /\ o \in Ids
  BY ControllerTypes
<1>3. \A k \in ended : k.id = sid[c]
  BY DEF BindingInv
<1> HIDE DEF new, ended
<1>4. orphans' \subseteq Controllers /\ reapers' \subseteq Ids /\ ReaperPerOrphan'
  BY <1>1, UnorphanReaps
<1>5. TypeOK'
  <2>1. watchers' \in [Ids -> SUBSET Clients]
    BY <1>1 DEF TypeOK, Indexed
  <2>2. link' \in [Ids -> {"none", "dialing", "open", "dropped", "gone"}]
    BY <1>1 DEF TypeOK
  <2> QED
    BY <1>1, <1>2, <1>4, <2>1, <2>2 DEF TypeOK
<1>6. BindingInv'
  <2>1. \A d \in Clients : ctrl'[d] # None => ctrl'[d].id = sid'[d]
    BY <1>1, <1>2 DEF TypeOK, BindingInv
  <2>2. \A d \in Clients : sock'[d] = "new" => ctrl'[d] = None
    BY <1>1 DEF TypeOK, BindingInv
  <2>3. \A i \in Ids, d \in Clients : d \in watchers'[i] => sock'[d] = "open" /\ sid'[d] = i
    BY <1>1 DEF TypeOK, BindingInv, Indexed
  <2> QED
    BY <1>1, <2>1, <2>2, <2>3 DEF BindingInv
<1>7. StoredIsNotGutted'
  BY <1>1, <1>3, ControllerTypes DEF TypeOK, StoredIsNotGutted
<1> QED
  BY <1>4, <1>5, <1>6, <1>7

\* The controllers that may be reused are controllers of the session
LEMMA ReusableBelong ==
    ASSUME SafeInv, NEW s \in Ids
    PROVE  \A k \in Reusable(s) : k \in Controllers /\ k.id = s
  BY ControllerTypes DEF SafeInv, TypeOK, BindingInv, Reusable

LEMMA SafeReattach ==
    ASSUME SafeInv, NEW c \in Clients, NEW s \in Ids, Reattach(c, s)
    PROVE  SafeInv'
<1>1. PICK k \in Reusable(s) : Rebind(c, s, k)
  BY DEF Reattach
<1>2. k \in Controllers /\ k.id = s
  BY ReusableBelong
<1>3. live' \subseteq Controllers /\ holding' \subseteq Controllers
  BY DEF Reattach, SafeInv, TypeOK
<1> QED
  BY <1>1, <1>2, <1>3, RebindBinds

LEMMA SafeAdopt ==
    ASSUME SafeInv, NEW c \in Clients, NEW s \in Ids, Adopt(c, s)
    PROVE  SafeInv'
<1> DEFINE new == [id |-> s, by |-> c]
<1>1. new \in Controllers /\ new.id = s
  BY ControllerTypes
<1>2. Rebind(c, s, new) /\ live' = live \cup {new} /\ holding' = holding \cup {new}
  BY DEF Adopt
<1>3. live' \subseteq Controllers /\ holding' \subseteq Controllers
  BY <1>1, <1>2 DEF SafeInv, TypeOK
<1> QED
  BY <1>1, <1>2, <1>3, RebindBinds

LEMMA SafeDisconnectNow ==
    ASSUME SafeInv, NEW c \in Clients, DisconnectNow(c)
    PROVE  SafeInv'
<1> USE DEF SafeInv
<1>1. LetsGo(c) /\ HangUp({ctrl[c]} \ {None}, {sid[c]}) /\ UNCHANGED <<sock, leaving, grip>>
  BY DEF DisconnectNow
<1>2. StoredIsNotGutted'
  BY <1>1, HangUpStored DEF BindingInv
<1>3. TypeOK'
  BY <1>1, LetsGoBinds, HangUpTypes DEF TypeOK
<1>4. BindingInv'
  BY <1>1, LetsGoBinds DEF BindingInv
<1> QED
  BY <1>1, <1>2, <1>3, <1>4, LetsGoBinds

LEMMA SafeDisconnectBegins ==
    ASSUME SafeInv, NEW c \in Clients, DisconnectBegins(c)
    PROVE  SafeInv'
<1> USE DEF SafeInv
<1>1. /\ LetsGo(c) /\ UNCHANGED <<sock, hosts, grip>>
      /\ leaving' = [leaving EXCEPT ![c] = [ctrl |-> ctrl[c], id |-> sid[c]]]
  BY DEF DisconnectBegins
<1>2. [ctrl |-> ctrl[c], id |-> sid[c]] \in Teardowns
  BY <1>1, LetsGoBinds DEF TypeOK, Teardowns
<1>3. TypeOK'
  BY <1>1, <1>2, LetsGoBinds DEF TypeOK, hosts
<1>4. BindingInv'
  <2>1. \A d \in Clients :
          leaving'[d] # None /\ leaving'[d].ctrl # None => leaving'[d].ctrl.id = leaving'[d].id
    BY <1>1 DEF TypeOK, BindingInv
  <2> QED
    BY <1>1, <2>1, LetsGoBinds DEF BindingInv
<1>5. StoredIsNotGutted'
  BY <1>1 DEF StoredIsNotGutted, hosts
<1> QED
  BY <1>1, <1>3, <1>4, <1>5, LetsGoBinds

LEMMA SafeDisconnectEnds ==
    ASSUME SafeInv, NEW c \in Clients, DisconnectEnds(c)
    PROVE  SafeInv'
<1> USE DEF SafeInv
<1>1. /\ leaving[c] # None /\ leaving' = [leaving EXCEPT ![c] = None]
      /\ HangUp({leaving[c].ctrl} \ {None}, {leaving[c].id})
      /\ UNCHANGED <<sock, bindings, orphanage, grip>>
  BY DEF DisconnectEnds
<1>2. StoredIsNotGutted'
  BY <1>1, HangUpStored DEF BindingInv
<1>3. TypeOK'
  BY <1>1, HangUpTypes DEF TypeOK, bindings, orphanage
<1>4. BindingInv' /\ ReaperPerOrphan'
  BY <1>1 DEF BindingInv, ReaperPerOrphan, Adopted, TypeOK, bindings, orphanage
<1> QED
  BY <1>2, <1>3, <1>4

LEMMA SafeGone ==
    ASSUME SafeInv, NEW c \in Clients, NEW how \in {"erred", "closed"}, Gone(c, how)
    PROVE  SafeInv'
<1> USE DEF SafeInv
<1>1. /\ sock[c] \in {"open", "erred"} /\ sock' = [sock EXCEPT ![c] = how]
      /\ orphans' = orphans \cup OrphanedBy(c)
      /\ reapers' = reapers \cup {k.id : k \in OrphanedBy(c)}
      /\ watchers' = [s \in Ids |-> IF s = sid[c] THEN watchers[s] \ {c} ELSE watchers[s]]
      /\ UNCHANGED <<sid, ctrl, hosts, leaving, grip>>
  BY DEF Gone
<1>2. \A k \in OrphanedBy(c) : k \in Controllers /\ k.id \in Ids /\ ~Adopted(k)
  BY ControllerTypes DEF OrphanedBy, TypeOK
<1>3. TypeOK'
  BY <1>1, <1>2 DEF TypeOK, hosts
<1>4. BindingInv'
  BY <1>1 DEF TypeOK, BindingInv
<1>5. ReaperPerOrphan'
  BY <1>1, <1>2 DEF ReaperPerOrphan, Adopted
<1>6. StoredIsNotGutted'
  BY <1>1 DEF StoredIsNotGutted, hosts
<1> QED
  BY <1>3, <1>4, <1>5, <1>6

LEMMA SafeReap ==
    ASSUME SafeInv, NEW s \in Ids, Reap(s)
    PROVE  SafeInv'
<1> USE DEF SafeInv
<1>1. /\ HangUp({k \in orphans : k.id = s}, {}) /\ Unorphan(s)
      /\ UNCHANGED <<sock, bindings, leaving, grip>>
  BY DEF Reap
<1>2. orphans' \subseteq Controllers /\ reapers' \subseteq Ids /\ ReaperPerOrphan'
  BY <1>1, UnorphanReaps
<1>3. \A k \in orphans : k.id \in Own
  BY ControllerTypes DEF ReaperPerOrphan, Adopted, TypeOK
<1>4. StoredIsNotGutted'
  BY <1>1, <1>3, HangUpStored
<1>5. TypeOK'
  BY <1>1, <1>2, HangUpTypes DEF TypeOK, bindings
<1>6. BindingInv'
  BY <1>1 DEF BindingInv, bindings
<1> QED
  BY <1>2, <1>4, <1>5, <1>6

LEMMA SafeBeaconNow ==
    ASSUME SafeInv, NEW s \in Ids, BeaconNow(s)
    PROVE  SafeInv'
<1> DEFINE ks == {k \in orphans : k.id = s}
<1>1. ks \in SUBSET Controllers /\ \A k \in ks : k.id = s
  BY DEF SafeInv, TypeOK
<1>2. Destroyed(s, ks) /\ Unorphan(s) /\ UNCHANGED <<sock, sid, leaving, grip>>
  BY DEF BeaconNow
<1>3. orphans' \subseteq Controllers /\ reapers' \subseteq Ids /\ ReaperPerOrphan'
  BY <1>2, UnorphanReaps DEF SafeInv
<1>4. /\ grip' \in [Ids -> Controllers \cup {None}]
      /\ \A i \in Ids : grip'[i] # None => grip'[i].id = i
  BY <1>2 DEF SafeInv, TypeOK, BindingInv
<1> HIDE DEF ks
<1> QED
  BY <1>1, <1>2, <1>3, <1>4, DestroyedBinds

\* The controller that destroyWsSession() starts with is one of the session's
LEMMA BeaconGrips ==
    ASSUME SafeInv, NEW s \in Ids, BeaconBegins(s)
    PROVE  \E k \in Controllers :
             /\ k.id = s /\ grip' = [grip EXCEPT ![s] = k]
             /\ \/ k \in orphans /\ UNCHANGED ctrl
                \/ \E c \in Clients : ctrl[c] = k /\ ctrl' = [ctrl EXCEPT ![c] = None]
<1>1. CASE \E k \in {o \in orphans : o.id = s} :
             grip' = [grip EXCEPT ![s] = k] /\ UNCHANGED ctrl
  BY <1>1 DEF SafeInv, TypeOK
<1>2. CASE \E c \in watchers[s] :
             /\ ctrl[c] # None /\ grip' = [grip EXCEPT ![s] = ctrl[c]]
             /\ ctrl' = [ctrl EXCEPT ![c] = None]
  <2>1. PICK c \in watchers[s] :
               /\ ctrl[c] # None /\ grip' = [grip EXCEPT ![s] = ctrl[c]]
               /\ ctrl' = [ctrl EXCEPT ![c] = None]
    BY <1>2
  <2>2. c \in Clients /\ ctrl[c] \in Controllers /\ ctrl[c].id = s
    BY <2>1 DEF SafeInv, TypeOK, BindingInv
  <2> QED
    BY <2>1, <2>2
<1> QED
  BY <1>1, <1>2 DEF BeaconBegins

LEMMA SafeBeaconBegins ==
    ASSUME SafeInv, NEW s \in Ids, BeaconBegins(s)
    PROVE  SafeInv'
<1> USE DEF SafeInv
<1>1. Unorphan(s) /\ UNCHANGED <<sock, sid, watchers, hosts, leaving>>
  BY DEF BeaconBegins
<1>2. PICK k \in Controllers :
             /\ k.id = s /\ grip' = [grip EXCEPT ![s] = k]
             /\ \/ k \in orphans /\ UNCHANGED ctrl
                \/ \E c \in Clients : ctrl[c] = k /\ ctrl' = [ctrl EXCEPT ![c] = None]
  BY BeaconGrips
<1>3. orphans' \subseteq Controllers /\ reapers' \subseteq Ids /\ ReaperPerOrphan'
  BY <1>1, UnorphanReaps
<1>4. /\ ctrl' \in [Clients -> Controllers \cup {None}]
      /\ \A d \in Clients : ctrl'[d] \in {ctrl[d], None}
  BY <1>2 DEF TypeOK
<1>5. TypeOK'
  BY <1>1, <1>2, <1>3, <1>4 DEF TypeOK, hosts
<1>6. BindingInv'
  <2>1. \A i \in Ids : grip'[i] # None => grip'[i].id = i
    BY <1>2 DEF TypeOK, BindingInv
  <2> QED
    BY <1>1, <1>4, <2>1 DEF BindingInv
<1>7. StoredIsNotGutted'
  BY <1>1 DEF StoredIsNotGutted, hosts
<1> QED
  BY <1>3, <1>5, <1>6, <1>7

LEMMA SafeBeaconEnds ==
    ASSUME SafeInv, NEW s \in Ids, BeaconEnds(s)
    PROVE  SafeInv'
<1>1. /\ grip[s] # None /\ Destroyed(s, {grip[s]})
      /\ grip' = [grip EXCEPT ![s] = None] /\ UNCHANGED <<sock, sid, orphanage, leaving>>
  BY DEF BeaconEnds
<1>2. {grip[s]} \in SUBSET Controllers /\ \A k \in {grip[s]} : k.id = s
  BY <1>1 DEF SafeInv, TypeOK, BindingInv
<1>3. orphans' \subseteq Controllers /\ reapers' \subseteq Ids /\ ReaperPerOrphan'
  BY <1>1 DEF SafeInv, TypeOK, ReaperPerOrphan, Adopted, orphanage
<1>4. /\ grip' \in [Ids -> Controllers \cup {None}]
      /\ \A i \in Ids : grip'[i] # None => grip'[i].id = i
  BY <1>1 DEF SafeInv, TypeOK, BindingInv
<1> QED
  BY <1>1, <1>2, <1>3, <1>4, DestroyedBinds

LEMMA SafeDialEnds ==
    ASSUME SafeInv, NEW o \in Own, NEW up \in BOOLEAN, DialEnds(o, up)
    PROVE  SafeInv'
<1> USE DEF SafeInv
<1>1. /\ link' = [link EXCEPT ![o] = IF up THEN "open" ELSE "dropped"]
      /\ live' \subseteq live \cup holding
      /\ UNCHANGED <<sock, bindings, orphanage, holding, stored, leaving, grip>>
  BY DEF DialEnds
<1>2. TypeOK'
  BY <1>1 DEF TypeOK, bindings, orphanage
<1>3. BindingInv' /\ ReaperPerOrphan'
  BY <1>1 DEF BindingInv, ReaperPerOrphan, Adopted, bindings, orphanage
<1>4. StoredIsNotGutted'
  BY <1>1, ControllerTypes DEF StoredIsNotGutted, TypeOK
<1> QED
  BY <1>2, <1>3, <1>4

LEMMA SafeHostDrops ==
    ASSUME SafeInv, NEW s \in Ids, HostDrops(s)
    PROVE  SafeInv'
<1> USE DEF SafeInv
<1>1. /\ link' = [link EXCEPT ![s] = "dropped"] /\ live' \subseteq live
      /\ UNCHANGED <<sock, bindings, orphanage, holding, stored, leaving, grip>>
  BY DEF HostDrops
<1>2. TypeOK'
  BY <1>1 DEF TypeOK, bindings, orphanage
<1>3. BindingInv' /\ ReaperPerOrphan'
  BY <1>1 DEF BindingInv, ReaperPerOrphan, Adopted, bindings, orphanage
<1>4. StoredIsNotGutted'
  BY <1>1, ControllerTypes DEF StoredIsNotGutted, TypeOK
<1> QED
  BY <1>2, <1>3, <1>4

LEMMA SafeRest ==
    ASSUME SafeInv, NEW r \in Rest, RestConnects(r) \/ RestRemoved(r)
    PROVE  SafeInv'
<1> USE DEF SafeInv
<1>1. UNCHANGED <<sock, bindings, orphanage, leaving, grip>>
  BY DEF RestConnects, RestRemoved
<1>2. BindingInv' /\ ReaperPerOrphan'
  BY <1>1 DEF BindingInv, ReaperPerOrphan, Adopted, bindings, orphanage
<1>3. CASE RestConnects(r)
  BY <1>1, <1>2, <1>3, ControllerTypes
     DEF RestConnects, TypeOK, StoredIsNotGutted, bindings, orphanage
<1>4. CASE RestRemoved(r)
  <2>1. HangUp({}, {r})
    BY <1>4 DEF RestRemoved
  <2>2. TypeOK'
    BY <1>1, <2>1, HangUpTypes DEF TypeOK, bindings, orphanage
  <2> QED
    BY <1>2, <2>1, <2>2, HangUpStored
<1> QED
  BY <1>3, <1>4

LEMMA SafeStep == SafeInv /\ [Next]_vars => SafeInv'
<1> SUFFICES ASSUME SafeInv, [Next]_vars PROVE SafeInv'
  OBVIOUS
<1>1. CASE UNCHANGED vars
  BY <1>1 DEF vars, bindings, orphanage, hosts, SafeInv, TypeOK, BindingInv,
              ReaperPerOrphan, Adopted, StoredIsNotGutted
<1> QED
  BY <1>1, ControllerTypes, SafeAccept, SafeConnect, SafeReattach, SafeAdopt,
     SafeDisconnectNow, SafeDisconnectBegins, SafeDisconnectEnds, SafeGone, SafeReap,
     SafeBeaconNow, SafeBeaconBegins, SafeBeaconEnds, SafeDialEnds, SafeHostDrops, SafeRest
     DEF Next

LEMMA SafeAlways == Spec => []SafeInv
  BY SafeInit, SafeStep, PTL DEF Spec

(* Types of the relay's variables, whatever the clients do. *)
THEOREM RelayTypes == Spec => []TypeOK
<1>1. SafeInv => TypeOK
  BY DEF SafeInv
<1> QED
  BY <1>1, SafeAlways, PTL

(* removeClient(), cancelOrphanReap() and scheduleOrphanReap(): each orphan *)
(* has its reap timer and each timer its orphan, and no session of the     *)
(* store is ever orphaned, whatever the clients do.                        *)
THEOREM OrphansAreReaped == Spec => []ReaperPerOrphan
<1>1. SafeInv => ReaperPerOrphan
  BY DEF SafeInv
<1> QED
  BY <1>1, SafeAlways, PTL

(* No WebSocket client destroys the handler of a session that stays stored *)
(* (adoptExisting(): a shared handler is not the controller's to destroy). *)
THEOREM StoredKeepHandlers == Spec => []StoredIsNotGutted
<1>1. SafeInv => StoredIsNotGutted
  BY DEF SafeInv
<1> QED
  BY <1>1, SafeAlways, PTL

-----------------------------------------------------------------------------
(* While the clients make none of the Moves: no connection leaks.          *)
(* A controller that somebody refers to is firm: as long as its connection *)
(* is alive it has the handler, so that whoever hangs it up closes the     *)
(* connection, and its connected flag is set, so that a client that goes   *)
(* leaves it as an orphan.                                                 *)

Firm(k) ==
    k.id \in Own =>
        /\ link[k.id] # "none"
        /\ link[k.id] \in {"dialing", "open"} => k \in holding
        /\ link[k.id] = "open" => k \in live

RefsAreFirm ==
    /\ \A k \in orphans : Firm(k)
    /\ \A c \in Clients : ctrl[c] # None => Firm(ctrl[c])
    /\ \A c \in Clients : leaving[c] # None /\ leaving[c].ctrl # None => Firm(leaving[c].ctrl)
    /\ \A s \in Ids : grip[s] # None => Firm(grip[s])

\* The client that dials a session stays with it
DialersStay == \A s \in Own : link[s] = "dialing" => InUse(s)

\* An open client that has a controller hears of its session
DriversWatch ==
    \A c \in Clients : sock[c] = "open" /\ ctrl[c] # None => c \in watchers[sid[c]]

LeakInv == SafeInv /\ RefsAreFirm /\ DialersStay /\ DriversWatch /\ NoneLeaks

\* NoneLeaks without the reapers, which are one per orphan
InCare(s) == InUse(s) \/ InTeardown(s) \/ \E k \in orphans : k.id = s

LEMMA InCareNow == LeakInv => \A s \in Own : link[s] = "open" => InCare(s)
  BY DEF LeakInv, NoneLeaks, InHands, InCare

LEMMA InCareNext ==
    ASSUME SafeInv', \A s \in Own : link'[s] = "open" => InCare(s)'
    PROVE  NoneLeaks'
  BY DEF SafeInv, ReaperPerOrphan, NoneLeaks, InHands, InCare

\* References that were there before, to controllers that are as firm as they
\* were, and references to firm controllers, make RefsAreFirm
LEMMA FirmRefs ==
    ASSUME SafeInv, RefsAreFirm, NEW k,
           \A x \in Controllers : Firm(x) => Firm(x)',
           k \in Controllers \cup {None}, k # None => Firm(k)',
           \A x \in orphans' : x \in orphans \/ (x = k /\ k # None),
           \A c \in Clients : ctrl'[c] \in {ctrl[c], k, None},
           \A c \in Clients : \/ leaving'[c] \in {leaving[c], None}
                              \/ leaving'[c].ctrl \in {k, None},
           \A s \in Ids : grip'[s] \in {grip[s], k, None}
    PROVE  RefsAreFirm'
<1>1. \A x \in orphans' : Firm(x)'
  BY ControllerTypes DEF RefsAreFirm, SafeInv, TypeOK
<1>2. \A c \in Clients : ctrl'[c] # None => Firm(ctrl[c])'
  BY DEF RefsAreFirm, SafeInv, TypeOK
<1>3. \A c \in Clients :
        leaving'[c] # None /\ leaving'[c].ctrl # None => Firm(leaving[c].ctrl)'
  BY ControllerTypes DEF RefsAreFirm, SafeInv, TypeOK
<1>4. \A s \in Ids : grip'[s] # None => Firm(grip[s])'
  BY DEF RefsAreFirm, SafeInv, TypeOK
<1> QED
  BY <1>1, <1>2, <1>3, <1>4 DEF RefsAreFirm

\* HangUp() leaves controllers as firm as they were, and closes the
\* connection of each firm controller it is about
LEMMA HangUpFirm ==
    ASSUME TypeOK, NEW ks, NEW ss, HangUp(ks, ss)
    PROVE  /\ \A k \in Controllers : Firm(k) => Firm(k)'
           /\ \A i \in Ids : link'[i] \in {link[i], "gone"}
           /\ \A k \in ks : k \in Controllers /\ k.id \in Own /\ Firm(k) =>
                link'[k.id] \notin {"dialing", "open"}
<1>1. /\ live' = live \ ks /\ holding' = holding \ ks
      /\ \A i \in Ids : link'[i] = IF i \in ss \cap stored \/ \E k \in ks \cap holding : k.id = i
                                   THEN "gone" ELSE link[i]
  BY DEF HangUp
<1>2. ASSUME NEW k \in Controllers, Firm(k) PROVE Firm(k)'
  BY <1>1, <1>2, ControllerTypes DEF Firm
<1>3. ASSUME NEW k \in ks, k \in Controllers, k.id \in Own, Firm(k)
      PROVE  link'[k.id] \notin {"dialing", "open"}
  BY <1>1, <1>3, ControllerTypes DEF Firm
<1> QED
  BY <1>1, <1>2, <1>3

\* Rebind() of c to s, in a store where nothing is left behind
LEMMA RebindKeeps ==
    ASSUME LeakInv, SafeInv', Moves = {}, NEW c \in Clients, NEW s \in Ids,
           NEW k \in Controllers, k.id = s,
           Rebind(c, s, k), live \subseteq live', holding \subseteq holding', Firm(k)'
    PROVE  LeakInv'
<1> USE DEF LeakInv, SafeInv
<1>1. /\ sock[c] = "open" /\ UNCHANGED <<sock, leaving, grip>>
      /\ sid' = [sid EXCEPT ![c] = s] /\ ctrl' = [ctrl EXCEPT ![c] = k]
      /\ watchers' = Indexed(c, s)
      /\ sid[c] \in {None, s}
      /\ \A o \in orphans : o \in orphans' \/ o.id = s
      /\ orphans' \subseteq orphans
      /\ \A i \in Ids : link'[i] = link[i]
  BY DEF Rebind
<1>2. RefsAreFirm'
  <2>1. \A x \in Controllers : Firm(x) => Firm(x)'
    BY <1>1, ControllerTypes DEF Firm
  <2> QED
    BY <1>1, <2>1, FirmRefs DEF TypeOK
<1>3. \A i \in Ids : InUse(i) => InUse(i)'
  BY <1>1, ControllerTypes DEF InUse, BindingInv, TypeOK
<1>4. InUse(s)'
  BY <1>1, ControllerTypes DEF InUse, TypeOK
<1>5. DialersStay'
  BY <1>1, <1>3, ControllerTypes DEF DialersStay
<1>6. DriversWatch'
  BY <1>1, ControllerTypes DEF DriversWatch, Indexed, TypeOK, BindingInv
<1>7. NoneLeaks'
  <2>2. ASSUME NEW i \in Own, link'[i] = "open" PROVE InCare(i)'
    <3>1. InCare(i)
      BY <1>1, <2>2, InCareNow, ControllerTypes
    <3>2. CASE i = s
      BY <1>4, <3>2 DEF InCare
    <3>3. CASE i # s /\ InTeardown(i)
      BY <1>1, <3>3 DEF InCare, InTeardown
    <3>4. CASE i # s /\ \E o \in orphans : o.id = i
      BY <1>1, <3>4 DEF InCare
    <3> QED
      BY <1>3, <3>1, <3>2, <3>3, <3>4, ControllerTypes DEF InCare
  <2> QED
    BY <1>1, <2>2, InCareNext, ControllerTypes
<1> QED
  BY <1>2, <1>5, <1>6, <1>7

\* What a client that lets go changes for others: nothing
LEMMA LetsGoKeeps ==
    ASSUME LeakInv, NEW c \in Clients, LetsGo(c), sock' = sock
    PROVE  /\ \A i \in Ids : i # sid[c] /\ InUse(i) => InUse(i)'
           /\ \A k \in orphans : k \in orphans' \/ k.id = sid[c]
           /\ orphans' \subseteq orphans
           /\ \A d \in Clients : ctrl'[d] \in {ctrl[d], None}
           /\ DriversWatch'
<1> USE DEF LeakInv, SafeInv
<1>1. /\ sid' = [sid EXCEPT ![c] = None] /\ ctrl' = [ctrl EXCEPT ![c] = None]
      /\ watchers' = [watchers EXCEPT ![sid[c]] = @ \ {c}]
      /\ Unorphan(sid[c])
  BY DEF LetsGo
<1>2. \A i \in Ids : i # sid[c] /\ InUse(i) => InUse(i)'
  BY <1>1 DEF InUse, BindingInv, TypeOK
<1>3. /\ \A k \in orphans : k \in orphans' \/ k.id = sid[c]
      /\ orphans' \subseteq orphans
  BY <1>1 DEF Unorphan
<1>4. \A d \in Clients : ctrl'[d] \in {ctrl[d], None}
  BY <1>1 DEF TypeOK
<1>5. DriversWatch'
  BY <1>1, ControllerTypes DEF DriversWatch, BindingInv, TypeOK
<1> QED
  BY <1>2, <1>3, <1>4, <1>5

LEMMA LeakInit == Init => LeakInv
<1> SUFFICES ASSUME Init PROVE LeakInv
  OBVIOUS
<1>1. RefsAreFirm /\ DriversWatch
  BY DEF Init, RefsAreFirm, DriversWatch
<1>2. DialersStay /\ NoneLeaks
  BY ControllerTypes DEF Init, DialersStay, NoneLeaks
<1> QED
  BY <1>1, <1>2, SafeInit DEF LeakInv

LEMMA LeakAccept ==
    ASSUME LeakInv, SafeInv', NEW c \in Clients, NEW s \in Ids \cup {None}, Accept(c, s)
    PROVE  LeakInv'
<1> USE DEF LeakInv, SafeInv
<1>1. /\ sock[c] = "new" /\ sock' = [sock EXCEPT ![c] = "open"] /\ sid' = [sid EXCEPT ![c] = s]
      /\ watchers' = IF s = None THEN watchers ELSE Indexed(c, s)
      /\ UNCHANGED <<ctrl, orphans, live, holding, link, leaving, grip>>
  BY DEF Accept, orphanage, hosts
<1>2. RefsAreFirm'
  BY <1>1 DEF RefsAreFirm, Firm
<1>3. \A i \in Ids : InUse(i) => InUse(i)'
  BY <1>1 DEF InUse, TypeOK
<1>4. DialersStay'
  BY <1>1, <1>3, ControllerTypes DEF DialersStay
<1>5. DriversWatch'
  BY <1>1, ControllerTypes DEF DriversWatch, Indexed, BindingInv, TypeOK
<1>6. NoneLeaks'
  BY <1>1, <1>3, InCareNow, InCareNext, ControllerTypes DEF InCare, InTeardown
<1> QED
  BY <1>2, <1>4, <1>5, <1>6

LEMMA LeakConnect ==
    ASSUME LeakInv, SafeInv', NEW c \in Clients, NEW o \in Own, Connect(c, o)
    PROVE  LeakInv'
<1> DEFINE new == [id |-> o, by |-> c]
           ended == {k \in orphans : k.id = sid[c]}
                      \cup (IF sid[c] = None THEN {} ELSE {ctrl[c]} \ {None})
<1> USE DEF LeakInv, SafeInv
<1>1. /\ sock[c] = "open" /\ link[o] = "none" /\ UNCHANGED <<sock, leaving, grip>>
      /\ sid' = [sid EXCEPT ![c] = o] /\ ctrl' = [ctrl EXCEPT ![c] = new]
      /\ watchers' = Indexed(c, o)
      /\ live' = live \ ended /\ holding' = (holding \ ended) \cup {new}
      /\ \A i \in Ids : link'[i] =
           IF i = o THEN "dialing"
           ELSE IF i \in stored \cap {sid[c]} \/ \E k \in ended \cap holding : k.id = i
           THEN "gone" ELSE link[i]
      /\ Unorphan(sid[c])
  BY DEF Connect
<1>2. new \in Controllers /\ new.id = o /\ o \in Ids /\ new # None
  BY ControllerTypes
<1>3. \A k \in ended : k \in Controllers /\ k.id = sid[c] /\ Firm(k)
  BY DEF BindingInv, RefsAreFirm, TypeOK
<1>4. \A k \in orphans : k.id = sid[c] => k \in ended
  OBVIOUS
<1>5. ctrl[c] # None => ctrl[c] \in ended
  BY ControllerTypes DEF BindingInv, TypeOK
<1> HIDE DEF new, ended
<1>6. /\ \A k \in orphans : k \in orphans' \/ k.id = sid[c]
      /\ orphans' \subseteq orphans
  BY <1>1 DEF Unorphan
<1>7. RefsAreFirm'
  <2>1. ASSUME NEW k \in Controllers, Firm(k) PROVE Firm(k)'
    BY <1>1, <1>2, <1>3, <2>1, ControllerTypes DEF Firm
  <2>2. Firm(new)'
    BY <1>1, <1>2 DEF Firm
  <2> QED
    BY <1>1, <1>2, <1>6, <2>1, <2>2, FirmRefs DEF TypeOK
<1>8. \A k \in ended : k.id \in Own /\ k.id # o => link'[k.id] \notin {"dialing", "open"}
  BY <1>1, <1>3, ControllerTypes DEF Firm
<1>9. \A i \in Own : i # o /\ link'[i] \in {"dialing", "open"} =>
           link[i] = link'[i] /\ (\A k \in ended : k.id # i)
  BY <1>1, <1>8, ControllerTypes
<1>10. InUse(o)'
  BY <1>1, <1>2 DEF InUse, TypeOK
<1>11. ASSUME NEW i \in Own, i # o, link'[i] \in {"dialing", "open"}, InUse(i) PROVE InUse(i)'
  BY <1>1, <1>5, <1>9, <1>11 DEF InUse, TypeOK
<1>12. DialersStay'
  BY <1>9, <1>10, <1>11 DEF DialersStay
<1>13. DriversWatch'
  BY <1>1, ControllerTypes DEF DriversWatch, Indexed, BindingInv, TypeOK
<1>14. ASSUME NEW i \in Own, link'[i] = "open" PROVE InCare(i)'
  <2>1. i # o /\ InCare(i)
    BY <1>1, <1>9, <1>14, ControllerTypes, InCareNow
  <2>2. CASE InTeardown(i)
    BY <1>1, <2>2 DEF InCare, InTeardown
  <2>3. CASE \E k \in orphans : k.id = i
    BY <1>4, <1>6, <1>9, <1>14, <2>1, <2>3 DEF InCare
  <2> QED
    BY <1>11, <1>14, <2>1, <2>2, <2>3 DEF InCare
<1> QED
  BY <1>7, <1>12, <1>13, <1>14, InCareNext

LEMMA LeakReattach ==
    ASSUME LeakInv, SafeInv', Moves = {}, NEW c \in Clients, NEW s \in Ids, Reattach(c, s)
    PROVE  LeakInv'
<1> USE DEF LeakInv, SafeInv
<1>1. PICK k \in Reusable(s) : Rebind(c, s, k)
  BY DEF Reattach
<1>2. k \in Controllers /\ k.id = s
  BY ReusableBelong
<1>3. UNCHANGED <<live, holding>> /\ \A i \in Ids : i \notin {sid[c]} \ {s} => link'[i] = link[i]
  BY <1>1 DEF Reattach, Rebind
<1>4. Firm(k)
  BY <1>2, ControllerTypes DEF Reusable, RefsAreFirm, TypeOK
<1>5. Firm(k)'
  BY <1>2, <1>3, <1>4 DEF Firm
<1> QED
  BY <1>1, <1>2, <1>3, <1>5, RebindKeeps

LEMMA LeakAdopt ==
    ASSUME LeakInv, SafeInv', Moves = {}, NEW c \in Clients, NEW s \in Ids, Adopt(c, s)
    PROVE  LeakInv'
<1> DEFINE new == [id |-> s, by |-> c]
<1>1. new \in Controllers /\ new.id = s
  BY ControllerTypes
<1>2. Rebind(c, s, new) /\ live' = live \cup {new} /\ holding' = holding \cup {new}
  BY DEF Adopt
<1>3. s \notin Own
  BY ControllerTypes DEF Adopt, LeakInv, SafeInv, TypeOK
<1>4. Firm(new)'
  BY <1>1, <1>3 DEF Firm
<1> HIDE DEF new
<1> QED
  BY <1>1, <1>2, <1>4, RebindKeeps

LEMMA LeakDisconnectNow ==
    ASSUME LeakInv, SafeInv', Moves = {}, NEW c \in Clients, DisconnectNow(c)
    PROVE  LeakInv'
<1> USE DEF LeakInv, SafeInv
<1>1. LetsGo(c) /\ HangUp({ctrl[c]} \ {None}, {sid[c]}) /\ UNCHANGED <<sock, leaving, grip>>
  BY DEF DisconnectNow
<1>2. sid[c] \in Own => ctrl[c] \in {ctrl[c]} \ {None} /\ ctrl[c].id = sid[c]
  BY <1>1 DEF LetsGo, BindingInv
<1>3. sid[c] \in Own => link'[sid[c]] \notin {"dialing", "open"}
  BY <1>1, <1>2, HangUpFirm DEF RefsAreFirm, TypeOK
<1>4. \A i \in Own : link'[i] \in {"dialing", "open"} => i # sid[c] /\ link[i] = link'[i]
  BY <1>1, <1>3, HangUpFirm, ControllerTypes
<1>5. RefsAreFirm'
  <2>1. \A k \in Controllers : Firm(k) => Firm(k)'
    BY <1>1, HangUpFirm
  <2> QED
    BY <1>1, <2>1, FirmRefs, LetsGoKeeps
<1>6. DialersStay'
  BY <1>1, <1>4, LetsGoKeeps, ControllerTypes DEF DialersStay
<1>7. NoneLeaks'
  <2>1. ASSUME NEW i \in Own, link'[i] = "open" PROVE InCare(i)'
    <3>1. i # sid[c] /\ InCare(i)
      BY <1>4, <2>1, InCareNow
    <3>2. InTeardown(i) => InTeardown(i)'
      BY <1>1 DEF InTeardown
    <3> QED
      BY <1>1, <3>1, <3>2, LetsGoKeeps, ControllerTypes DEF InCare
  <2> QED
    BY <2>1, InCareNext
<1> QED
  BY <1>1, <1>5, <1>6, <1>7, LetsGoKeeps

LEMMA LeakDisconnectBegins ==
    ASSUME LeakInv, SafeInv', Moves = {}, NEW c \in Clients, DisconnectBegins(c)
    PROVE  LeakInv'
<1> USE DEF LeakInv, SafeInv
<1>1. /\ LetsGo(c) /\ link[sid[c]] = "open" /\ leaving[c] = None
      /\ leaving' = [leaving EXCEPT ![c] = [ctrl |-> ctrl[c], id |-> sid[c]]]
      /\ UNCHANGED <<sock, live, holding, link, grip>>
  BY DEF DisconnectBegins, hosts
<1>2. RefsAreFirm'
  <2>1. \A k \in Controllers : Firm(k) => Firm(k)'
    BY <1>1 DEF Firm
  <2> PICK k : k = ctrl[c]
    OBVIOUS
  <2>2. k \in Controllers \cup {None} /\ (k # None => Firm(k)')
    BY <2>1 DEF RefsAreFirm, TypeOK
  <2>3. \A d \in Clients : leaving'[d] = leaving[d] \/ leaving'[d].ctrl = k
    BY <1>1 DEF TypeOK
  <2> QED
    BY <1>1, <2>1, <2>2, <2>3, FirmRefs, LetsGoKeeps
<1>3. DialersStay'
  BY <1>1, LetsGoKeeps, ControllerTypes DEF DialersStay
<1>4. ASSUME NEW i \in Own, link'[i] = "open" PROVE InCare(i)'
  <2>1. InCare(i)
    BY <1>1, <1>4, InCareNow
  <2>2. CASE i = sid[c]
    <3>1. ctrl[c] # None /\ ctrl[c].id = i
      BY <1>1, <2>2 DEF LetsGo, BindingInv
    <3>2. [ctrl |-> ctrl[c], id |-> sid[c]] \in Teardowns
      BY <1>1, LetsGoBinds DEF TypeOK, Teardowns
    <3>3. leaving'[c] # None /\ leaving'[c].ctrl = ctrl[c]
      BY <1>1, <3>2, ControllerTypes DEF TypeOK
    <3> QED
      BY <3>1, <3>3 DEF InCare, InTeardown
  <2>3. CASE i # sid[c]
    <3>1. InTeardown(i) => InTeardown(i)'
      BY <1>1 DEF InTeardown, TypeOK
    <3> QED
      BY <1>1, <2>1, <2>3, <3>1, LetsGoKeeps, ControllerTypes DEF InCare
  <2> QED
    BY <2>2, <2>3
<1> QED
  BY <1>1, <1>2, <1>3, <1>4, InCareNext, LetsGoKeeps

LEMMA LeakDisconnectEnds ==
    ASSUME LeakInv, SafeInv', NEW c \in Clients, DisconnectEnds(c)
    PROVE  LeakInv'
<1> USE DEF LeakInv, SafeInv
<1>1. /\ leaving[c] # None /\ leaving' = [leaving EXCEPT ![c] = None]
      /\ HangUp({leaving[c].ctrl} \ {None}, {leaving[c].id})
      /\ UNCHANGED <<sock, sid, ctrl, watchers, orphans, grip>>
  BY DEF DisconnectEnds, bindings, orphanage
<1>2. \A k \in {leaving[c].ctrl} \ {None} : k \in Controllers /\ Firm(k)
  BY <1>1, ControllerTypes DEF RefsAreFirm, TypeOK
<1>3. \A i \in Own : link'[i] \in {"dialing", "open"} =>
           link[i] = link'[i] /\ (leaving[c].ctrl # None => leaving[c].ctrl.id # i)
  BY <1>1, <1>2, HangUpFirm, ControllerTypes
<1>4. RefsAreFirm'
  <2>1. \A k \in Controllers : Firm(k) => Firm(k)'
    BY <1>1, HangUpFirm
  <2>2. \A d \in Clients : leaving'[d] \in {leaving[d], None}
    BY <1>1 DEF TypeOK
  <2> QED
    BY <1>1, <2>1, <2>2, FirmRefs
<1>5. DialersStay' /\ DriversWatch'
  BY <1>1, <1>3 DEF DialersStay, DriversWatch, InUse
<1>6. ASSUME NEW i \in Own, link'[i] = "open" PROVE InCare(i)'
  <2>1. InCare(i)
    BY <1>3, <1>6, InCareNow
  <2>2. InTeardown(i) => InTeardown(i)'
    BY <1>1, <1>3, <1>6 DEF InTeardown, TypeOK
  <2> QED
    BY <1>1, <2>1, <2>2 DEF InCare, InUse
<1> QED
  BY <1>4, <1>5, <1>6, InCareNext

LEMMA LeakGone ==
    ASSUME LeakInv, SafeInv', Moves = {},
           NEW c \in Clients, NEW how \in {"erred", "closed"}, Gone(c, how)
    PROVE  LeakInv'
<1> USE DEF LeakInv, SafeInv
<1>1. /\ sock' = [sock EXCEPT ![c] = how]
      /\ ~(sid[c] # None /\ link[sid[c]] = "dialing")
      /\ orphans' = orphans \cup OrphanedBy(c)
      /\ watchers' = [s \in Ids |-> IF s = sid[c] THEN watchers[s] \ {c} ELSE watchers[s]]
      /\ UNCHANGED <<sid, ctrl, live, holding, link, leaving, grip>>
  BY DEF Gone, hosts
<1>2. OrphanedBy(c) \subseteq {ctrl[c]} \ {None}
  BY ControllerTypes DEF OrphanedBy, TypeOK
<1>3. RefsAreFirm'
  <2>1. \A k \in Controllers : Firm(k) => Firm(k)'
    BY <1>1 DEF Firm
  <2> PICK k : k = ctrl[c]
    OBVIOUS
  <2>2. k \in Controllers \cup {None} /\ (k # None => Firm(k)')
    BY <2>1 DEF RefsAreFirm, TypeOK
  <2>3. \A x \in orphans' : x \in orphans \/ (x = k /\ k # None)
    BY <1>1, <1>2
  <2> QED
    BY <1>1, <2>1, <2>2, <2>3, FirmRefs
<1>4. \A i \in Ids : InUse(i) => InUse(i)' \/ (ctrl[c] # None /\ ctrl[c].id = i)
  BY <1>1 DEF InUse, TypeOK
<1>5. DialersStay'
  BY <1>1, <1>4, ControllerTypes DEF DialersStay, BindingInv
<1>6. DriversWatch'
  BY <1>1, ControllerTypes DEF DriversWatch, BindingInv, TypeOK
<1>7. ASSUME NEW i \in Own, link'[i] = "open" PROVE InCare(i)'
  <2>1. InCare(i)
    BY <1>1, <1>7, InCareNow
  <2>2. CASE ctrl[c] # None /\ ctrl[c].id = i
    <3>1. ctrl[c] \in live /\ ~Adopted(ctrl[c])
      BY <1>1, <1>7, <2>2, ControllerTypes DEF RefsAreFirm, Firm, Adopted
    <3>2. ctrl[c] \in orphans'
      BY <1>1, <2>2, <3>1 DEF OrphanedBy
    <3> QED
      BY <2>2, <3>2 DEF InCare
  <2>3. InTeardown(i) => InTeardown(i)'
    BY <1>1 DEF InTeardown
  <2> QED
    BY <1>1, <1>4, <2>1, <2>2, <2>3, ControllerTypes DEF InCare
<1> QED
  BY <1>3, <1>5, <1>6, <1>7, InCareNext

LEMMA LeakReap ==
    ASSUME LeakInv, SafeInv', NEW s \in Ids, Reap(s)
    PROVE  LeakInv'
<1> DEFINE ks == {k \in orphans : k.id = s}
<1> USE DEF LeakInv, SafeInv
<1>1. /\ HangUp(ks, {})
      /\ orphans' = {k \in orphans : k.id # s}
      /\ UNCHANGED <<sock, sid, ctrl, watchers, leaving, grip>>
  BY DEF Reap, Unorphan, bindings
<1>2. \A k \in ks : k \in Controllers /\ k.id = s /\ Firm(k)
  BY DEF RefsAreFirm, TypeOK
<1>3. \A k \in orphans : k.id = s => k \in ks
  OBVIOUS
<1> HIDE DEF ks
<1>4. \A i \in Own : link'[i] \in {"dialing", "open"} =>
           link[i] = link'[i] /\ (\A k \in ks : k.id # i)
  BY <1>1, <1>2, HangUpFirm, ControllerTypes
<1>5. RefsAreFirm'
  <2>1. \A k \in Controllers : Firm(k) => Firm(k)'
    BY <1>1, HangUpFirm
  <2> QED
    BY <1>1, <2>1, FirmRefs
<1>6. DialersStay' /\ DriversWatch'
  BY <1>1, <1>4 DEF DialersStay, DriversWatch, InUse
<1>7. \A i \in Own : link'[i] = "open" => InCare(i)'
  BY <1>1, <1>3, <1>4, InCareNow DEF InCare, InUse, InTeardown
<1> QED
  BY <1>5, <1>6, <1>7, InCareNext

\* The end of destroyWsSession(s): what is alive afterwards was alive before,
\* and no client was bound to it through s
LEMMA DestroyedKeeps ==
    ASSUME LeakInv, NEW s \in Ids, NEW ks \in SUBSET Controllers,
           \A k \in ks : k.id = s /\ Firm(k), Destroyed(s, ks), UNCHANGED <<sock, sid>>
    PROVE  /\ \A k \in Controllers : Firm(k) => Firm(k)'
           /\ \A d \in Clients : ctrl'[d] \in {ctrl[d], None}
           /\ \A i \in Own : link'[i] \in {"dialing", "open"} =>
                /\ link[i] = link'[i] /\ (\A k \in ks : k.id # i)
                /\ InUse(i) => InUse(i)'
           /\ DriversWatch'
<1> USE DEF LeakInv, SafeInv
<1>1. /\ HangUp(ks \cup Bound(s), {s})
      /\ ctrl' = [c \in Clients |-> IF c \in watchers[s] THEN None ELSE ctrl[c]]
      /\ watchers' = [watchers EXCEPT ![s] = {}]
  BY DEF Destroyed
<1>2. \A k \in ks \cup Bound(s) : k \in Controllers /\ k.id = s /\ Firm(k)
  BY DEF Bound, RefsAreFirm, BindingInv, TypeOK
<1>3. \A k \in Controllers : Firm(k) => Firm(k)'
  BY <1>1, HangUpFirm
<1>4. \A d \in Clients : ctrl'[d] \in {ctrl[d], None}
  BY <1>1 DEF TypeOK
<1>5. ASSUME NEW i \in Own, link'[i] \in {"dialing", "open"}
      PROVE  link[i] = link'[i] /\ \A k \in ks \cup Bound(s) : k.id # i
  BY <1>1, <1>2, <1>5, HangUpFirm, ControllerTypes
<1>6. ASSUME NEW i \in Own, link'[i] \in {"dialing", "open"}, InUse(i)
      PROVE  InUse(i)'
  <2>1. PICK d \in Clients : sock[d] = "open" /\ ctrl[d] # None /\ ctrl[d].id = i
    BY <1>6 DEF InUse
  <2>2. d \notin watchers[s]
    BY <1>5, <1>6, <2>1 DEF Bound
  <2> QED
    BY <1>1, <2>1, <2>2 DEF InUse
<1>7. DriversWatch'
  BY <1>1, ControllerTypes DEF DriversWatch, BindingInv, TypeOK
<1> QED
  BY <1>3, <1>4, <1>5, <1>6, <1>7

LEMMA LeakBeaconNow ==
    ASSUME LeakInv, SafeInv', NEW s \in Ids, BeaconNow(s)
    PROVE  LeakInv'
<1> DEFINE ks == {k \in orphans : k.id = s}
<1> USE DEF LeakInv, SafeInv
<1>1. /\ Destroyed(s, ks) /\ UNCHANGED <<sock, sid, leaving, grip>>
      /\ orphans' = {k \in orphans : k.id # s}
  BY DEF BeaconNow, Unorphan
<1>2. ks \in SUBSET Controllers /\ \A k \in ks : k.id = s /\ Firm(k)
  BY DEF RefsAreFirm, TypeOK
<1>3. \A k \in orphans : k.id = s => k \in ks
  OBVIOUS
<1> HIDE DEF ks
<1>4. RefsAreFirm'
  BY <1>1, <1>2, FirmRefs, DestroyedKeeps
<1>5. DialersStay' /\ DriversWatch'
  BY <1>1, <1>2, DestroyedKeeps DEF DialersStay
<1>6. ASSUME NEW i \in Own, link'[i] = "open" PROVE InCare(i)'
  <2>1. link[i] = "open" /\ (\A k \in ks : k.id # i) /\ (InUse(i) => InUse(i)')
    BY <1>1, <1>2, <1>6, DestroyedKeeps
  <2>2. InCare(i)
    BY <2>1, InCareNow
  <2> QED
    BY <1>1, <1>3, <2>1, <2>2 DEF InCare, InTeardown
<1> QED
  BY <1>4, <1>5, <1>6, InCareNext

LEMMA LeakBeaconBegins ==
    ASSUME LeakInv, SafeInv', NEW s \in Ids, BeaconBegins(s)
    PROVE  LeakInv'
<1> USE DEF LeakInv, SafeInv
<1>1. /\ link[s] = "open"
      /\ orphans' = {k \in orphans : k.id # s}
      /\ UNCHANGED <<sock, sid, watchers, live, holding, link, leaving>>
      /\ \A i \in Ids : grip[i] = None
  BY DEF BeaconBegins, Unorphan, hosts
<1>2. PICK k \in Controllers :
             /\ k.id = s /\ grip' = [grip EXCEPT ![s] = k]
             /\ \/ k \in orphans /\ UNCHANGED ctrl
                \/ \E c \in Clients : ctrl[c] = k /\ ctrl' = [ctrl EXCEPT ![c] = None]
  BY BeaconGrips
<1>3. \A d \in Clients : \/ ctrl'[d] = ctrl[d]
                         \/ ctrl'[d] = None /\ ctrl[d] = k
  BY <1>2 DEF TypeOK
<1>4. RefsAreFirm'
  <2>1. \A x \in Controllers : Firm(x) => Firm(x)'
    BY <1>1 DEF Firm
  <2>2. Firm(k)
    BY <1>2, ControllerTypes DEF RefsAreFirm
  <2>3. \A i \in Ids : grip'[i] \in {grip[i], k}
    BY <1>2 DEF TypeOK
  <2> QED
    BY <1>1, <1>3, <2>1, <2>2, <2>3, FirmRefs
<1>5. \A i \in Ids : i # s /\ InUse(i) => InUse(i)'
  BY <1>1, <1>2, <1>3 DEF InUse
<1>6. DialersStay'
  BY <1>1, <1>5, ControllerTypes DEF DialersStay
<1>7. DriversWatch'
  BY <1>1, <1>3 DEF DriversWatch
<1>8. ASSUME NEW i \in Own, link'[i] = "open" PROVE InCare(i)'
  <2>1. InCare(i)
    BY <1>1, <1>8, InCareNow
  <2>2. CASE i = s
    BY <1>2, <2>2, ControllerTypes DEF InCare, InTeardown, TypeOK
  <2>3. CASE i # s
    <3>1. InTeardown(i) => InTeardown(i)'
      BY <1>1, ControllerTypes DEF InTeardown
    <3> QED
      BY <1>1, <1>5, <2>1, <2>3, <3>1, ControllerTypes DEF InCare
  <2> QED
    BY <2>2, <2>3
<1> QED
  BY <1>4, <1>6, <1>7, <1>8, InCareNext

LEMMA LeakBeaconEnds ==
    ASSUME LeakInv, SafeInv', NEW s \in Ids, BeaconEnds(s)
    PROVE  LeakInv'
<1> USE DEF LeakInv, SafeInv
<1>1. /\ grip[s] # None /\ Destroyed(s, {grip[s]})
      /\ grip' = [grip EXCEPT ![s] = None] /\ UNCHANGED <<sock, sid, orphans, leaving>>
  BY DEF BeaconEnds, orphanage
<1>2. /\ {grip[s]} \in SUBSET Controllers
      /\ \A k \in {grip[s]} : k.id = s /\ Firm(k)
  BY <1>1 DEF RefsAreFirm, BindingInv, TypeOK
<1>3. RefsAreFirm'
  <2>1. \A i \in Ids : grip'[i] \in {grip[i], None}
    BY <1>1 DEF TypeOK
  <2> QED
    BY <1>1, <1>2, <2>1, FirmRefs, DestroyedKeeps
<1>4. DialersStay' /\ DriversWatch'
  BY <1>1, <1>2, DestroyedKeeps DEF DialersStay
<1>5. ASSUME NEW i \in Own, link'[i] = "open" PROVE InCare(i)'
  <2>1. link[i] = "open" /\ i # s /\ (InUse(i) => InUse(i)')
    BY <1>1, <1>2, <1>5, DestroyedKeeps
  <2>2. InTeardown(i) => InTeardown(i)'
    BY <1>1, <2>1 DEF InTeardown, TypeOK
  <2>3. InCare(i)
    BY <2>1, InCareNow
  <2> QED
    BY <1>1, <2>1, <2>2, <2>3 DEF InCare
<1> QED
  BY <1>3, <1>4, <1>5, InCareNext

LEMMA LeakDialEnds ==
    ASSUME LeakInv, SafeInv', NEW o \in Own, NEW up \in BOOLEAN, DialEnds(o, up)
    PROVE  LeakInv'
<1> USE DEF LeakInv, SafeInv
<1>1. /\ link[o] = "dialing"
      /\ link' = [link EXCEPT ![o] = IF up THEN "open" ELSE "dropped"]
      /\ live' = IF up THEN live \cup {k \in holding : k.id = o} ELSE live
      /\ UNCHANGED <<sock, sid, ctrl, watchers, orphans, holding, leaving, grip>>
  BY DEF DialEnds, bindings, orphanage
<1>2. RefsAreFirm'
  <2>1. \A k \in Controllers : Firm(k) => Firm(k)'
    BY <1>1, ControllerTypes DEF Firm, TypeOK
  <2> QED
    BY <1>1, <2>1, FirmRefs
<1>3. DialersStay' /\ DriversWatch'
  BY <1>1, ControllerTypes DEF DialersStay, DriversWatch, InUse, TypeOK
<1>4. ASSUME NEW i \in Own, link'[i] = "open" PROVE InCare(i)'
  <2>1. CASE i = o
    BY <1>1, <2>1 DEF DialersStay, InCare, InUse
  <2>2. CASE i # o
    BY <1>1, <1>4, <2>2, InCareNow, ControllerTypes DEF InCare, InUse, InTeardown, TypeOK
  <2> QED
    BY <2>1, <2>2
<1> QED
  BY <1>2, <1>3, <1>4, InCareNext

LEMMA LeakHostDrops ==
    ASSUME LeakInv, SafeInv', NEW s \in Ids, HostDrops(s)
    PROVE  LeakInv'
<1> USE DEF LeakInv, SafeInv
<1>1. /\ link' = [link EXCEPT ![s] = "dropped"]
      /\ live' = {k \in live : k.id # s \/ Adopted(k)}
      /\ UNCHANGED <<sock, sid, ctrl, watchers, orphans, holding, leaving, grip>>
  BY DEF HostDrops, bindings, orphanage
<1>2. RefsAreFirm'
  <2>1. \A k \in Controllers : Firm(k) => Firm(k)'
    BY <1>1, ControllerTypes DEF Firm, TypeOK
  <2> QED
    BY <1>1, <2>1, FirmRefs
<1>3. DialersStay' /\ DriversWatch'
  BY <1>1, ControllerTypes DEF DialersStay, DriversWatch, InUse, TypeOK
<1>4. \A i \in Own : link'[i] = "open" => InCare(i)'
  BY <1>1, InCareNow, ControllerTypes DEF InCare, InUse, InTeardown, TypeOK
<1> QED
  BY <1>2, <1>3, <1>4, InCareNext

LEMMA LeakRest ==
    ASSUME LeakInv, SafeInv', NEW r \in Rest, RestConnects(r) \/ RestRemoved(r)
    PROVE  LeakInv'
<1> USE DEF LeakInv, SafeInv
<1>1. UNCHANGED <<sock, sid, ctrl, watchers, orphans, leaving, grip>>
  BY DEF RestConnects, RestRemoved, bindings, orphanage
<1>2. \A i \in Own : link'[i] = link[i]
  <2>1. CASE RestConnects(r)
    BY <2>1, ControllerTypes DEF RestConnects, TypeOK
  <2>2. CASE RestRemoved(r)
    BY <2>2, ControllerTypes DEF RestRemoved, HangUp, TypeOK
  <2> QED
    BY <2>1, <2>2
<1>3. UNCHANGED <<live, holding>>
  BY DEF RestConnects, RestRemoved, HangUp
<1>4. RefsAreFirm'
  <2>1. \A k \in Controllers : Firm(k) => Firm(k)'
    BY <1>2, <1>3 DEF Firm
  <2> QED
    BY <1>1, <2>1, FirmRefs
<1>5. DialersStay' /\ DriversWatch'
  BY <1>1, <1>2 DEF DialersStay, DriversWatch, InUse
<1>6. \A i \in Own : link'[i] = "open" => InCare(i)'
  BY <1>1, <1>2, InCareNow DEF InCare, InUse, InTeardown
<1> QED
  BY <1>4, <1>5, <1>6, InCareNext

LEMMA LeakStep == Moves = {} /\ LeakInv /\ [Next]_vars => LeakInv'
<1> SUFFICES ASSUME Moves = {}, LeakInv, [Next]_vars PROVE LeakInv'
  OBVIOUS
<1>1. SafeInv'
  BY SafeStep DEF LeakInv
<1>2. CASE UNCHANGED vars
  BY <1>1, <1>2 DEF vars, bindings, orphanage, hosts, LeakInv, RefsAreFirm, Firm, DialersStay,
                    DriversWatch, NoneLeaks, InHands, InUse, InTeardown
<1> QED
  BY <1>1, <1>2, ControllerTypes, LeakAccept, LeakConnect, LeakReattach, LeakAdopt,
     LeakDisconnectNow, LeakDisconnectBegins, LeakDisconnectEnds, LeakGone, LeakReap,
     LeakBeaconNow, LeakBeaconBegins, LeakBeaconEnds, LeakDialEnds, LeakHostDrops, LeakRest
     DEF Next

(* removeClient(), scheduleOrphanReap(), destroyWsSession(): as long as no *)
(* client reattaches elsewhere while bound, goes while it dials, or ends a *)
(* session it never reattached to, every open connection of a WS client is *)
(* held by an open client, orphaned with a reaper, or being torn down.     *)
THEOREM NoConnectionLeaks == Moves = {} => (Spec => []NoneLeaks)
<1> SUFFICES ASSUME Moves = {} PROVE Spec => []NoneLeaks
  OBVIOUS
<1>1. LeakInv /\ [Next]_vars => LeakInv'
  BY LeakStep
<1>2. LeakInv => NoneLeaks
  BY DEF LeakInv
<1> QED
  BY <1>1, <1>2, LeakInit, PTL DEF Spec

-----------------------------------------------------------------------------
(* Who hears what, while the clients make none of the Moves.               *)

\* A connection that is up, or may come up again by itself
Alive(s) == link[s] \in {"dialing", "open"} \/ s \in stored

\* ... and whose end has not begun: its clients must hear of it
Heard(s) == Alive(s) /\ ~InTeardown(s)

HearInv ==
    /\ live \subseteq holding
    \* nobody knows an id before its session exists
    /\ \A k \in holding : link[k.id] # "none"
    /\ \A c \in Clients : sid[c] # None => link[sid[c]] # "none"
    \* only the store connects the sessions opened over REST
    /\ \A r \in Rest : link[r] # "dialing" /\ (link[r] = "open" => r \in stored)
    \* the clients bound to a session that is heard watch it
    /\ \A c \in Clients, s \in Ids :
         sock[c] = "open" /\ sid[c] = s /\ Heard(s) => c \in watchers[s]
    \* the client a handler's screens go to is bound to that handler's session,
    \* and drives it as long as it is there
    /\ \A k \in holding, s \in Ids : k.id = s /\ Heard(s) =>
         /\ sid[k.by] = s /\ sock[k.by] # "new"
         /\ sock[k.by] = "open" => ctrl[k.by] # None

\* What a step must do to keep HearInv: it brings no session back to life, and
\* of one that is heard it unbinds no client
LEMMA HearKeeps ==
    ASSUME SafeInv, HearInv, SafeInv', live' \subseteq holding',
           \A i \in Ids : link[i] # "none" => link'[i] # "none",
           \A r \in Rest : link'[r] # "dialing" /\ (link'[r] = "open" => r \in stored'),
           \A i \in Ids : Heard(i)' => Heard(i) \/ link[i] = "none",
           \A k \in holding' :
               \/ k \in holding
               \/ link'[k.id] # "none" /\ sid'[k.by] = k.id /\ sock'[k.by] # "new" /\ ctrl'[k.by] # None,
           \A d \in Clients : sid'[d] # None => sid'[d] = sid[d] \/ link'[sid'[d]] # "none",
           \A d \in Clients, i \in Ids : sock'[d] = "open" /\ sid'[d] = i /\ Heard(i)' =>
               \/ d \in watchers'[i]
               \/ sock[d] = "open" /\ sid[d] = i /\ d \notin watchers[i],
           \A d \in Clients, i \in Ids :
               sock[d] # "new" /\ (sock[d] = "open" => ctrl[d] # None) /\ sid[d] = i /\ Heard(i)' =>
               /\ sid'[d] = i /\ sock'[d] # "new"
               /\ sock'[d] = "open" => sock[d] = "open" /\ (ctrl[d] # None => ctrl'[d] # None)
    PROVE  HearInv'
<1> USE ControllerTypes DEF SafeInv, TypeOK
<1>1. \A k \in holding' : link'[k.id] # "none"
  BY DEF HearInv
<1>2. \A c \in Clients : sid'[c] # None => link'[sid'[c]] # "none"
  BY DEF HearInv
<1>3. ASSUME NEW d \in Clients, NEW i \in Ids, sock'[d] = "open", sid'[d] = i, Heard(i)'
      PROVE  d \in watchers'[i]
  <2>1. sock[d] = "open" /\ sid[d] = i => link[i] # "none" /\ (Heard(i) => d \in watchers[i])
    BY DEF HearInv
  <2> QED
    BY <1>3, <2>1
<1>4. ASSUME NEW k \in holding', NEW i \in Ids, k.id = i, Heard(i)'
      PROVE  /\ sid'[k.by] = i /\ sock'[k.by] # "new"
             /\ sock'[k.by] = "open" => ctrl'[k.by] # None
  <2>1. CASE k \in holding
    <3>1. k.by \in Clients /\ link[i] # "none"
      BY <1>4, <2>1 DEF HearInv
    <3>2. /\ sid[k.by] = i /\ sock[k.by] # "new"
          /\ sock[k.by] = "open" => ctrl[k.by] # None
      BY <1>4, <2>1, <3>1 DEF HearInv
    <3> QED
      BY <1>4, <3>1, <3>2
  <2>2. CASE k \notin holding
    BY <1>4, <2>2
  <2> QED
    BY <2>1, <2>2
<1> QED
  BY <1>1, <1>2, <1>3, <1>4 DEF HearInv

\* Nothing that HangUp() leaves heard is new, and what it hangs up, if its
\* controllers are firm, is heard no more
LEMMA HangUpHushes ==
    ASSUME SafeInv, HearInv, NEW ks, NEW ss, HangUp(ks, ss)
    PROVE  /\ live' \subseteq holding' /\ holding' \subseteq holding
           /\ \A i \in Ids : link[i] # "none" => link'[i] # "none"
           /\ \A r \in Rest : link'[r] # "dialing" /\ (link'[r] = "open" => r \in stored')
           /\ \A i \in Ids : Alive(i)' => Alive(i)
           /\ \A i \in Ids : i \in ss /\ i \in Rest => ~Alive(i)'
           /\ \A k \in ks : k \in Controllers /\ k.id \in Own /\ Firm(k) => ~Alive(k.id)'
<1> USE ControllerTypes DEF SafeInv, TypeOK
<1>1. /\ live' = live \ ks /\ holding' = holding \ ks /\ stored' = stored \ ss
      /\ link' = [i \in Ids |->
                  IF i \in ss \cap stored \/ \E k \in ks \cap holding : k.id = i
                  THEN "gone" ELSE link[i]]
  BY DEF HangUp
<1>2. \A i \in Ids : link'[i] \in {link[i], "gone"} /\ (i \in ss \cap stored => link'[i] = "gone")
  BY <1>1
<1>3. live' \subseteq holding' /\ holding' \subseteq holding
  BY <1>1 DEF HearInv
<1>4. \A i \in Ids : link[i] # "none" => link'[i] # "none"
  BY <1>2
<1>5. \A r \in Rest : link'[r] # "dialing" /\ (link'[r] = "open" => r \in stored')
  BY <1>1, <1>2 DEF HearInv
<1>6. \A i \in Ids : Alive(i)' => Alive(i)
  BY <1>1, <1>2 DEF Alive
<1>7. \A i \in Ids : i \in ss /\ i \in Rest => ~Alive(i)'
  BY <1>1, <1>2, <1>5 DEF Alive
<1>8. ASSUME NEW k \in ks, k \in Controllers, k.id \in Own, Firm(k) PROVE ~Alive(k.id)'
  BY <1>1, <1>8, HangUpFirm DEF Alive
<1> QED
  BY <1>3, <1>4, <1>5, <1>6, <1>7, <1>8

LEMMA HearInit == Init => HearInv
<1> SUFFICES ASSUME Init PROVE HearInv
  OBVIOUS
<1> QED
  BY ControllerTypes DEF Init, HearInv

LEMMA HearAccept ==
    ASSUME LeakInv, HearInv, SafeInv', NEW c \in Clients, NEW s \in Ids \cup {None}, Accept(c, s)
    PROVE  HearInv'
<1> USE ControllerTypes DEF LeakInv, SafeInv
<1>1. /\ sock[c] = "new" /\ sock' = [sock EXCEPT ![c] = "open"] /\ sid' = [sid EXCEPT ![c] = s]
      /\ s # None => link[s] # "none"
      /\ watchers' = IF s = None THEN watchers ELSE Indexed(c, s)
      /\ UNCHANGED <<ctrl, live, holding, stored, link, leaving, grip>>
  BY DEF Accept, hosts, KnownIds
<1>2. \A i \in Ids : Heard(i)' <=> Heard(i)
  BY <1>1 DEF Heard, Alive, InTeardown
<1>3. \A d \in Clients : d # c => sid'[d] = sid[d] /\ sock'[d] = sock[d]
  BY <1>1 DEF TypeOK
<1>4. \A d \in Clients, i \in Ids : d # c /\ d \in watchers[i] => d \in watchers'[i]
  BY <1>1 DEF Indexed
<1>5. sid'[c] = s /\ sock'[c] = "open" /\ (s # None => c \in watchers'[s])
  BY <1>1 DEF Indexed, TypeOK
<1> QED
  BY <1>1, <1>2, <1>3, <1>4, <1>5, HearKeeps DEF TypeOK, HearInv

LEMMA HearConnect ==
    ASSUME LeakInv, HearInv, SafeInv', NEW c \in Clients, NEW o \in Own, Connect(c, o)
    PROVE  HearInv'
<1> DEFINE new == [id |-> o, by |-> c]
           ended == {k \in orphans : k.id = sid[c]}
                      \cup (IF sid[c] = None THEN {} ELSE {ctrl[c]} \ {None})
<1> USE ControllerTypes DEF LeakInv, SafeInv
<1>1. /\ sock[c] = "open" /\ link[o] = "none" /\ UNCHANGED <<sock, leaving, grip>>
      /\ sid' = [sid EXCEPT ![c] = o] /\ ctrl' = [ctrl EXCEPT ![c] = new]
      /\ watchers' = Indexed(c, o)
      /\ live' = live \ ended /\ holding' = (holding \ ended) \cup {new}
      /\ stored' = stored \ {sid[c]}
      /\ link' = [i \in Ids |->
                    IF i = o THEN "dialing"
                    ELSE IF i \in stored \cap {sid[c]} \/ \E k \in ended \cap holding : k.id = i
                    THEN "gone" ELSE link[i]]
  BY DEF Connect
<1>2. new \in Controllers /\ new.id = o /\ new.by = c /\ o \in Ids /\ new # None /\ o # None
  BY IdsAssumption
<1>3. \A k \in ended : k \in Controllers /\ k.id = sid[c] /\ Firm(k)
  BY DEF BindingInv, RefsAreFirm, TypeOK
<1>4. ctrl[c] # None => ctrl[c] \in ended /\ ctrl[c].id = sid[c]
  BY DEF BindingInv, TypeOK
<1> HIDE DEF new, ended
<1>5. link'[o] = "dialing" /\ \A i \in Ids : i # o => link'[i] \in {link[i], "gone"}
  BY <1>1, <1>2
<1>6. \A i \in Ids : i # o /\ Alive(i)' => Alive(i)
  BY <1>1, <1>5 DEF Alive
<1>7. \A i \in Ids : InTeardown(i)' <=> InTeardown(i)
  BY <1>1 DEF InTeardown
<1>8. \A r \in Rest : link'[r] # "dialing" /\ (link'[r] = "open" => r \in stored')
  BY <1>1, <1>5 DEF HearInv, TypeOK
\* the session the client leaves, if it drives it, is heard no more
<1>9. ASSUME NEW s \in Ids, s = sid[c], s # o, ctrl[c] # None PROVE ~Alive(s)'
  <2>1. CASE s \in Rest
    <3>1. s \notin stored'
      BY <1>1, <1>9
    <3> QED
      BY <1>8, <2>1, <3>1 DEF Alive
  <2>2. CASE s \in Own
    <3>1. link[s] \in {"dialing", "open"} => ctrl[c] \in holding
      BY <1>3, <1>4, <1>9, <2>2 DEF Firm
    <3>2. s \notin stored'
      BY <1>1, <2>2 DEF TypeOK
    <3>3. link[s] \in {"dialing", "open"} => link'[s] = "gone"
      BY <1>1, <1>4, <1>9, <3>1
    <3> QED
      BY <1>5, <1>9, <3>2, <3>3 DEF Alive
  <2> QED
    BY <2>1, <2>2
<1>10. \A d \in Clients : d # c => sid'[d] = sid[d] /\ ctrl'[d] = ctrl[d]
  BY <1>1 DEF TypeOK
<1>11. \A d \in Clients, i \in Ids : d # c /\ d \in watchers[i] => d \in watchers'[i]
  BY <1>1 DEF Indexed
<1>12. sid'[c] = o /\ c \in watchers'[o] /\ ctrl'[c] = new
  BY <1>1, <1>2 DEF Indexed, TypeOK
<1>13. \A d \in Clients : sid[d] # o
  BY <1>1, <1>2 DEF HearInv
<1>14. live' \subseteq holding'
  BY <1>1 DEF HearInv
<1>15. \A i \in Ids : Heard(i)' => Heard(i) \/ link[i] = "none"
  BY <1>1, <1>6, <1>7 DEF Heard
<1>16. \A i \in Ids : link[i] # "none" => link'[i] # "none"
  BY <1>5
<1>17. ASSUME NEW d \in Clients, NEW i \in Ids, sock'[d] = "open", sid'[d] = i, Heard(i)'
       PROVE  d \in watchers'[i] \/ (sock[d] = "open" /\ sid[d] = i /\ d \notin watchers[i])
  BY <1>1, <1>10, <1>11, <1>12, <1>17
<1>18. ASSUME NEW d \in Clients, NEW i \in Ids, sock[d] # "new",
              sock[d] = "open" => ctrl[d] # None, sid[d] = i, Heard(i)'
       PROVE  sid'[d] = i /\ sock'[d] # "new" /\ (sock'[d] = "open" => sock[d] = "open" /\ ctrl'[d] = ctrl[d])
  BY <1>1, <1>9, <1>10, <1>13, <1>18 DEF Heard
<1>19. \A k \in holding' :
         \/ k \in holding
         \/ link'[k.id] # "none" /\ sid'[k.by] = k.id /\ sock'[k.by] # "new" /\ ctrl'[k.by] # None
  BY <1>1, <1>2, <1>5, <1>12
<1>20. \A d \in Clients : sid'[d] # None => sid'[d] = sid[d] \/ link'[sid'[d]] # "none"
  BY <1>5, <1>10, <1>12
<1> QED
  BY <1>8, <1>14, <1>15, <1>16, <1>17, <1>18, <1>19, <1>20, HearKeeps

\* Rebind() of c to s; n is the controller made for it, if any
LEMMA HearRebind ==
    ASSUME LeakInv, HearInv, SafeInv', Moves = {}, NEW c \in Clients, NEW s \in Ids,
           NEW k \in Controllers, k.id = s, link[s] # "none", Rebind(c, s, k),
           live' \subseteq holding', \A n \in holding' : n \in holding \/ n = [id |-> s, by |-> c]
    PROVE  HearInv'
<1> USE ControllerTypes DEF LeakInv, SafeInv
<1>1. /\ sock[c] = "open" /\ UNCHANGED <<sock, leaving, grip>>
      /\ sid' = [sid EXCEPT ![c] = s] /\ ctrl' = [ctrl EXCEPT ![c] = k]
      /\ watchers' = Indexed(c, s)
      /\ sid[c] \in {None, s}
      /\ stored' = stored
      /\ \A i \in Ids : link'[i] = link[i]
  BY DEF Rebind
<1>2. \A i \in Ids : Heard(i)' <=> Heard(i)
  BY <1>1 DEF Heard, Alive, InTeardown
<1>3. \A d \in Clients : d # c => sid'[d] = sid[d] /\ ctrl'[d] = ctrl[d]
  BY <1>1 DEF TypeOK
<1>4. \A d \in Clients, i \in Ids : d # c /\ d \in watchers[i] => d \in watchers'[i]
  BY <1>1 DEF Indexed
<1>5. sid'[c] = s /\ c \in watchers'[s] /\ ctrl'[c] = k /\ k # None
  BY <1>1 DEF Indexed, TypeOK
<1>6. \A r \in Rest : link'[r] # "dialing" /\ (link'[r] = "open" => r \in stored')
  BY <1>1 DEF HearInv
<1>7. ASSUME NEW d \in Clients, NEW i \in Ids, sock'[d] = "open", sid'[d] = i, Heard(i)'
      PROVE  d \in watchers'[i] \/ (sock[d] = "open" /\ sid[d] = i /\ d \notin watchers[i])
  BY <1>1, <1>3, <1>4, <1>5, <1>7
<1>8. ASSUME NEW d \in Clients, NEW i \in Ids, sock[d] # "new",
              sock[d] = "open" => ctrl[d] # None, sid[d] = i, Heard(i)'
      PROVE  /\ sid'[d] = i /\ sock'[d] # "new"
             /\ sock'[d] = "open" => sock[d] = "open" /\ (ctrl[d] # None => ctrl'[d] # None)
  BY <1>1, <1>3, <1>5, <1>8
<1>9. \A n \in holding' :
         \/ n \in holding
         \/ link'[n.id] # "none" /\ sid'[n.by] = n.id /\ sock'[n.by] # "new" /\ ctrl'[n.by] # None
  BY <1>1, <1>5
<1>10. \A d \in Clients : sid'[d] # None => sid'[d] = sid[d] \/ link'[sid'[d]] # "none"
  BY <1>1, <1>3, <1>5
<1> QED
  BY <1>1, <1>2, <1>6, <1>7, <1>8, <1>9, <1>10, HearKeeps

LEMMA HearReattach ==
    ASSUME LeakInv, HearInv, SafeInv', Moves = {}, NEW c \in Clients, NEW s \in Ids, Reattach(c, s)
    PROVE  HearInv'
<1>1. PICK k \in Reusable(s) : Rebind(c, s, k)
  BY DEF Reattach
<1>2. k \in Controllers /\ k.id = s
  BY ReusableBelong DEF LeakInv
<1>3. link[s] # "none"
  <2>1. k \in live
    BY DEF Reusable
  <2> QED
    BY <1>2, <2>1 DEF HearInv
<1>4. live' \subseteq holding' /\ holding' = holding
  BY DEF Reattach, HearInv
<1> QED
  BY <1>1, <1>2, <1>3, <1>4, HearRebind

LEMMA HearAdopt ==
    ASSUME LeakInv, HearInv, SafeInv', Moves = {}, NEW c \in Clients, NEW s \in Ids, Adopt(c, s)
    PROVE  HearInv'
<1> DEFINE new == [id |-> s, by |-> c]
<1>1. new \in Controllers /\ new.id = s
  BY ControllerTypes
<1>2. Rebind(c, s, new) /\ live' = live \cup {new} /\ holding' = holding \cup {new}
  BY DEF Adopt
<1>3. link[s] # "none"
  BY DEF Adopt
<1>4. live' \subseteq holding' /\ \A n \in holding' : n \in holding \/ n = [id |-> s, by |-> c]
  BY <1>2 DEF HearInv
<1> HIDE DEF new
<1> QED
  BY <1>1, <1>2, <1>3, <1>4, HearRebind

\* A client that lets go of a session that it drives, or that will be heard
\* no more: what the two forms of "disconnect" have in common
LEMMA HearLetsGo ==
    ASSUME LeakInv, HearInv, SafeInv', NEW c \in Clients, LetsGo(c), sock' = sock,
           live' \subseteq holding', holding' \subseteq holding,
           \A i \in Ids : link[i] # "none" => link'[i] # "none",
           \A r \in Rest : link'[r] # "dialing" /\ (link'[r] = "open" => r \in stored'),
           \A i \in Ids : Heard(i)' => Heard(i),
           \A i \in Ids : i = sid[c] /\ ctrl[c] # None => ~Heard(i)'
    PROVE  HearInv'
<1> USE ControllerTypes DEF LeakInv, SafeInv
<1>1. /\ sid' = [sid EXCEPT ![c] = None] /\ ctrl' = [ctrl EXCEPT ![c] = None]
      /\ watchers' = [watchers EXCEPT ![sid[c]] = @ \ {c}]
      /\ sid[c] \in Ids /\ sock[c] = "open"
  BY DEF LetsGo, TypeOK
<1>2. sid'[c] = None /\ \A d \in Clients : d # c => sid'[d] = sid[d] /\ ctrl'[d] = ctrl[d]
  BY <1>1 DEF TypeOK
<1>3. \A d \in Clients, i \in Ids : d # c /\ d \in watchers[i] => d \in watchers'[i]
  BY <1>1 DEF TypeOK
<1>4. ASSUME NEW d \in Clients, NEW i \in Ids, sock'[d] = "open", sid'[d] = i, Heard(i)'
      PROVE  d \in watchers'[i] \/ (sock[d] = "open" /\ sid[d] = i /\ d \notin watchers[i])
  BY <1>1, <1>2, <1>3, <1>4
<1>5. ASSUME NEW d \in Clients, NEW i \in Ids, sock[d] # "new",
              sock[d] = "open" => ctrl[d] # None, sid[d] = i, Heard(i)'
      PROVE  /\ sid'[d] = i /\ sock'[d] # "new"
             /\ sock'[d] = "open" => sock[d] = "open" /\ (ctrl[d] # None => ctrl'[d] # None)
  BY <1>1, <1>2, <1>5
<1>6. \A d \in Clients : sid'[d] # None => sid'[d] = sid[d] \/ link'[sid'[d]] # "none"
  BY <1>2
<1> QED
  BY <1>4, <1>5, <1>6, HearKeeps

LEMMA HearDisconnectNow ==
    ASSUME LeakInv, HearInv, SafeInv', NEW c \in Clients, DisconnectNow(c)
    PROVE  HearInv'
<1> USE ControllerTypes DEF LeakInv, SafeInv
<1>1. LetsGo(c) /\ HangUp({ctrl[c]} \ {None}, {sid[c]}) /\ UNCHANGED <<sock, leaving, grip>>
  BY DEF DisconnectNow
<1>2. /\ live' \subseteq holding' /\ holding' \subseteq holding
      /\ \A i \in Ids : link[i] # "none" => link'[i] # "none"
      /\ \A r \in Rest : link'[r] # "dialing" /\ (link'[r] = "open" => r \in stored')
      /\ \A i \in Ids : Alive(i)' => Alive(i)
  BY <1>1, HangUpHushes
<1>3. \A i \in Ids : Heard(i)' => Heard(i)
  BY <1>1, <1>2 DEF Heard, InTeardown
<1>4. ASSUME NEW i \in Ids, i = sid[c], ctrl[c] # None PROVE ~Heard(i)'
  <2>1. ctrl[c] \in Controllers /\ ctrl[c].id = i /\ Firm(ctrl[c])
    BY <1>4 DEF BindingInv, RefsAreFirm, TypeOK
  <2>2. \A k \in {ctrl[c]} \ {None} : k \in Controllers /\ k.id \in Own /\ Firm(k) => ~Alive(k.id)'
    BY <1>1, HangUpHushes
  <2>3. \A j \in Ids : j \in {sid[c]} /\ j \in Rest => ~Alive(j)'
    BY <1>1, HangUpHushes
  <2>4. CASE i \in Own
    BY <1>4, <2>1, <2>2, <2>4 DEF Heard
  <2>5. CASE i \in Rest
    BY <1>4, <2>3, <2>5 DEF Heard
  <2> QED
    BY <2>4, <2>5
<1> QED
  BY <1>1, <1>2, <1>3, <1>4, HearLetsGo

LEMMA HearDisconnectBegins ==
    ASSUME LeakInv, HearInv, SafeInv', NEW c \in Clients, DisconnectBegins(c)
    PROVE  HearInv'
<1> USE ControllerTypes DEF LeakInv, SafeInv
<1>1. /\ LetsGo(c) /\ leaving[c] = None
      /\ leaving' = [leaving EXCEPT ![c] = [ctrl |-> ctrl[c], id |-> sid[c]]]
      /\ UNCHANGED <<sock, live, holding, stored, link, grip>>
  BY DEF DisconnectBegins, hosts
<1>2. \A i \in Ids : InTeardown(i) => InTeardown(i)'
  BY <1>1 DEF InTeardown, TypeOK
<1>3. \A i \in Ids : Heard(i)' => Heard(i)
  BY <1>1, <1>2 DEF Heard, Alive
<1>4. ASSUME NEW i \in Ids, i = sid[c], ctrl[c] # None PROVE ~Heard(i)'
  <2>1. [ctrl |-> ctrl[c], id |-> sid[c]] \in Teardowns /\ ctrl[c].id = i
    BY <1>1, <1>4, LetsGoBinds DEF TypeOK, Teardowns, BindingInv
  <2>2. leaving'[c] # None /\ leaving'[c].ctrl = ctrl[c]
    BY <1>1, <2>1 DEF TypeOK
  <2> QED
    BY <1>4, <2>1, <2>2 DEF Heard, InTeardown
<1> QED
  BY <1>1, <1>3, <1>4, HearLetsGo DEF HearInv

LEMMA HearDisconnectEnds ==
    ASSUME LeakInv, HearInv, SafeInv', NEW c \in Clients, DisconnectEnds(c)
    PROVE  HearInv'
<1> USE ControllerTypes DEF LeakInv, SafeInv
<1>1. /\ leaving[c] # None /\ leaving' = [leaving EXCEPT ![c] = None]
      /\ HangUp({leaving[c].ctrl} \ {None}, {leaving[c].id})
      /\ UNCHANGED <<sock, sid, ctrl, watchers, grip>>
  BY DEF DisconnectEnds, bindings
<1>2. /\ live' \subseteq holding' /\ holding' \subseteq holding
      /\ \A i \in Ids : link[i] # "none" => link'[i] # "none"
      /\ \A r \in Rest : link'[r] # "dialing" /\ (link'[r] = "open" => r \in stored')
      /\ \A i \in Ids : Alive(i)' => Alive(i)
  BY <1>1, HangUpHushes
\* what was being torn down is heard no more
<1>3. ASSUME NEW i \in Ids, leaving[c].ctrl # None, leaving[c].ctrl.id = i PROVE ~Alive(i)'
  <2>1. leaving[c].ctrl \in Controllers /\ Firm(leaving[c].ctrl) /\ leaving[c].id = i
    BY <1>1, <1>3 DEF BindingInv, RefsAreFirm, TypeOK
  <2>2. \A k \in {leaving[c].ctrl} \ {None} :
           k \in Controllers /\ k.id \in Own /\ Firm(k) => ~Alive(k.id)'
    BY <1>1, HangUpHushes
  <2>3. \A j \in Ids : j \in {leaving[c].id} /\ j \in Rest => ~Alive(j)'
    BY <1>1, HangUpHushes
  <2>4. CASE i \in Own
    BY <1>3, <2>1, <2>2, <2>4
  <2>5. CASE i \in Rest
    BY <2>1, <2>3, <2>5
  <2> QED
    BY <2>4, <2>5
<1>4. ASSUME NEW i \in Ids, Heard(i)' PROVE Heard(i)
  <2>1. Alive(i)' /\ ~InTeardown(i)'
    BY <1>4 DEF Heard
  <2>2. InTeardown(i) => InTeardown(i)'
    BY <1>1, <1>3, <2>1 DEF InTeardown, TypeOK
  <2> QED
    BY <1>2, <2>1, <2>2 DEF Heard
<1> QED
  BY <1>1, <1>2, <1>4, HearKeeps

LEMMA HearGone ==
    ASSUME LeakInv, HearInv, SafeInv', NEW c \in Clients, NEW how \in {"erred", "closed"}, Gone(c, how)
    PROVE  HearInv'
<1> USE ControllerTypes DEF LeakInv, SafeInv
<1>1. /\ sock' = [sock EXCEPT ![c] = how]
      /\ watchers' = [s \in Ids |-> IF s = sid[c] THEN watchers[s] \ {c} ELSE watchers[s]]
      /\ UNCHANGED <<sid, ctrl, live, holding, stored, link, leaving, grip>>
  BY DEF Gone, hosts
<1>2. \A i \in Ids : Heard(i)' <=> Heard(i)
  BY <1>1 DEF Heard, Alive, InTeardown
<1>3. sock'[c] = how /\ \A d \in Clients : d # c => sock'[d] = sock[d]
  BY <1>1 DEF TypeOK
<1>4. \A d \in Clients, i \in Ids : d # c /\ d \in watchers[i] => d \in watchers'[i]
  BY <1>1
<1> QED
  BY <1>1, <1>2, <1>3, <1>4, HearKeeps DEF HearInv

LEMMA HearReap ==
    ASSUME LeakInv, HearInv, SafeInv', NEW s \in Ids, Reap(s)
    PROVE  HearInv'
<1>1. /\ HangUp({k \in orphans : k.id = s}, {})
      /\ UNCHANGED <<sock, sid, ctrl, watchers, leaving, grip>>
  BY DEF Reap, bindings
<1>2. /\ live' \subseteq holding' /\ holding' \subseteq holding
      /\ \A i \in Ids : link[i] # "none" => link'[i] # "none"
      /\ \A r \in Rest : link'[r] # "dialing" /\ (link'[r] = "open" => r \in stored')
      /\ \A i \in Ids : Alive(i)' => Alive(i)
  BY <1>1, HangUpHushes DEF LeakInv
<1>3. \A i \in Ids : Heard(i)' => Heard(i)
  BY <1>1, <1>2 DEF Heard, InTeardown
<1> QED
  BY <1>1, <1>2, <1>3, HearKeeps DEF LeakInv

\* The end of destroyWsSession(s): nobody that drives or watches s is unbound
\* while it is still heard
LEMMA HearDestroyed ==
    ASSUME LeakInv, HearInv, SafeInv', NEW s \in Ids, NEW ks \in SUBSET Controllers,
           Destroyed(s, ks), UNCHANGED <<sock, sid>>, ~Heard(s)',
           \A i \in Ids : i # s /\ InTeardown(i) => InTeardown(i)'
    PROVE  HearInv'
<1> USE ControllerTypes DEF LeakInv, SafeInv
<1>1. /\ HangUp(ks \cup Bound(s), {s})
      /\ ctrl' = [c \in Clients |-> IF c \in watchers[s] THEN None ELSE ctrl[c]]
      /\ watchers' = [watchers EXCEPT ![s] = {}]
  BY DEF Destroyed
<1>2. /\ live' \subseteq holding' /\ holding' \subseteq holding
      /\ \A i \in Ids : link[i] # "none" => link'[i] # "none"
      /\ \A r \in Rest : link'[r] # "dialing" /\ (link'[r] = "open" => r \in stored')
      /\ \A i \in Ids : Alive(i)' => Alive(i)
  BY <1>1, HangUpHushes
<1>3. \A i \in Ids : Heard(i)' => Heard(i) /\ i # s
  BY <1>2 DEF Heard
<1>4. \A d \in Clients, i \in Ids : i # s /\ sid[d] = i => d \notin watchers[s] /\ ctrl'[d] = ctrl[d]
  BY <1>1 DEF BindingInv
<1>5. \A i \in Ids : i # s => watchers'[i] = watchers[i]
  BY <1>1 DEF TypeOK
<1> QED
  BY <1>2, <1>3, <1>4, <1>5, HearKeeps

LEMMA HearBeaconNow ==
    ASSUME LeakInv, HearInv, SafeInv', NEW s \in Ids, BeaconNow(s)
    PROVE  HearInv'
<1> DEFINE ks == {k \in orphans : k.id = s}
<1> USE ControllerTypes DEF LeakInv, SafeInv
<1>1. Destroyed(s, ks) /\ UNCHANGED <<sock, sid, leaving, grip>>
  BY DEF BeaconNow
<1>2. ks \in SUBSET Controllers /\ \A k \in ks : k.id = s /\ Firm(k)
  BY DEF RefsAreFirm, TypeOK
<1>3. \A i \in Ids : InTeardown(i)' <=> InTeardown(i)
  BY <1>1 DEF InTeardown
<1>4. HangUp(ks \cup Bound(s), {s})
  BY <1>1 DEF Destroyed
<1>5. CASE s \in Rest
  <2>1. \A i \in Ids : i \in {s} /\ i \in Rest => ~Alive(i)'
    BY <1>4, HangUpHushes
  <2> QED
    BY <1>1, <1>2, <1>3, <1>5, <2>1, HearDestroyed DEF Heard
<1>6. CASE s \in Own
  <2>1. ASSUME Heard(s)' PROVE FALSE
    <3>1. Alive(s) /\ ~InTeardown(s)
      BY <1>3, <1>4, <2>1, HangUpHushes DEF Heard
    <3>2. link[s] \in {"dialing", "open"}
      BY <1>6, <3>1 DEF Alive, TypeOK
    <3>3. InCare(s)
      BY <1>6, <3>2, InCareNow DEF DialersStay, InCare
    <3>4. PICK k \in ks \cup Bound(s) : k \in Controllers /\ k.id = s /\ Firm(k)
      <4>1. CASE \E k \in orphans : k.id = s
        BY <1>2, <4>1
      <4>2. CASE InUse(s)
        <5>1. PICK d \in Clients : sock[d] = "open" /\ ctrl[d] # None /\ ctrl[d].id = s
          BY <4>2 DEF InUse
        <5>2. d \in watchers[s] /\ Firm(ctrl[d]) /\ ctrl[d] \in Controllers
          BY <5>1 DEF DriversWatch, BindingInv, RefsAreFirm, TypeOK
        <5> QED
          BY <5>1, <5>2 DEF Bound
      <4> QED
        BY <3>1, <3>3, <4>1, <4>2 DEF InCare
    <3>5. ~Alive(k.id)'
      BY <1>4, <1>6, <3>4, HangUpHushes
    <3> QED
      BY <2>1, <3>4, <3>5 DEF Heard
  <2> QED
    BY <1>1, <1>2, <1>3, <2>1, HearDestroyed
<1> QED
  BY <1>5, <1>6

LEMMA HearBeaconBegins ==
    ASSUME LeakInv, HearInv, SafeInv', NEW s \in Ids, BeaconBegins(s)
    PROVE  HearInv'
<1> USE ControllerTypes DEF LeakInv, SafeInv
<1>1. UNCHANGED <<sock, sid, watchers, live, holding, stored, link, leaving>>
  BY DEF BeaconBegins, hosts
<1>2. PICK k \in Controllers :
             /\ k.id = s /\ grip' = [grip EXCEPT ![s] = k]
             /\ \/ k \in orphans /\ UNCHANGED ctrl
                \/ \E c \in Clients : ctrl[c] = k /\ ctrl' = [ctrl EXCEPT ![c] = None]
  BY BeaconGrips
<1>3. InTeardown(s)' /\ \A i \in Ids : InTeardown(i) => InTeardown(i)'
  BY <1>1, <1>2 DEF InTeardown, TypeOK
<1>4. \A i \in Ids : Heard(i)' => Heard(i) /\ i # s
  BY <1>1, <1>3 DEF Heard, Alive
<1>5. \A d \in Clients, i \in Ids : i # s /\ sid[d] = i => ctrl'[d] = ctrl[d]
  <2>1. \A d \in Clients : ctrl'[d] = ctrl[d] \/ (ctrl[d] = k /\ ctrl[d] # None)
    BY <1>2 DEF TypeOK
  <2> QED
    BY <1>2, <2>1 DEF BindingInv
<1> QED
  BY <1>1, <1>4, <1>5, HearKeeps DEF HearInv

LEMMA HearBeaconEnds ==
    ASSUME LeakInv, HearInv, SafeInv', NEW s \in Ids, BeaconEnds(s)
    PROVE  HearInv'
<1> USE ControllerTypes DEF LeakInv, SafeInv
<1>1. /\ grip[s] # None /\ Destroyed(s, {grip[s]})
      /\ grip' = [grip EXCEPT ![s] = None] /\ UNCHANGED <<sock, sid, leaving>>
  BY DEF BeaconEnds
<1>2. grip[s] \in Controllers /\ grip[s].id = s /\ Firm(grip[s])
  BY <1>1 DEF RefsAreFirm, BindingInv, TypeOK
<1>3. HangUp({grip[s]} \cup Bound(s), {s})
  BY <1>1 DEF Destroyed
<1>4. ~Alive(s)'
  <2>1. \A k \in {grip[s]} \cup Bound(s) :
           k \in Controllers /\ k.id \in Own /\ Firm(k) => ~Alive(k.id)'
    BY <1>3, HangUpHushes
  <2>2. \A i \in Ids : i \in {s} /\ i \in Rest => ~Alive(i)'
    BY <1>3, HangUpHushes
  <2>3. CASE s \in Own
    <3>1. PICK k \in {grip[s]} \cup Bound(s) : k = grip[s]
      OBVIOUS
    <3> QED
      BY <1>2, <2>1, <2>3, <3>1
  <2>4. CASE s \in Rest
    BY <2>2, <2>4
  <2> QED
    BY <2>3, <2>4
<1>5. \A i \in Ids : i # s /\ InTeardown(i) => InTeardown(i)'
  BY <1>1 DEF InTeardown, TypeOK
<1> QED
  BY <1>1, <1>2, <1>4, <1>5, HearDestroyed DEF Heard

LEMMA HearDialEnds ==
    ASSUME LeakInv, HearInv, SafeInv', NEW o \in Own, NEW up \in BOOLEAN, DialEnds(o, up)
    PROVE  HearInv'
<1> USE ControllerTypes DEF LeakInv, SafeInv
<1>1. /\ link[o] = "dialing" /\ link' = [link EXCEPT ![o] = IF up THEN "open" ELSE "dropped"]
      /\ live' \subseteq live \cup holding
      /\ UNCHANGED <<sock, sid, ctrl, watchers, holding, stored, leaving, grip>>
  BY DEF DialEnds, bindings
<1>2. \A i \in Ids : link'[i] = link[i] \/ (i = o /\ link'[i] \in {"open", "dropped"})
  BY <1>1 DEF TypeOK
<1>3. \A i \in Ids : Heard(i)' => Heard(i)
  BY <1>1, <1>2 DEF Heard, Alive, InTeardown
<1> QED
  BY <1>1, <1>2, <1>3, HearKeeps DEF HearInv

LEMMA HearHostDrops ==
    ASSUME LeakInv, HearInv, SafeInv', NEW s \in Ids, HostDrops(s)
    PROVE  HearInv'
<1> USE ControllerTypes DEF LeakInv, SafeInv
<1>1. /\ link' = [link EXCEPT ![s] = "dropped"] /\ live' \subseteq live
      /\ UNCHANGED <<sock, sid, ctrl, watchers, holding, stored, leaving, grip>>
  BY DEF HostDrops, bindings
<1>2. \A i \in Ids : link'[i] = link[i] \/ link'[i] = "dropped"
  BY <1>1 DEF TypeOK
<1>3. \A i \in Ids : Heard(i)' => Heard(i)
  BY <1>1, <1>2 DEF Heard, Alive, InTeardown
<1> QED
  BY <1>1, <1>2, <1>3, HearKeeps DEF HearInv

LEMMA HearRest ==
    ASSUME LeakInv, HearInv, SafeInv', NEW r \in Rest, RestConnects(r) \/ RestRemoved(r)
    PROVE  HearInv'
<1> USE ControllerTypes DEF LeakInv, SafeInv
<1>1. UNCHANGED <<sock, sid, ctrl, watchers, leaving, grip>>
  BY DEF RestConnects, RestRemoved, bindings
<1>2. CASE RestConnects(r)
  <2>1. /\ link[r] = "none" \/ r \in stored
        /\ link' = [link EXCEPT ![r] = "open"] /\ stored' = stored \cup {r}
        /\ UNCHANGED <<live, holding>>
    BY <1>2 DEF RestConnects
  <2>2. \A i \in Ids : Heard(i)' => Heard(i) \/ link[i] = "none"
    BY <1>1, <2>1 DEF Heard, Alive, InTeardown, TypeOK
  <2> QED
    BY <1>1, <2>1, <2>2, HearKeeps DEF HearInv, TypeOK
<1>3. CASE RestRemoved(r)
  <2>1. HangUp({}, {r})
    BY <1>3 DEF RestRemoved
  <2>2. /\ live' \subseteq holding' /\ holding' \subseteq holding
        /\ \A i \in Ids : link[i] # "none" => link'[i] # "none"
        /\ \A q \in Rest : link'[q] # "dialing" /\ (link'[q] = "open" => q \in stored')
        /\ \A i \in Ids : Alive(i)' => Alive(i)
    BY <2>1, HangUpHushes
  <2>3. \A i \in Ids : Heard(i)' => Heard(i)
    BY <1>1, <2>2 DEF Heard, InTeardown
  <2> QED
    BY <1>1, <2>2, <2>3, HearKeeps
<1> QED
  BY <1>2, <1>3

LEMMA HearStep == Moves = {} /\ LeakInv /\ HearInv /\ [Next]_vars => HearInv'
<1> SUFFICES ASSUME Moves = {}, LeakInv, HearInv, [Next]_vars PROVE HearInv'
  OBVIOUS
<1>1. SafeInv'
  BY SafeStep DEF LeakInv
<1>2. CASE UNCHANGED vars
  BY <1>2 DEF vars, bindings, hosts, HearInv, Heard, Alive, InTeardown
<1> QED
  BY <1>1, <1>2, ControllerTypes, HearAccept, HearConnect, HearReattach, HearAdopt,
     HearDisconnectNow, HearDisconnectBegins, HearDisconnectEnds, HearGone, HearReap,
     HearBeaconNow, HearBeaconBegins, HearBeaconEnds, HearDialEnds, HearHostDrops, HearRest
     DEF Next

(* indexClient(), sessionClients and the send closures of the controllers: *)
(* as long as the clients make none of the Moves, each open client that is *)
(* bound to a live session watches it and no other, and a live             *)
(* controller's screens reach only clients of its own session.             *)
THEOREM ClientsHearTheirOwn == Moves = {} => (Spec => []EachHearsItsOwn)
<1> SUFFICES ASSUME Moves = {} PROVE Spec => []EachHearsItsOwn
  OBVIOUS
<1>1. LeakInv /\ HearInv /\ [Next]_vars => LeakInv' /\ HearInv'
  BY LeakStep, HearStep
<1>2. LeakInv /\ HearInv => EachHearsItsOwn
  <2> SUFFICES ASSUME LeakInv, HearInv PROVE WatchersAreBound /\ ScreensStayInSession
    BY DEF EachHearsItsOwn
  <2> USE ControllerTypes DEF LeakInv, SafeInv
  <2>1. WatchersAreBound
    BY DEF WatchersAreBound, BindingInv, HearInv, Heard, Alive
  <2>2. ASSUME NEW k \in live, link[k.id] = "open", ~InTeardown(k.id), NEW c \in Audience(k)
        PROVE  sid[c] \in {k.id, None}
    <3>1. k \in holding /\ k.id \in Ids /\ Heard(k.id)
      BY <2>2 DEF HearInv, TypeOK, Heard, Alive
    <3>2. sid[k.by] = k.id
      BY <3>1 DEF HearInv
    <3>3. c \in Clients /\ (c = k.by \/ c \in watchers[k.id])
      BY <3>2 DEF Audience
    <3> QED
      BY <3>1, <3>2, <3>3 DEF BindingInv
  <2> QED
    BY <2>1, <2>2 DEF ScreensStayInSession
<1> QED
  BY <1>1, <1>2, LeakInit, HearInit, PTL DEF Spec
=============================================================================
