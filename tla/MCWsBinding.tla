---------------------------- MODULE MCWsBinding ----------------------------
(* Two pages, say the one that reloads and the one it becomes, two sessions *)
(* they open and one opened over REST.  Pages are interchangeable, and so   *)
(* are the sessions they open.                                              *)
EXTENDS WsBinding, TLC

Symmetry == Permutations(Clients) \cup Permutations(Own)
=============================================================================
