---------------------------- MODULE MCLocalData ----------------------------
(* LocalData with two contacts, pages of one row, two keys, and three      *)
(* invites: one lacks a STUN server, which has a default, one has its own, *)
(* and one lacks a user, which has no default.                             *)
EXTENDS LocalData, TLC

CONSTANTS k1, k2, c1, c2

Invites ==
  { ("user_id" :> "bob") @@ ("signaling_url" :> "wss"),
    ("user_id" :> "bob") @@ ("signaling_url" :> "wss") @@ ("stun_url" :> "own"),
    ("signaling_url" :> "wss") @@ ("stun_url" :> "own") }

\* Two faults of the start, one of them a crash; or one of any other kind.
OneOrTwo(struck) ==
  IF /\ \E f \in struck : f[1] = "crash"
     /\ \A f \in struck : f[2] \notin {"config open", "config write", "insert"}
  THEN 2 ELSE 1

Symmetry == Permutations({c1, c2}) \cup Permutations({k1, k2})
=============================================================================
