-------------------------- MODULE MCCallLifecycle --------------------------
(* CallLifecycle with two clients that call each other, and with three.    *)
EXTENDS CallLifecycle, TLC

CONSTANTS a, b, c

\* Two clients: a calls and calls again, b calls back; their calls may cross.
PairContacts == a :> {b} @@ b :> {a}
PairDials    == a :> 2 @@ b :> 1

\* Two callers of one client.
TwoCallers      == a :> {b} @@ b :> {} @@ c :> {b}
TwoCallersDials == a :> 1 @@ b :> 0 @@ c :> 1

\* a calls b twice; b calls c.
Chain      == a :> {b} @@ b :> {c} @@ c :> {}
ChainDials == a :> 2 @@ b :> 1 @@ c :> 0

\* b calls a, and c calls b.
Crossing      == a :> {} @@ b :> {a} @@ c :> {b}
CrossingDials == a :> 0 @@ b :> 1 @@ c :> 1
=============================================================================
