--------------------------- MODULE MCSessionStore ---------------------------
(* Instances of SessionStore for TLC. *)
EXTENDS SessionStore, TLC

CONSTANTS w1, w2, s1, s2, s3, c1, c2, i1, i2

TwoWorkers == {w1, w2}
OneWorker == {w1}
TwoIds == {s1, s2}
ThreeIds == {s1, s2, s3}

(* One client address, and a proxy that changes the address it forwards    *)
(* without a cross-checked variable changing.                               *)
OneEnv == {[check |-> c1, ip |-> i1]}
TwoEnvs == {[check |-> c1, ip |-> i1], [check |-> c2, ip |-> i2]}
MovingEnv == {[check |-> c1, ip |-> i1], [check |-> c1, ip |-> i2]}

Symmetry == Permutations({w1, w2}) \union Permutations({s1, s2, s3})
=============================================================================
