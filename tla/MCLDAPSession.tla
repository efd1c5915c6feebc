---------------------------- MODULE MCLDAPSession ---------------------------
(* Instances of LDAPSession for TLC. *)
EXTENDS LDAPSession, TLC

CONSTANTS alice, bob, t1, t2

(* By name: the user's, unknown, with a wrong password; anonymous; SASL. *)
LoginOf(u, mech, found, correct) == [who |-> u, mech |-> mech, found |-> found, correct |-> correct]
AnyLogin ==
  {LoginOf(u, mech, TRUE, c) : u \in Users, mech \in {"simple", "SASL"}, c \in BOOLEAN}
    \union {LoginOf(u, "simple", FALSE, TRUE) : u \in Users}
    \union {LoginOf(NoUser, "simple", TRUE, c) : c \in BOOLEAN}
UserSymmetry == Permutations(Users)
=============================================================================
