-------------------------- MODULE MCRequestHandler --------------------------
(***************************************************************************)
(* Instances of RequestHandler for TLC.  The forms cover every command,    *)
(* every way the parameters can be wrong, and every way a server is named.  *)
(***************************************************************************)
EXTENDS RequestHandler, TLC
CONSTANTS ldap1, ldap2

MCURIs == {ldap1, ldap2}
Use(url, cred) == [cmd |-> "use", input |-> "ok", url |-> url, cred |-> cred]

MCForms ==
  {[cmd |-> c, input |-> "ok", url |-> "none", cred |-> "none"] :
     c \in {"invalid", "connect", "disconnect"}}
  \union {[cmd |-> "use", input |-> i, url |-> "none", cred |-> "none"] :
            i \in {"denied", "badform", "badparam"}}
  \union {Use("none", c) : c \in Creds}
  \union {Use("nohost", "none")}
  \union {Use(u, c) : u \in MCURIs, c \in {"none", "full"}}

(* Two requests at a time: what one browser with two tabs sends. *)
MCSharedForms ==
  {[cmd |-> "disconnect", input |-> "ok", url |-> "none", cred |-> "none"]}
  \union {Use("none", "none"), Use("none", "full")}
  \union {Use(u, "none") : u \in MCURIs}

Symmetry == Permutations(SessionIds) \union Permutations(Workers)
=============================================================================
