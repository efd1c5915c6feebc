--------------------------- MODULE SessionRegistry --------------------------
(***************************************************************************)
(* What the session store promises to the rest of web2ldap, with no        *)
(* timestamps, locks or two-key entries: a session ID is born once, holds  *)
(* data while it is live, and never comes back once it is gone.  What is   *)
(* fetched is the data the session has at that moment.                      *)
(* SessionStore is shown to implement it; RequestHandler is written        *)
(* against it.                                                              *)
(***************************************************************************)
CONSTANTS
  Threads,     \* users of the store
  SessionIds,
  Data,        \* what save() may store
  Created,     \* the placeholder new() stores
  Nothing      \* no data fetched

VARIABLES
  status,      \* "unborn", "live" or "gone", per session ID
  data,        \* the data of each live session
  got          \* what each thread's latest fetch returned

registryVars == <<status, data, got>>

Init ==
  /\ status = [s \in SessionIds |-> "unborn"]
  /\ data = [s \in SessionIds |-> Created]
  /\ got = [t \in Threads |-> Nothing]

(* new() *)
Create(s) ==
  /\ status[s] = "unborn"
  /\ status' = [status EXCEPT ![s] = "live"]
  /\ UNCHANGED <<data, got>>

(* save(): the LDAPSession of a session is set once and for all; saving a  *)
(* session that is gone has no effect.                                      *)
Save(s, d) ==
  /\ status[s] = "live"
  /\ data[s] \in {Created, d}
  /\ data' = [data EXCEPT ![s] = d]
  /\ UNCHANGED <<status, got>>

(* delete(), and the removal by expire() or retrieve() *)
Remove(s) ==
  /\ status[s] = "live"
  /\ status' = [status EXCEPT ![s] = "gone"]
  /\ data' = [data EXCEPT ![s] = Created]
  /\ UNCHANGED got

(* retrieve() *)
Fetch(t, s) ==
  /\ status[s] = "live"
  /\ got' = [got EXCEPT ![t] = data[s]]
  /\ UNCHANGED <<status, data>>

Forget(t) ==
  /\ got' = [got EXCEPT ![t] = Nothing]
  /\ UNCHANGED <<status, data>>

Next ==
  \/ \E s \in SessionIds : Create(s) \/ Remove(s) \/ \E d \in Data : Save(s, d)
  \/ \E t \in Threads : Forget(t) \/ \E s \in SessionIds : Fetch(t, s)

Spec == Init /\ [][Next]_registryVars

(* A session ID that is gone stays gone. *)
GoneForever ==
  [][\A s \in SessionIds : status[s] = "gone" => status'[s] = "gone"]_registryVars
=============================================================================
