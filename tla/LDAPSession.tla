----------------------------- MODULE LDAPSession ----------------------------
(***************************************************************************)
(* ldapsession.py: one LDAPSession object, its connection and whom it is    *)
(* bound as, with the requests of app/handler.py and app/passwd.py that use *)
(* it.  Requests of one web session run in several threads on the same      *)
(* LDAPSession, without a lock.                                             *)
(*                                                                         *)
(* An LDAPSession has an ldap0 ReconnectLDAPObject, l, which connects again *)
(* by itself when the connection is lost, and then repeats the last bind    *)
(* with the password it has kept.  So whom the requests of a session are    *)
(* sent as is kept in three places: attribute who of the LDAPSession, shown *)
(* to the user, _last_bind of l, and the connection at the server.          *)
(***************************************************************************)
EXTENDS Naturals, FiniteSets

CONSTANTS
  Threads,     \* worker threads of the WSGI server
  Loggers,     \* those with requests that log in or change the password
  Users,       \* entries that can bind
  NoUser,      \* anonymous, None
  Logins,      \* logins to try, records [who, mech, found, correct]
  StartTLS,    \* values of parameter starttls, of 0..2
  MaxChanges,  \* bound of what happens outside, for model checking
  MaxRequests  \* bound of the requests, for model checking

ASSUME SessionAssumption ==
  /\ NoUser \notin Users
  /\ Loggers \subseteq Threads
  /\ Logins \subseteq [who : Users \union {NoUser}, mech : {"simple", "SASL"},
                       found : BOOLEAN, correct : BOOLEAN]
  /\ StartTLS \subseteq 0..2
  /\ MaxChanges \in Nat
  /\ MaxRequests \in Nat

VARIABLES
  up,        \* the server answers
  password,  \* how often each user's password was changed
  changes, requests,
  l,         \* attribute l: "None", "open", or "deleted"
  uri,       \* attribute uri is not None
  who,       \* attribute who
  last,      \* _last_bind of l
  link,      \* the connection: whether it is there, and its identity
  pc, loc    \* control and locals of each thread

outside == <<up, password, changes>>
object == <<l, uri, who, last, link>>
vars == <<outside, requests, object, pc, loc>>

Anyone == Users \union {NoUser}
NoBind == [who |-> NoUser, password |-> 0]
NoLink == [on |-> FALSE, as |-> NoUser]
NoLogin == [who |-> NoUser, mech |-> "simple", found |-> TRUE, correct |-> TRUE]

Commands == {"login", "use", "passwd"}
OpenLabels == {"Connect", "StartTLS", "OpenRootDSE"}
BindLabels == {"BindFlush", "BindReconnect", "BindName", "BindSend", "BindWhoami", "BindWho",
               "BindRootDSE", "BindUser"}
Labels == {"Idle", "RootDSE", "Dispatch", "PwReconnect", "Reconnect", "Unbind"}
            \union OpenLabels \union BindLabels

(* cmd and login: the request; starttls: the parameter of open(); whoami:   *)
(* the answer to whoami_s(); again: the command is dispatched a second time. *)
NoLocals == [cmd |-> "use", login |-> NoLogin, starttls |-> 0, whoami |-> NoUser, again |-> FALSE]

Init ==
  /\ up = TRUE
  /\ password = [u \in Users |-> 0]
  /\ changes = 0 /\ requests = 0
  /\ l = "None"
  /\ uri = FALSE
  /\ who = NoUser
  /\ last = NoBind
  /\ link = NoLink
  /\ pc = [t \in Threads |-> "Idle"]
  /\ loc = [t \in Threads |-> NoLocals]

-----------------------------------------------------------------------------
(* What happens outside: the server stops and starts, the connection is     *)
(* lost, another client changes a password.                                 *)

Change == changes < MaxChanges /\ changes' = changes + 1

ServerStops ==
  /\ Change
  /\ up
  /\ up' = FALSE
  /\ link' = [link EXCEPT !.on = FALSE]
  /\ UNCHANGED <<password, requests, l, uri, who, last, pc, loc>>

ServerStarts ==
  /\ ~up
  /\ up' = TRUE
  /\ UNCHANGED <<password, changes, requests, object, pc, loc>>

ConnectionLost ==
  /\ Change
  /\ link.on
  /\ link' = [link EXCEPT !.on = FALSE]
  /\ UNCHANGED <<up, password, requests, l, uri, who, last, pc, loc>>

PasswordChanged(u) ==
  /\ Change
  /\ password' = [password EXCEPT ![u] = @ + 1]
  /\ UNCHANGED <<up, requests, object, pc, loc>>

-----------------------------------------------------------------------------
(* Control of a thread, and the operations of l.                            *)

At(t, c) == pc[t] = c
Goto(t, c) == pc' = [pc EXCEPT ![t] = c] /\ UNCHANGED loc
Finish(t) == pc' = [pc EXCEPT ![t] = "Idle"] /\ loc' = [loc EXCEPT ![t] = NoLocals]

(* A new connection, bound as b says if its password is still right. *)
Rejected(b) == b.who # NoUser /\ b.password # password[b.who]
Connection(b) == [on |-> TRUE, as |-> IF Rejected(b) THEN NoUser ELSE b.who]

(* What can go wrong: l is not there, the server is down, the bind cannot   *)
(* be repeated.                                                             *)
Gone == l # "open" /\ UNCHANGED link
Down == l = "open" /\ ~up /\ UNCHANGED link
Expelled(b) == l = "open" /\ up /\ Rejected(b) /\ link' = Connection(b)

(* run() removes the session when the server is down, and keeps it after    *)
(* all other exceptions: AttributeError, INVALID_CREDENTIALS, LDAPError.    *)
Raise(t) == Finish(t)
RaiseDown(t) == Goto(t, "Unbind")

(* reconnect() *)
Connects(b) == l = "open" /\ up /\ ~Rejected(b) /\ link' = Connection(b)
ConnectFails(t, b) ==
  \/ (Gone \/ Expelled(b)) /\ Raise(t)
  \/ Down /\ RaiseDown(t)

(* An operation, which reconnects when it has to; the server answers, if    *)
(* only with an error code.                                                 *)
Works ==
  \/ l = "open" /\ link.on /\ UNCHANGED link
  \/ ~link.on /\ Connects(last)
Fails(t) == ~(l = "open" /\ link.on) /\ ConnectFails(t, last)
Refused(t) == Works /\ Raise(t)
(* An operation whose errors are ignored. *)
Tried == Works \/ (~link.on /\ (Down \/ Expelled(last)))

-----------------------------------------------------------------------------
(* open(), called by run() right after the session was created, when no     *)
(* other thread knows it; run() has assigned attribute uri before.          *)

(* A request, with what it asks for. *)
Request(t, c, cmd, login, s) ==
  /\ At(t, "Idle")
  /\ requests < MaxRequests
  /\ requests' = requests + 1
  /\ pc' = [pc EXCEPT ![t] = c]
  /\ loc' = [loc EXCEPT ![t] = [NoLocals EXCEPT !.cmd = cmd, !.login = login, !.starttls = s]]

Open(t, cmd, login, s) ==
  /\ ~uri
  /\ \A v \in Threads : At(v, "Idle")
  /\ Request(t, "Connect", cmd, login, s)
  /\ l' = "None"
  /\ uri' = TRUE
  /\ who' = NoUser
  /\ last' = NoBind
  /\ link' = NoLink
  /\ UNCHANGED outside

(* _initialize() with one URI. *)
Connect(t) ==
  /\ At(t, "Connect")
  /\ \/ l' = "open" /\ Goto(t, "StartTLS") /\ UNCHANGED uri
     \/ ~up /\ uri' = FALSE /\ RaiseDown(t) /\ UNCHANGED l
     \/ Raise(t) /\ UNCHANGED <<l, uri>>
  /\ UNCHANGED <<outside, requests, who, last, link>>

(* For some error codes and a server that is down, _start_tls() skips an    *)
(* optional StartTLS and unbinds if it was required; after another error    *)
(* code the session is left as it is.                                       *)
DoStartTLS(t) ==
  /\ At(t, "StartTLS")
  /\ \/ /\ loc[t].starttls = 0
        /\ Goto(t, "OpenRootDSE")
        /\ UNCHANGED <<l, uri, link>>
     \/ /\ loc[t].starttls > 0
        /\ (Works /\ Goto(t, "OpenRootDSE")) \/ Refused(t)
        /\ UNCHANGED <<l, uri>>
     \/ /\ loc[t].starttls = 1
        /\ Down
        /\ Goto(t, "OpenRootDSE")
        /\ UNCHANGED <<l, uri>>
     \/ /\ loc[t].starttls = 2
        /\ l' = "deleted"
        /\ uri' = FALSE
        /\ link' = NoLink
        /\ (up /\ Raise(t)) \/ (~up /\ RaiseDown(t))
  /\ UNCHANGED <<outside, requests, who, last>>

(* init_rootdse() ignores most error codes, but not all. *)
InitRootDSE(t, from, to) ==
  /\ At(t, from)
  /\ (Works /\ Goto(t, to)) \/ Fails(t) \/ Refused(t)
  /\ UNCHANGED <<outside, requests, l, uri, who, last>>

(* With a name and a password the request goes on with bind(). *)
OpenRootDSE(t) ==
  InitRootDSE(t, "OpenRootDSE", IF loc[t].cmd = "login" THEN "BindFlush" ELSE "RootDSE")

-----------------------------------------------------------------------------
(* bind()                                                                   *)

Login(t, login) ==
  /\ uri
  /\ Request(t, "BindFlush", "login", login, 0)
  /\ UNCHANGED <<outside, object>>

(* Mutant: the bind sent before is kept, and repeated by reconnect(). *)
BindFlush_Kept(t) ==
  /\ At(t, "BindFlush")
  /\ IF l = "open" THEN Goto(t, "BindReconnect") ELSE Raise(t)
  /\ UNCHANGED <<outside, requests, object>>

BindFlush(t) ==
  /\ At(t, "BindFlush")
  /\ \/ l = "open" /\ last' = NoBind /\ Goto(t, "BindReconnect")
     \/ l # "open" /\ Raise(t) /\ UNCHANGED last
  /\ UNCHANGED <<outside, requests, l, uri, who, link>>

BindReconnect(t) ==
  /\ At(t, "BindReconnect")
  /\ (Connects(last) /\ Goto(t, "BindName")) \/ ConnectFails(t, last)
  /\ UNCHANGED <<outside, requests, l, uri, who, last>>

(* get_bind_dn() searches for the entry with the name, unless it is a DN. *)
BindName(t) ==
  LET named == loc[t].login.mech = "simple" /\ loc[t].login.who # NoUser
      found == loc[t].login.found
  IN /\ At(t, "BindName")
     /\ \/ (named => found) /\ Goto(t, "BindSend") /\ UNCHANGED link
        \/ named /\ found /\ Works /\ Goto(t, "BindSend")
        \/ named /\ Refused(t)
        \/ named /\ Fails(t)
     /\ UNCHANGED <<outside, requests, l, uri, who, last>>

(* Only the simple bind assigns attribute who, None when it fails. *)
BindSend(t) ==
  LET login == loc[t].login
      Simple(u) == who' = IF login.mech = "simple" THEN u ELSE who
      Sent == l = "open" /\ (link.on \/ (up /\ ~Rejected(last)))
  IN /\ At(t, "BindSend")
     /\ \/ /\ Sent
           /\ login.correct
           /\ link' = [on |-> TRUE, as |-> login.who]
           /\ last' = [who |-> login.who,
                       password |-> IF login.who = NoUser THEN 0 ELSE password[login.who]]
           /\ Simple(login.who)
           /\ Goto(t, "BindWhoami")
        \/ /\ Sent
           /\ ~login.correct
           /\ link' = [on |-> TRUE, as |-> NoUser]
           /\ Simple(NoUser)
           /\ Raise(t)
           /\ UNCHANGED last
        \/ /\ Fails(t)
           /\ IF l = "open" THEN Simple(NoUser) ELSE UNCHANGED who
           /\ UNCHANGED last
     /\ UNCHANGED <<outside, requests, l, uri>>

(* "Who am I?"; without an answer, who is to be the name of the login; the  *)
(* mutant takes that for an anonymous session.                              *)
BindWhoami_Anonymous(t) ==
  /\ At(t, "BindWhoami")
  /\ \/ /\ Tried
        /\ pc' = [pc EXCEPT ![t] = "BindWho"]
        /\ \E u \in {NoUser} \union (IF Works THEN {link'.as} ELSE {}) :
             loc' = [loc EXCEPT ![t].whoami = u]
     \/ Gone /\ Raise(t)
  /\ UNCHANGED <<outside, requests, l, uri, who, last>>
BindWhoami(t) ==
  /\ At(t, "BindWhoami")
  /\ \/ /\ Tried
        /\ pc' = [pc EXCEPT ![t] = "BindWho"]
        /\ \E u \in {loc[t].login.who} \union (IF Works THEN {link'.as} ELSE {}) :
             loc' = [loc EXCEPT ![t].whoami = u]
     \/ Gone /\ Raise(t)
  /\ UNCHANGED <<outside, requests, l, uri, who, last>>

BindWho(t) ==
  /\ At(t, "BindWho")
  /\ who' = loc[t].whoami
  /\ Goto(t, "BindRootDSE")
  /\ UNCHANGED <<outside, requests, l, uri, last, link>>

BindRootDSE(t) == InitRootDSE(t, "BindRootDSE", "BindUser")

(* The search for the user's entry, by name if who is not known. *)
BindUser(t) ==
  /\ At(t, "BindUser")
  /\ \/ /\ Tried
        /\ who' = who \/ (Works /\ who = NoUser /\ who' = loc[t].login.who)
        /\ Goto(t, "Dispatch")
     \/ Gone /\ Raise(t) /\ UNCHANGED who
  /\ UNCHANGED <<outside, requests, l, uri, last>>

-----------------------------------------------------------------------------
(* The command, and the second try after SERVER_DOWN.                       *)

Use(t) ==
  /\ uri
  /\ Request(t, "RootDSE", "use", NoLogin, 0)
  /\ UNCHANGED <<outside, object>>

(* The command passwd, of w2l_passwd(), for user u. *)
Passwd(t, u) ==
  /\ uri
  /\ Request(t, "RootDSE", "passwd", [NoLogin EXCEPT !.who = u], 0)
  /\ UNCHANGED <<outside, object>>

Disconnect(t) ==
  /\ uri
  /\ Request(t, "Unbind", "use", NoLogin, 0)
  /\ UNCHANGED <<outside, object>>

RootDSE(t) == InitRootDSE(t, "RootDSE", "Dispatch")

DownInDispatch(t) ==
  /\ Down
  /\ pc' = [pc EXCEPT ![t] = IF loc[t].again THEN "Unbind" ELSE "Reconnect"]
  /\ loc' = [loc EXCEPT ![t].again = TRUE]

(* A user may change the own password; if it is the one the session is      *)
(* bound with, the session has to log in again.                             *)
Dispatch(t) ==
  /\ At(t, "Dispatch")
  /\ \/ Works /\ Finish(t) /\ UNCHANGED password
     \/ /\ loc[t].cmd = "passwd"
        /\ Works
        /\ link'.as = loc[t].login.who
        /\ password' = [password EXCEPT ![loc[t].login.who] = @ + 1]
        /\ IF who = loc[t].login.who THEN Goto(t, "PwReconnect") ELSE Finish(t)
     \/ /\ ~(l = "open" /\ link.on)
        /\ ((Gone \/ Expelled(last)) /\ Raise(t)) \/ DownInDispatch(t)
        /\ UNCHANGED password
  /\ UNCHANGED <<up, changes, requests, l, uri, who, last>>

PwReconnect(t) ==
  /\ At(t, "PwReconnect")
  /\ \/ Connects(NoBind) /\ last' = NoBind /\ who' = NoUser /\ Finish(t)
     \/ Gone /\ Raise(t) /\ UNCHANGED <<who, last>>
     \/ DownInDispatch(t) /\ last' = NoBind /\ UNCHANGED who
  /\ UNCHANGED <<outside, requests, l, uri>>

Reconnect(t) ==
  /\ At(t, "Reconnect")
  /\ (Connects(last) /\ Goto(t, "Dispatch")) \/ ConnectFails(t, last)
  /\ UNCHANGED <<outside, requests, l, uri, who, last>>

(* unbind(), which keeps l if the server refuses. *)
Unbind(t) ==
  /\ At(t, "Unbind")
  /\ l' \in (IF l = "open" THEN {"deleted", "open"} ELSE {l})
  /\ uri' = FALSE
  /\ link' = NoLink
  /\ Finish(t)
  /\ UNCHANGED <<outside, requests, who, last>>

Environment ==
  \/ ServerStops \/ ServerStarts \/ ConnectionLost
  \/ \E u \in Users : PasswordChanged(u)

Step(t) ==
  \/ Connect(t) \/ DoStartTLS(t) \/ OpenRootDSE(t)
  \/ BindFlush(t) \/ BindReconnect(t) \/ BindName(t) \/ BindSend(t)
  \/ BindWhoami(t) \/ BindWho(t) \/ BindRootDSE(t) \/ BindUser(t)
  \/ RootDSE(t) \/ Dispatch(t) \/ PwReconnect(t) \/ Reconnect(t) \/ Unbind(t)

Requests(t) ==
  \/ \E s \in StartTLS : Open(t, "use", NoLogin, s)
  \/ Use(t) \/ Disconnect(t)
  \/ /\ t \in Loggers
     /\ \/ \E login \in Logins : Login(t, login) \/ \E s \in StartTLS : Open(t, "login", login, s)
        \/ \E u \in Users : Passwd(t, u)

Next == Environment \/ \E t \in Threads : Requests(t) \/ Step(t)

Spec == Init /\ [][Next]_vars

-----------------------------------------------------------------------------
(* Properties.                                                              *)

Locals == [cmd : Commands, login : [who : Anyone, mech : {"simple", "SASL"}, found : BOOLEAN, correct : BOOLEAN],
           starttls : 0..2, whoami : Anyone, again : BOOLEAN]

(* Every variable has its type. *)
TypeOK ==
  /\ up \in BOOLEAN
  /\ password \in [Users -> Nat]
  /\ changes \in 0..MaxChanges
  /\ requests \in 0..MaxRequests
  /\ l \in {"None", "open", "deleted"}
  /\ uri \in BOOLEAN
  /\ who \in Anyone
  /\ last \in [who : Anyone, password : Nat]
  /\ link \in [on : BOOLEAN, as : Anyone]
  /\ pc \in [Threads -> Labels]
  /\ loc \in [Threads -> Locals]

LoggingIn(t) == loc[t].cmd = "login" /\ pc[t] \in BindLabels

(* The requests of a session are sent anonymously, as the user it is shown  *)
(* to be bound as, or as one who is logging in: a reconnect never comes     *)
(* back to an identity the session has left, by a failed login or by a      *)
(* change of the own password.                                              *)
NoForgottenIdentity ==
  link.on => link.as \in {NoUser, who} \union {loc[t].login.who : t \in {v \in Threads : LoggingIn(v)}}

(* When bind() returns, the session is shown to be bound as the user who    *)
(* has logged in, and the bind will be repeated as that user, whatever has  *)
(* failed after the bind and whatever requests other threads have sent,     *)
(* unless the password was changed meanwhile.                               *)
LoginTakesEffect ==
  \A t \in Threads :
    (pc[t] = "Dispatch" /\ loc[t].cmd = "login" /\ ~loc[t].again /\ uri /\ ~Rejected(last))
      => who = loc[t].login.who /\ last.who = who

(* Comment in bind(): "Explicitly fall back to anonymous bind before        *)
(* re-raising exception".  Between requests, the user the session is shown  *)
(* to be bound as is the one its next request is sent as.                   *)
WhoIsBound ==
  (uri /\ l = "open" /\ \A t \in Threads : pc[t] = "Idle")
    => who = IF link.on THEN link.as ELSE last.who
=============================================================================
