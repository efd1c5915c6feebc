-------------------------- MODULE LDAPSessionProofs -------------------------
(***************************************************************************)
(* Theorems about LDAPSession for every number of threads and users, if     *)
(* one thread at most serves requests that log in.                          *)
(*                                                                         *)
(* A reconnect binds the connection as last says, so NoForgottenIdentity    *)
(* needs the same of last, unless the password kept there is outdated; and  *)
(* the thread that logs in must find the connection anonymous up to its     *)
(* bind request, and bound as its user from then on, whatever the others do *)
(* in between.                                                              *)
(***************************************************************************)
EXTENDS LDAPSession, TLAPS

OneLogger == \A t, v \in Loggers : t = v

(* The thread has sent its bind request and not yet assigned who. *)
Binding(t) == pc[t] \in {"BindWhoami", "BindWho"}

(* Whom the connection may be bound as. *)
Known(u) == u \in {NoUser, who} \/ \E t \in Threads : Binding(t) /\ u = loc[t].login.who

ObjectOK ==
  /\ link.on => up /\ l = "open" /\ Known(link.as)
  /\ l = "open" => Rejected(last) \/ Known(last.who)
  /\ last.who # NoUser => last.password <= password[last.who]

(* What a thread relies on at its control point. *)
ThreadOK(t) ==
  /\ loc[t].cmd # "use" => t \in Loggers
  /\ pc[t] \in BindLabels => loc[t].cmd = "login"
  /\ pc[t] = "PwReconnect" => loc[t].cmd = "passwd"
  /\ pc[t] = "Connect" => l = "None" /\ last = NoBind
  /\ pc[t] \in {"BindReconnect", "BindName", "BindSend"} => last = NoBind
  /\ pc[t] \in {"BindName", "BindSend"} => (link.on => link.as = NoUser)
  /\ Binding(t) => l # "None"
  /\ Binding(t) /\ l = "open" => last.who = loc[t].login.who
  /\ Binding(t) /\ link.on => link.as = loc[t].login.who \/ (Rejected(last) /\ link.as = NoUser)
  /\ pc[t] = "BindWho" /\ loc[t].whoami # loc[t].login.who
       => /\ loc[t].whoami = NoUser
          /\ l = "open" => Rejected(last)
          /\ link.on => link.as = NoUser

(* One thread at most is in open(). *)
OneOpen == \A t, v \in Threads : pc[t] \in OpenLabels /\ pc[v] \in OpenLabels => t = v

IdentityInv == ObjectOK /\ OneOpen /\ \A t \in Threads : ThreadOK(t)

-----------------------------------------------------------------------------
(* Types.                                                                   *)

Binds == [who : Anyone, password : Nat]
Links == [on : BOOLEAN, as : Anyone]
LoginTypes == [who : Anyone, mech : {"simple", "SASL"}, found : BOOLEAN, correct : BOOLEAN]

USE DEF Labels, OpenLabels, BindLabels

(* Both connections a step can make have their type. *)
LEMMA ConnectionTypes ==
  ASSUME TypeOK
  PROVE  NoBind \in Binds /\ Connection(last) \in Links /\ Connection(NoBind) \in Links
BY DEF TypeOK, NoBind, Connection, Binds, Links, Anyone

(* What the operations of l do to the connection. *)
LinkKept ==
  \/ link' = link
  \/ link' = [link EXCEPT !.on = FALSE]
  \/ l = "open" /\ up /\ link' = Connection(last)

(* Whatever comes of an operation, it leaves the connection or repeats the  *)
(* last bind.                                                               *)
LEMMA Reached ==
  ASSUME NEW t \in Threads,
         \/ Works \/ Tried \/ Gone \/ Down \/ Connects(last)
         \/ Fails(t) \/ Refused(t) \/ ConnectFails(t, last)
  PROVE  LinkKept
BY DEF LinkKept, Works, Tried, Fails, Refused, Connects, ConnectFails, Gone, Down, Expelled

(* A failing operation ends the request, or the session. *)
LEMMA Raised ==
  ASSUME NEW t \in Threads, Fails(t) \/ Refused(t) \/ ConnectFails(t, last)
  PROVE  Finish(t) \/ Goto(t, "Unbind")
BY DEF Fails, Refused, ConnectFails, Raise, RaiseDown

ObjectTypes ==
  /\ l \in {"None", "open", "deleted"}
  /\ uri \in BOOLEAN
  /\ who \in Anyone
  /\ last \in Binds
  /\ link \in Links

ControlTypes ==
  /\ pc \in [Threads -> Labels]
  /\ loc \in [Threads -> Locals]

OutsideTypes ==
  /\ up \in BOOLEAN
  /\ password \in [Users -> Nat]
  /\ changes \in 0..MaxChanges
  /\ requests \in 0..MaxRequests

(* TypeOK in three parts, before and after a step. *)
LEMMA TypeParts ==
  /\ TypeOK <=> ObjectTypes /\ ControlTypes /\ OutsideTypes
  /\ TypeOK' <=> ObjectTypes' /\ ControlTypes' /\ OutsideTypes'
BY DEF TypeOK, ObjectTypes, ControlTypes, OutsideTypes, Binds, Links

(* The connection keeps its type when an operation is done. *)
LEMMA LinkKeptType ==
  ASSUME TypeOK, LinkKept
  PROVE  link' \in Links
BY ConnectionTypes DEF TypeOK, LinkKept, Links

(* The locals and the login of a thread without a request. *)
LEMMA NoLocalsType == NoLocals \in Locals /\ NoLogin \in LoginTypes
<1>1. NoLogin \in LoginTypes
  BY DEF NoLogin, LoginTypes, Anyone
<1>2. QED BY <1>1 DEF NoLocals, Locals, LoginTypes, Commands, Anyone

(* A step of a thread to a control point, with its locals or without. *)
LEMMA MovedTypes ==
  ASSUME ControlTypes, NEW t \in Threads, NEW c \in Labels,
         Goto(t, c) \/ Finish(t)
  PROVE  ControlTypes'
BY NoLocalsType DEF ControlTypes, Goto, Finish

(* A new request keeps the types of the control variables. *)
LEMMA RequestTypes ==
  ASSUME TypeOK, NEW t \in Threads, NEW c \in Labels, NEW cmd \in Commands,
         NEW login \in LoginTypes, NEW s \in 0..2, Request(t, c, cmd, login, s)
  PROVE  ControlTypes' /\ requests' \in 0..MaxRequests
<1>1. [NoLocals EXCEPT !.cmd = cmd, !.login = login, !.starttls = s] \in Locals
  BY NoLocalsType DEF Locals, LoginTypes, NoLocals
<1>2. ControlTypes'
  BY <1>1 DEF Request, TypeOK, ControlTypes
<1>3. QED BY <1>2, SessionAssumption DEF Request, TypeOK

(* A step that leaves the object alone, but for its connection. *)
LEMMA LinkStepTypes ==
  ASSUME TypeOK, ControlTypes', LinkKept, UNCHANGED <<outside, requests, l, uri, who, last>>
  PROVE  TypeOK'
BY LinkKeptType, TypeParts DEF ObjectTypes, OutsideTypes, outside

(* What happens outside keeps the types. *)
LEMMA EnvironmentTypes ==
  ASSUME TypeOK, Environment
  PROVE  TypeOK'
<1>1. CASE ServerStops \/ ConnectionLost
  <2>1. link' \in Links
    BY <1>1 DEF TypeOK, Links, ServerStops, ConnectionLost
  <2>2. Change /\ up' \in BOOLEAN
    BY <1>1, Zenon DEF TypeOK, ServerStops, ConnectionLost
  <2>3. changes' \in 0..MaxChanges
    BY <2>2, SessionAssumption DEF TypeOK, Change
  <2>4. QED BY <1>1, <2>1, <2>2, <2>3 DEF TypeOK, Links, ServerStops, ConnectionLost
<1>2. CASE ServerStarts
  BY <1>2 DEF TypeOK, ServerStarts, object
<1>3. ASSUME NEW u \in Users, PasswordChanged(u) PROVE TypeOK'
  <2>1. password[u] + 1 \in Nat
    BY DEF TypeOK
  <2>2. password' \in [Users -> Nat]
    BY <1>3, <2>1 DEF TypeOK, PasswordChanged
  <2>3. changes' \in 0..MaxChanges
    BY <1>3, SessionAssumption DEF TypeOK, Change, PasswordChanged
  <2>4. QED BY <1>3, <2>2, <2>3 DEF TypeOK, PasswordChanged, object
<1>4. QED BY <1>1, <1>2, <1>3 DEF Environment

(* A new request keeps the types. *)
LEMMA RequestsTypes ==
  ASSUME TypeOK, NEW t \in Threads, Requests(t)
  PROVE  TypeOK'
<1>1. ASSUME NEW c \in Labels, NEW cmd \in Commands, NEW login \in LoginTypes, NEW s \in 0..2,
             Request(t, c, cmd, login, s), UNCHANGED outside, ObjectTypes'
      PROVE  TypeOK'
  BY <1>1, RequestTypes, TypeParts DEF OutsideTypes, outside
<1>2. Logins \subseteq LoginTypes /\ StartTLS \subseteq 0..2 /\ NoLogin \in LoginTypes
  BY SessionAssumption, NoLocalsType DEF LoginTypes, Anyone
<1>3. UNCHANGED object => ObjectTypes'
  BY TypeParts DEF ObjectTypes, object
<1>4. ASSUME NEW cmd \in Commands, NEW login \in LoginTypes, NEW s \in 0..2,
             Open(t, cmd, login, s)
      PROVE  TypeOK'
  <2>1. ObjectTypes'
    BY <1>4 DEF Open, ObjectTypes, NoBind, NoLink, Binds, Links, Anyone
  <2>2. QED BY <1>1, <1>4, <2>1 DEF Open
<1>5. ASSUME NEW login \in Logins, Login(t, login) PROVE TypeOK'
  BY <1>1, <1>2, <1>3, <1>5 DEF Login, Commands
<1>6. ASSUME NEW u \in Users, Passwd(t, u) PROVE TypeOK'
  <2>1. [NoLogin EXCEPT !.who = u] \in LoginTypes
    BY <1>2 DEF LoginTypes, Anyone
  <2>2. QED BY <1>1, <1>3, <1>6, <2>1 DEF Passwd, Commands
<1>7. CASE Use(t) \/ Disconnect(t)
  BY <1>1, <1>2, <1>3, <1>7 DEF Use, Disconnect, Commands
<1>8. QED BY <1>2, <1>4, <1>5, <1>6, <1>7 DEF Requests, Commands

(* A step of open() or bind() keeps the types. *)
LEMMA OpenTypes ==
  ASSUME TypeOK, NEW t \in Threads, Connect(t) \/ DoStartTLS(t) \/ OpenRootDSE(t)
  PROVE  TypeOK'
<1>1. ControlTypes
  BY TypeParts
<1>2. CASE Connect(t)
  <2>1. ControlTypes'
    BY <1>1, <1>2, MovedTypes DEF Connect, Raise, RaiseDown
  <2>2. QED BY <1>2, <2>1, TypeParts DEF Connect, outside, ObjectTypes, OutsideTypes
<1>3. CASE DoStartTLS(t)
  <2>1. ControlTypes'
    BY <1>1, <1>3, MovedTypes, Raised DEF DoStartTLS, Raise, RaiseDown
  <2>2. LinkKept \/ link' = NoLink
    <3>1. link' = link \/ Works \/ Refused(t) \/ Down \/ link' = NoLink
      BY <1>3 DEF DoStartTLS
    <3>2. QED BY <3>1, Reached DEF LinkKept
  <2>3. link' \in Links
    <3>1. NoLink \in Links
      BY DEF NoLink, Links, Anyone
    <3>2. QED BY <2>2, <3>1, LinkKeptType
  <2>4. QED BY <1>3, <2>1, <2>3, TypeParts DEF DoStartTLS, outside, ObjectTypes, OutsideTypes
<1>4. CASE OpenRootDSE(t)
  <2>1. ControlTypes'
    BY <1>1, <1>4, MovedTypes, Raised DEF OpenRootDSE, InitRootDSE
  <2>2. QED BY <1>4, <2>1, Reached, LinkStepTypes DEF OpenRootDSE, InitRootDSE
<1>5. QED BY <1>2, <1>3, <1>4

(* The steps of a thread that change nothing of the object but its          *)
(* connection, and go on or end the request.                                *)
Plain(t) ==
  \/ BindReconnect(t) \/ BindName(t) \/ BindRootDSE(t) \/ OpenRootDSE(t) \/ RootDSE(t)
  \/ Reconnect(t)

(* Such a step does what an operation of l does, and goes somewhere. *)
LEMMA PlainStep ==
  ASSUME TypeOK, NEW t \in Threads, Plain(t)
  PROVE  /\ LinkKept
         /\ \E c \in Labels : Goto(t, c) \/ Finish(t)
         /\ UNCHANGED <<outside, requests, l, uri, who, last>>
<1>1. ASSUME NEW from, NEW to \in Labels, InitRootDSE(t, from, to)
      PROVE  /\ LinkKept
             /\ Goto(t, to) \/ Goto(t, "Unbind") \/ Finish(t)
             /\ UNCHANGED <<outside, requests, l, uri, who, last>>
  <2>1. (Works /\ Goto(t, to)) \/ Fails(t) \/ Refused(t)
    BY <1>1 DEF InitRootDSE
  <2>2. LinkKept
    BY <2>1, Reached
  <2>3. Goto(t, to) \/ Goto(t, "Unbind") \/ Finish(t)
    BY <2>1, Raised
  <2>4. QED BY <1>1, <2>2, <2>3 DEF InitRootDSE
<1>2. CASE BindRootDSE(t)
  BY <1>1, <1>2 DEF BindRootDSE
<1>3. CASE OpenRootDSE(t) \/ RootDSE(t)
  BY <1>1, <1>3 DEF OpenRootDSE, RootDSE
<1>4. CASE BindReconnect(t) \/ Reconnect(t)
  <2>1. \/ Connects(last) /\ (Goto(t, "BindName") \/ Goto(t, "Dispatch"))
        \/ ConnectFails(t, last)
    BY <1>4 DEF BindReconnect, Reconnect
  <2>2. LinkKept
    BY <2>1, Reached
  <2>3. \E c \in Labels : Goto(t, c) \/ Finish(t)
    BY <2>1, Raised
  <2>4. QED BY <1>4, <2>2, <2>3 DEF BindReconnect, Reconnect
<1>5. CASE BindName(t)
  <2>1. \/ (UNCHANGED link \/ Works) /\ Goto(t, "BindSend")
        \/ Refused(t) \/ Fails(t)
    BY <1>5 DEF BindName
  <2>2. LinkKept
    BY <2>1, Reached DEF LinkKept
  <2>3. \E c \in Labels : Goto(t, c) \/ Finish(t)
    BY <2>1, Raised
  <2>4. QED BY <1>5, <2>2, <2>3 DEF BindName
<1>6. QED BY <1>2, <1>3, <1>4, <1>5 DEF Plain

(* A step of bind() that changes more than the connection keeps the types. *)
LEMMA BindTypes ==
  ASSUME TypeOK, NEW t \in Threads,
         BindFlush(t) \/ BindSend(t) \/ BindWhoami(t) \/ BindWho(t) \/ BindUser(t)
  PROVE  TypeOK'
<1>1. ControlTypes /\ ObjectTypes /\ OutsideTypes
  BY TypeParts
<1>2. loc[t] \in Locals /\ loc[t].login.who \in Anyone /\ loc[t].whoami \in Anyone
  BY <1>1 DEF ControlTypes, Locals
<1>3. CASE BindFlush(t)
  <2>1. ControlTypes' /\ last' \in Binds
    BY <1>1, <1>3, MovedTypes, ConnectionTypes DEF BindFlush, Raise, ObjectTypes
  <2>2. QED BY <1>1, <1>3, <2>1, TypeParts DEF BindFlush, outside, ObjectTypes, OutsideTypes
<1>4. CASE BindSend(t)
  <2>1. ControlTypes'
    BY <1>1, <1>4, MovedTypes, Raised DEF BindSend, Raise
  <2>2. who' \in Anyone
    BY <1>2, <1>4, <1>1 DEF BindSend, ObjectTypes, Anyone
  <2>3. \/ last' = last
        \/ last' = [who |-> loc[t].login.who,
                    password |-> IF loc[t].login.who = NoUser THEN 0
                                 ELSE password[loc[t].login.who]]
    BY <1>4 DEF BindSend
  <2>4. last' \in Binds
    BY <1>1, <1>2, <2>3 DEF ObjectTypes, OutsideTypes, Binds, Anyone
  <2>5. \/ link' = [on |-> TRUE, as |-> loc[t].login.who]
        \/ link' = [on |-> TRUE, as |-> NoUser]
        \/ Fails(t)
    BY <1>4 DEF BindSend
  <2>6. \A u \in Anyone : [on |-> TRUE, as |-> u] \in Links
    BY DEF Links
  <2>7. link' \in Links
    BY <1>2, <2>5, <2>6, Reached, LinkKeptType DEF Anyone
  <2>8. QED BY <1>1, <1>4, <2>1, <2>2, <2>4, <2>7, TypeParts
            DEF BindSend, outside, ObjectTypes, OutsideTypes
<1>5. CASE BindWhoami(t)
  <2>1. LinkKept
    BY <1>5, Reached DEF BindWhoami
  <2>2. link' \in Links /\ link'.as \in Anyone
    BY <2>1, LinkKeptType DEF Links
  <2>3. \/ Raise(t)
        \/ \E u \in Anyone : pc' = [pc EXCEPT ![t] = "BindWho"]
                             /\ loc' = [loc EXCEPT ![t].whoami = u]
    BY <1>2, <1>5, <2>2 DEF BindWhoami
  <2>4. ASSUME NEW u \in Anyone PROVE [loc[t] EXCEPT !.whoami = u] \in Locals
    BY <1>2 DEF Locals
  <2>5. ControlTypes'
    BY <1>1, <2>3, <2>4, MovedTypes DEF Raise, ControlTypes
  <2>6. QED BY <1>5, <2>1, <2>5, LinkStepTypes DEF BindWhoami
<1>6. CASE BindWho(t)
  <2>1. ControlTypes' /\ who' \in Anyone
    BY <1>1, <1>2, <1>6, MovedTypes DEF BindWho
  <2>2. QED BY <1>1, <1>6, <2>1, TypeParts DEF BindWho, outside, ObjectTypes, OutsideTypes
<1>7. CASE BindUser(t)
  <2>1. LinkKept /\ who' \in Anyone
    BY <1>1, <1>2, <1>7, Reached DEF BindUser, ObjectTypes
  <2>2. ControlTypes' /\ link' \in Links
    BY <1>1, <1>7, <2>1, MovedTypes, LinkKeptType DEF BindUser, Raise
  <2>3. QED BY <1>1, <1>7, <2>1, <2>2, TypeParts DEF BindUser, outside, ObjectTypes, OutsideTypes
<1>8. QED BY <1>3, <1>4, <1>5, <1>6, <1>7

(* The command, passwd and unbind() keep the types. *)
LEMMA CommandTypes ==
  ASSUME TypeOK, NEW t \in Threads, Dispatch(t) \/ PwReconnect(t) \/ Unbind(t)
  PROVE  TypeOK'
<1>1. ControlTypes /\ ObjectTypes /\ OutsideTypes
  BY TypeParts
<1>2. loc[t] \in Locals /\ loc[t].login.who \in Anyone
  BY <1>1 DEF ControlTypes, Locals
<1>3. DownInDispatch(t) => ControlTypes' /\ LinkKept
  <2>1. [loc[t] EXCEPT !.again = TRUE] \in Locals
    BY <1>2 DEF Locals
  <2>2. QED BY <1>1, <2>1, Reached DEF DownInDispatch, ControlTypes
<1>4. CASE Dispatch(t)
  <2>1. \/ Works /\ (Finish(t) \/ Goto(t, "PwReconnect"))
        \/ (Gone \/ Expelled(last)) /\ Raise(t)
        \/ DownInDispatch(t)
    BY <1>4 DEF Dispatch
  <2>2. ControlTypes' /\ LinkKept
    BY <1>1, <1>3, <2>1, MovedTypes, Reached DEF Raise, Expelled, LinkKept
  <2>3. link' \in Links
    BY <2>2, LinkKeptType
  <2>4. password[loc[t].login.who] + 1 \in Nat \/ loc[t].login.who = NoUser
    BY <1>1, <1>2 DEF OutsideTypes, Anyone
  <2>5. password' \in [Users -> Nat]
    <3>1. \/ password' = password
          \/ password' = [password EXCEPT ![loc[t].login.who] = password[loc[t].login.who] + 1]
      BY <1>4 DEF Dispatch
    <3>2. NoUser \notin Users
      BY SessionAssumption
    <3>3. QED BY <1>1, <2>4, <3>1, <3>2 DEF OutsideTypes
  <2>6. QED BY <1>1, <1>4, <2>2, <2>3, <2>5, TypeParts DEF Dispatch, ObjectTypes, OutsideTypes
<1>5. CASE PwReconnect(t)
  <2>1. ControlTypes'
    BY <1>1, <1>3, <1>5, MovedTypes DEF PwReconnect, Raise
  <2>2. last' \in Binds /\ who' \in Anyone
    BY <1>1, <1>5, ConnectionTypes DEF PwReconnect, ObjectTypes, Anyone
  <2>3. link' = link \/ link' = Connection(NoBind)
    BY <1>5 DEF PwReconnect, Connects, Gone, DownInDispatch, Down
  <2>4. link' \in Links
    BY <1>1, <2>3, ConnectionTypes DEF ObjectTypes
  <2>5. QED BY <1>1, <1>5, <2>1, <2>2, <2>4, TypeParts
            DEF PwReconnect, outside, ObjectTypes, OutsideTypes
<1>6. CASE Unbind(t)
  <2>1. NoLink \in Links
    BY DEF NoLink, Links, Anyone
  <2>2. ControlTypes'
    BY <1>1, <1>6, MovedTypes DEF Unbind
  <2>3. l' \in {"None", "open", "deleted"}
    BY <1>1, <1>6 DEF Unbind, ObjectTypes
  <2>4. QED BY <1>1, <1>6, <2>1, <2>2, <2>3, TypeParts
            DEF Unbind, outside, ObjectTypes, OutsideTypes
<1>7. QED BY <1>4, <1>5, <1>6

(* Every step keeps the types. *)
LEMMA TypeStep ==
  ASSUME TypeOK, [Next]_vars
  PROVE  TypeOK'
<1>1. CASE Environment
  BY <1>1, EnvironmentTypes
<1>2. ASSUME NEW t \in Threads, Requests(t) PROVE TypeOK'
  BY <1>2, RequestsTypes
<1>3. ASSUME NEW t \in Threads, Step(t) PROVE TypeOK'
  <2>1. CASE Plain(t)
    <3>1. ControlTypes'
      BY <2>1, PlainStep, MovedTypes, TypeParts
    <3>2. QED BY <2>1, <3>1, PlainStep, LinkStepTypes
  <2>2. \/ Plain(t) \/ Connect(t) \/ DoStartTLS(t)
        \/ BindFlush(t) \/ BindSend(t) \/ BindWhoami(t) \/ BindWho(t) \/ BindUser(t)
        \/ Dispatch(t) \/ PwReconnect(t) \/ Unbind(t)
    BY <1>3 DEF Step, Plain
  <2>3. QED BY <2>1, <2>2, OpenTypes, BindTypes, CommandTypes
<1>4. CASE UNCHANGED vars
  BY <1>4, TypeParts DEF vars, outside, object, ObjectTypes, ControlTypes, OutsideTypes
<1>5. QED BY <1>1, <1>2, <1>3, <1>4 DEF Next

(* A session that has not been opened has its types. *)
LEMMA TypeInit == Init => TypeOK
<1> SUFFICES ASSUME Init PROVE TypeOK
  OBVIOUS
<1>1. ObjectTypes
  BY DEF Init, ObjectTypes, NoBind, NoLink, Binds, Links, Anyone
<1>2. ControlTypes
  BY NoLocalsType DEF Init, ControlTypes
<1>3. OutsideTypes
  BY SessionAssumption DEF Init, OutsideTypes
<1>4. QED BY <1>1, <1>2, <1>3, TypeParts

(* Every variable keeps its type, whatever fails and in whatever order the  *)
(* threads use the LDAPSession.                                             *)
THEOREM TypeCorrect == Spec => []TypeOK
BY TypeInit, TypeStep, PTL DEF Spec

-----------------------------------------------------------------------------
(* Identity: steps that keep who the session is bound as.                   *)

(* A step that leaves the object alone but for its connection; if it leaves *)
(* bind() between bind request and answer, the connection is gone.          *)
Kept(t) ==
  /\ LinkKept
  /\ UNCHANGED <<up, password, l, who, last>>
  /\ \A v \in Threads \ {t} : pc'[v] = pc[v] /\ loc'[v] = loc[v]
  /\ Binding(t) /\ l = "open" => Binding(t)' /\ loc'[t].login = loc[t].login

(* A repeated bind gives the user the session knows, or nobody.             *)
LEMMA Repeated ==
  ASSUME NEW b, Connection(b).as # NoUser
  PROVE  Connection(b).as = b.who /\ ~Rejected(b)
BY DEF Connection

(* Such a step forgets no identity while the connection is there. *)
LEMMA KnownKept ==
  ASSUME TypeOK, NEW t \in Threads, Kept(t), l = "open", NEW u, Known(u)
  PROVE  Known(u)'
<1>1. CASE u \in {NoUser, who}
  BY <1>1 DEF Known, Kept
<1>2. ASSUME NEW v \in Threads, Binding(v), u = loc[v].login.who PROVE Known(u)'
  <2>1. Binding(v)' /\ loc'[v].login = loc[v].login
    BY <1>2 DEF Kept, Binding
  <2>2. QED BY <1>2, <2>1 DEF Known
<1>3. QED BY <1>1, <1>2 DEF Known

(* Whether the bind can be repeated depends on the passwords alone. *)
LEMMA RejectedKept ==
  ASSUME UNCHANGED <<password, last>>
  PROVE  Rejected(last)' <=> Rejected(last)
BY DEF Rejected

(* Such a step leaves the connection bound as somebody known. *)
LEMMA KeptObject ==
  ASSUME TypeOK, ObjectOK, NEW t \in Threads, Kept(t)
  PROVE  ObjectOK'
<1>1. UNCHANGED <<up, password, l, who, last>> /\ LinkKept
  BY DEF Kept
<1>2. link'.on => up /\ l = "open" /\ Known(link'.as)
  <2>1. CASE link' = link
    BY <2>1 DEF ObjectOK
  <2>2. CASE link' = [link EXCEPT !.on = FALSE]
    BY <2>2 DEF TypeOK
  <2>3. CASE l = "open" /\ up /\ link' = Connection(last)
    <3>1. Connection(last).as = NoUser \/ Known(last.who)
      BY <2>3, Repeated DEF ObjectOK
    <3>2. Known(Connection(last).as)
      BY <3>1, Repeated DEF Known
    <3>3. QED BY <2>3, <3>2
  <2>4. QED BY <1>1, <2>1, <2>2, <2>3 DEF LinkKept
<1>3. (link.on => up /\ l = "open" /\ Known(link.as))'
  BY <1>1, <1>2, KnownKept DEF Known
<1>4. (l = "open" => Rejected(last) \/ Known(last.who))'
  BY <1>1, KnownKept, RejectedKept DEF ObjectOK, Known
<1>5. QED BY <1>1, <1>3, <1>4 DEF ObjectOK

(* What a thread relies on stays true when another one takes such a step.   *)
LEMMA KeptThread ==
  ASSUME TypeOK, ObjectOK, NEW t \in Threads, Kept(t),
         NEW v \in Threads, v # t, ThreadOK(v)
  PROVE  ThreadOK(v)'
<1>1. UNCHANGED <<up, password, l, who, last>> /\ pc'[v] = pc[v] /\ loc'[v] = loc[v]
  BY DEF Kept
<1>2. (pc[v] \in {"BindName", "BindSend"} => (link.on => link.as = NoUser))'
  <2>1. last = NoBind => Connection(last).as = NoUser
    BY DEF NoBind, Connection
  <2>2. QED BY <1>1, <2>1 DEF ThreadOK, Kept, LinkKept, TypeOK
<1>3. (Binding(v) /\ link.on => link.as = loc[v].login.who \/ (Rejected(last) /\ link.as = NoUser))'
  <2>1. Connection(last).as = last.who \/ (Rejected(last) /\ Connection(last).as = NoUser)
    BY DEF Connection
  <2>2. Rejected(last)' <=> Rejected(last)
    BY <1>1, RejectedKept
  <2>3. QED BY <1>1, <2>1, <2>2 DEF ThreadOK, Kept, LinkKept, TypeOK, Binding
<1>4. (pc[v] = "BindWho" /\ loc[v].whoami # loc[v].login.who
         => /\ loc[v].whoami = NoUser
            /\ l = "open" => Rejected(last)
            /\ link.on => link.as = NoUser)'
  <2>1. Rejected(last) => Connection(last).as = NoUser
    BY DEF Connection
  <2>2. Rejected(last)' <=> Rejected(last)
    BY <1>1, RejectedKept
  <2>3. QED BY <1>1, <2>1, <2>2 DEF ThreadOK, Kept, LinkKept, TypeOK
<1>5. QED BY <1>1, <1>2, <1>3, <1>4 DEF ThreadOK, Binding

(* The whole invariant, from the part about the thread that moves.          *)
LEMMA KeptInv ==
  ASSUME TypeOK, IdentityInv, NEW t \in Threads, Kept(t), ThreadOK(t)',
         pc'[t] \in OpenLabels => pc[t] \in OpenLabels
  PROVE  IdentityInv'
<1>1. ObjectOK'
  BY KeptObject DEF IdentityInv
<1>2. ASSUME NEW v \in Threads PROVE ThreadOK(v)'
  BY KeptThread DEF IdentityInv
<1>3. OneOpen'
  BY DEF Kept, IdentityInv, OneOpen
<1>4. QED BY <1>1, <1>2, <1>3 DEF IdentityInv

(* The end of a request, or of the session: nothing is relied on any more.  *)
LEMMA Ended ==
  ASSUME TypeOK, NEW t \in Threads, ThreadOK(t), Finish(t) \/ Goto(t, "Unbind")
  PROVE  /\ ThreadOK(t)'
         /\ pc'[t] \notin OpenLabels
         /\ \A v \in Threads \ {t} : pc'[v] = pc[v] /\ loc'[v] = loc[v]
BY DEF TypeOK, ThreadOK, Finish, Goto, NoLocals, Binding

(* A step to control points where nothing is relied on, but the request.    *)
LEMMA Moved ==
  ASSUME TypeOK, NEW t \in Threads, ThreadOK(t), NEW c \in Labels, Goto(t, c),
         \/ c \in {"StartTLS", "OpenRootDSE", "RootDSE", "Dispatch"}
         \/ c \in {"BindFlush", "BindRootDSE", "BindUser"} /\ loc[t].cmd = "login"
  PROVE  /\ ThreadOK(t)'
         /\ pc'[t] = c
         /\ \A v \in Threads \ {t} : pc'[v] = pc[v] /\ loc'[v] = loc[v]
BY DEF TypeOK, ThreadOK, Goto, Binding

(* The plain steps keep the invariant. *)
LEMMA PlainIdentity ==
  ASSUME TypeOK, IdentityInv, NEW t \in Threads, Plain(t)
  PROVE  IdentityInv'
<1>1. ThreadOK(t) /\ ~Binding(t)
  BY DEF IdentityInv, Plain, BindReconnect, BindName, BindRootDSE, OpenRootDSE, RootDSE,
         Reconnect, InitRootDSE, At, Binding
<1>2. LinkKept /\ UNCHANGED <<up, password, l, who, last>>
  BY PlainStep DEF outside
<1>3. ASSUME ThreadOK(t)', pc'[t] \in OpenLabels => pc[t] \in OpenLabels,
             \A v \in Threads \ {t} : pc'[v] = pc[v] /\ loc'[v] = loc[v]
      PROVE  IdentityInv'
  BY <1>1, <1>2, <1>3, KeptInv DEF Kept
<1>4. CASE Finish(t) \/ Goto(t, "Unbind")
  BY <1>1, <1>3, <1>4, Ended
<1>5. ASSUME NEW c \in Labels, Goto(t, c),
             \/ c \in {"StartTLS", "OpenRootDSE", "RootDSE", "Dispatch"}
             \/ c \in {"BindFlush", "BindRootDSE", "BindUser"} /\ loc[t].cmd = "login",
             c \notin OpenLabels
      PROVE  IdentityInv'
  BY <1>1, <1>3, <1>5, Moved
<1>6. ASSUME NEW from, NEW to \in Labels, InitRootDSE(t, from, to)
      PROVE  Goto(t, to) \/ Goto(t, "Unbind") \/ Finish(t)
  BY <1>6, Raised DEF InitRootDSE
<1>7. CASE BindRootDSE(t)
  <2>1. loc[t].cmd = "login"
    BY <1>1, <1>7 DEF ThreadOK, BindRootDSE, InitRootDSE, At
  <2>2. Goto(t, "BindUser") \/ Goto(t, "Unbind") \/ Finish(t)
    BY <1>6, <1>7 DEF BindRootDSE
  <2>3. QED BY <1>4, <1>5, <2>1, <2>2
<1>8. CASE OpenRootDSE(t)
  <2>1. \/ Goto(t, "BindFlush") /\ loc[t].cmd = "login"
        \/ Goto(t, "RootDSE") \/ Goto(t, "Unbind") \/ Finish(t)
    BY <1>6, <1>8 DEF OpenRootDSE
  <2>2. QED BY <1>4, <1>5, <2>1
<1>9. CASE RootDSE(t)
  <2>1. Goto(t, "Dispatch") \/ Goto(t, "Unbind") \/ Finish(t)
    BY <1>6, <1>9 DEF RootDSE
  <2>2. QED BY <1>4, <1>5, <2>1
<1>10. CASE Reconnect(t)
  <2>1. Goto(t, "Dispatch") \/ Goto(t, "Unbind") \/ Finish(t)
    BY <1>10, Raised DEF Reconnect
  <2>2. QED BY <1>4, <1>5, <2>1
<1>11. CASE BindReconnect(t)
  <2>1. CASE Goto(t, "BindName") /\ Connects(last)
    <3>1. last = NoBind /\ loc[t].cmd = "login" /\ t \in Loggers
      BY <1>1, <1>11 DEF ThreadOK, BindReconnect, At
    <3>2. link'.as = NoUser
      BY <2>1, <3>1 DEF Connects, Connection, NoBind
    <3>3. ThreadOK(t)'
      BY <1>1, <1>2, <2>1, <3>1, <3>2 DEF ThreadOK, Goto, Binding, TypeOK
    <3>4. QED BY <1>3, <2>1, <3>3 DEF Goto, TypeOK
  <2>2. (Goto(t, "BindName") /\ Connects(last)) \/ Goto(t, "Unbind") \/ Finish(t)
    BY <1>11, Raised DEF BindReconnect
  <2>3. QED BY <1>4, <2>1, <2>2
<1>12. CASE BindName(t)
  <2>1. CASE Goto(t, "BindSend")
    <3>1. /\ last = NoBind /\ loc[t].cmd = "login" /\ t \in Loggers
          /\ link.on => link.as = NoUser
      BY <1>1, <1>12 DEF ThreadOK, BindName, At
    <3>2. link'.on => link'.as = NoUser
      BY <1>2, <3>1 DEF LinkKept, Connection, NoBind, TypeOK
    <3>3. ThreadOK(t)'
      BY <1>1, <1>2, <2>1, <3>1, <3>2 DEF ThreadOK, Goto, Binding, TypeOK
    <3>4. QED BY <1>3, <2>1, <3>3 DEF Goto, TypeOK
  <2>2. Goto(t, "BindSend") \/ Goto(t, "Unbind") \/ Finish(t)
    BY <1>12, Raised DEF BindName
  <2>3. QED BY <1>4, <2>1, <2>2
<1>13. QED BY <1>7, <1>8, <1>9, <1>10, <1>11, <1>12 DEF Plain

-----------------------------------------------------------------------------
(* Identity: steps that change it.                                          *)

(* With one logger the other threads rely on nothing while it logs in.      *)
LEMMA Alone ==
  ASSUME OneLogger, IdentityInv, NEW t \in Threads, loc[t].cmd # "use",
         NEW v \in Threads, v # t
  PROVE  pc[v] \notin BindLabels /\ pc[v] # "PwReconnect"
BY DEF OneLogger, IdentityInv, ThreadOK

(* Nor does one in open() share the object with another.                    *)
LEMMA Opening ==
  ASSUME IdentityInv, NEW t \in Threads, pc[t] \in OpenLabels, NEW v \in Threads, v # t
  PROVE  pc[v] # "Connect"
BY DEF IdentityInv, OneOpen

(* What happens outside keeps the invariant: passwords only get newer. *)
LEMMA EnvironmentIdentity ==
  ASSUME TypeOK, TypeOK', IdentityInv, Environment
  PROVE  IdentityInv'
<1>1. CASE ServerStops \/ ConnectionLost \/ ServerStarts
  <2>1. UNCHANGED <<password, l, uri, who, last, pc, loc>>
    BY <1>1 DEF ServerStops, ConnectionLost, ServerStarts, object
  <2>2. /\ link'.on => link' = link
        /\ link'.on => (up => up')
    BY <1>1 DEF ServerStops, ConnectionLost, ServerStarts, object, TypeOK
  <2>3. (Rejected(last)' <=> Rejected(last)) /\ \A u : Known(u) => Known(u)'
    BY <2>1 DEF Rejected, Known, Binding
  <2>4. ObjectOK'
    BY <2>1, <2>2, <2>3 DEF IdentityInv, ObjectOK, Known
  <2>5. ASSUME NEW v \in Threads PROVE ThreadOK(v)'
    BY <2>1, <2>2, <2>3 DEF IdentityInv, ThreadOK, Binding
  <2>6. QED BY <2>1, <2>4, <2>5 DEF IdentityInv, OneOpen
<1>2. ASSUME NEW u \in Users, PasswordChanged(u) PROVE IdentityInv'
  <2>1. UNCHANGED <<up, l, uri, who, last, link, pc, loc>>
    BY <1>2 DEF PasswordChanged, object
  <2>2. /\ \A v \in Users : password'[v] \in Nat /\ password[v] \in Nat /\ password'[v] >= password[v]
        /\ last \in Binds
    BY <1>2 DEF PasswordChanged, TypeOK, Binds
  <2>3. last.who # NoUser => last.password <= password'[last.who]
    BY <2>2 DEF IdentityInv, ObjectOK, Binds, Anyone
  <2>4. (Rejected(last) => Rejected(last)') /\ \A w : Known(w) => Known(w)'
    BY <2>1, <2>2 DEF IdentityInv, ObjectOK, Rejected, Known, Binding, Binds, Anyone
  <2>5. ObjectOK'
    BY <2>1, <2>3, <2>4 DEF IdentityInv, ObjectOK, Known
  <2>6. ASSUME NEW v \in Threads PROVE ThreadOK(v)'
    BY <2>1, <2>4 DEF IdentityInv, ThreadOK, Binding
  <2>7. QED BY <2>1, <2>5, <2>6 DEF IdentityInv, OneOpen
<1>3. QED BY <1>1, <1>2 DEF Environment

(* A new request keeps the invariant; open() begins with a new object. *)
LEMMA RequestsIdentity ==
  ASSUME TypeOK, TypeOK', IdentityInv, NEW t \in Threads, Requests(t)
  PROVE  IdentityInv'
<1>1. ASSUME NEW c \in {"BindFlush", "RootDSE", "Unbind"}, NEW cmd \in Commands, NEW login, NEW s,
             cmd # "use" => t \in Loggers, c = "BindFlush" => cmd = "login",
             Request(t, c, cmd, login, s), UNCHANGED <<outside, object>>
      PROVE  IdentityInv'
  <2>1. /\ pc[t] = "Idle" /\ pc'[t] = c /\ loc'[t].cmd = cmd
        /\ \A v \in Threads \ {t} : pc'[v] = pc[v] /\ loc'[v] = loc[v]
    BY <1>1 DEF Request, At, TypeOK, NoLocals
  <2>2. Kept(t)
    BY <1>1, <2>1 DEF Kept, LinkKept, Binding, outside, object
  <2>3. ThreadOK(t)'
    BY <1>1, <2>1 DEF ThreadOK, Binding
  <2>4. QED BY <1>1, <2>1, <2>2, <2>3, KeptInv
<1>2. ASSUME NEW cmd \in Commands, NEW login, NEW s,
             cmd # "use" => t \in Loggers, Open(t, cmd, login, s)
      PROVE  IdentityInv'
  <2>1. /\ pc'[t] = "Connect" /\ loc'[t].cmd = cmd
        /\ \A v \in Threads \ {t} : pc'[v] = "Idle" /\ loc'[v] = loc[v]
        /\ l' = "None" /\ last' = NoBind /\ ~link'.on
    BY <1>2 DEF Open, Request, At, TypeOK, NoLocals, NoLink
  <2>2. ObjectOK'
    BY <2>1 DEF ObjectOK, NoBind
  <2>3. ASSUME NEW v \in Threads PROVE ThreadOK(v)'
    BY <1>2, <2>1 DEF ThreadOK, Binding, IdentityInv
  <2>4. OneOpen'
    BY <2>1 DEF OneOpen
  <2>5. QED BY <2>2, <2>3, <2>4 DEF IdentityInv
<1>3. CASE t \in Loggers /\ \E login \in Logins : Login(t, login)
  BY <1>1, <1>3 DEF Login, Commands
<1>4. CASE t \in Loggers /\ \E u \in Users : Passwd(t, u)
  BY <1>1, <1>4 DEF Passwd, Commands
<1>5. CASE Use(t) \/ Disconnect(t)
  BY <1>1, <1>5 DEF Use, Disconnect, Commands
<1>6. CASE \/ \E s \in StartTLS : Open(t, "use", NoLogin, s)
           \/ t \in Loggers /\ \E login \in Logins, s \in StartTLS : Open(t, "login", login, s)
  BY <1>2, <1>6 DEF Commands
<1>7. QED BY <1>3, <1>4, <1>5, <1>6 DEF Requests

(* open() binds nobody. *)
LEMMA OpenIdentity ==
  ASSUME TypeOK, TypeOK', IdentityInv, NEW t \in Threads, Connect(t) \/ DoStartTLS(t)
  PROVE  IdentityInv'
<1>1. ThreadOK(t) /\ pc[t] \in OpenLabels /\ UNCHANGED <<up, password, who, last>>
  BY DEF IdentityInv, Connect, DoStartTLS, At, outside
<1>2. ASSUME Kept(t), Finish(t) \/ Goto(t, "Unbind") \/ Goto(t, "StartTLS") \/ Goto(t, "OpenRootDSE")
      PROVE  IdentityInv'
  BY <1>1, <1>2, Ended, Moved, KeptInv
<1>3. ASSUME Finish(t) \/ Goto(t, "Unbind") \/ Goto(t, "StartTLS") \/ Goto(t, "OpenRootDSE"),
             LinkKept, UNCHANGED l
      PROVE  Kept(t)
  BY <1>1, <1>3, Ended, Moved DEF Kept, Binding
<1>4. CASE Connect(t)
  <2>1. last = NoBind /\ l = "None" /\ link' = link
    BY <1>1, <1>4 DEF Connect, ThreadOK, At
  <2>2. CASE l' = l
    BY <1>2, <1>3, <1>4, <2>1, <2>2 DEF Connect, Raise, RaiseDown, LinkKept
  <2>3. CASE l' = "open" /\ Goto(t, "StartTLS")
    <3>1. ObjectOK'
      BY <1>1, <2>1, <2>3 DEF IdentityInv, ObjectOK, Known, NoBind
    <3>2. /\ ThreadOK(t)' /\ pc'[t] = "StartTLS"
          /\ \A v \in Threads \ {t} : pc'[v] = pc[v] /\ loc'[v] = loc[v]
      BY <1>1, <2>3, Moved
    <3>3. ASSUME NEW v \in Threads, v # t PROVE ThreadOK(v)'
      <4>1. ThreadOK(v) /\ ~Binding(v) /\ pc[v] # "Connect"
        BY <1>1, <2>1, <3>3, Opening DEF IdentityInv, ThreadOK
      <4>2. QED BY <1>1, <2>1, <3>2, <3>3, <4>1 DEF ThreadOK, Binding
    <3>4. QED BY <1>1, <3>1, <3>2, <3>3 DEF IdentityInv, OneOpen
  <2>4. QED BY <1>4, <2>2, <2>3 DEF Connect
<1>5. CASE DoStartTLS(t)
  <2>1. CASE l' = "deleted" /\ link' = NoLink /\ (Raise(t) \/ RaiseDown(t))
    <3>1. /\ ThreadOK(t)' /\ pc'[t] \notin OpenLabels
          /\ \A v \in Threads \ {t} : pc'[v] = pc[v] /\ loc'[v] = loc[v]
      BY <1>1, <2>1, Ended DEF Raise, RaiseDown
    <3>2. ObjectOK'
      BY <1>1, <2>1 DEF IdentityInv, ObjectOK, NoLink
    <3>3. ASSUME NEW v \in Threads, v # t PROVE ThreadOK(v)'
      <4>1. ThreadOK(v) /\ pc[v] # "Connect"
        BY <1>1, <3>3, Opening DEF IdentityInv
      <4>2. QED BY <1>1, <2>1, <3>1, <3>3, <4>1 DEF ThreadOK, Binding, NoLink
    <3>4. QED BY <3>1, <3>2, <3>3 DEF IdentityInv, OneOpen
  <2>2. \/ l' = "deleted" /\ link' = NoLink /\ (Raise(t) \/ RaiseDown(t))
        \/ /\ UNCHANGED l
           /\ UNCHANGED link \/ Works \/ Refused(t) \/ Down
           /\ Goto(t, "OpenRootDSE") \/ Refused(t)
    BY <1>5 DEF DoStartTLS
  <2>3. \/ l' = "deleted" /\ link' = NoLink /\ (Raise(t) \/ RaiseDown(t))
        \/ /\ UNCHANGED l
           /\ LinkKept
           /\ Goto(t, "OpenRootDSE") \/ Goto(t, "Unbind") \/ Finish(t)
    BY <2>2, Reached, Raised DEF LinkKept
  <2>4. QED BY <1>2, <1>3, <2>1, <2>3
<1>6. QED BY <1>4, <1>5

(* bind() up to its request. *)
LEMMA FlushIdentity ==
  ASSUME OneLogger, TypeOK, TypeOK', IdentityInv, NEW t \in Threads, BindFlush(t)
  PROVE  IdentityInv'
<1>1. /\ ThreadOK(t) /\ loc[t].cmd = "login" /\ t \in Loggers /\ ~Binding(t)
      /\ UNCHANGED <<up, password, l, who, link>>
  BY DEF IdentityInv, ThreadOK, BindFlush, At, Binding, outside
<1>2. CASE Raise(t) /\ UNCHANGED last
  BY <1>1, <1>2, Ended, KeptInv DEF Raise, Kept, LinkKept
<1>3. CASE l = "open" /\ last' = NoBind /\ Goto(t, "BindReconnect")
  <2>1. /\ pc'[t] = "BindReconnect" /\ loc' = loc
        /\ \A v \in Threads \ {t} : pc'[v] = pc[v]
    BY <1>3 DEF Goto, TypeOK
  <2>2. ASSUME NEW u, Known(u) PROVE Known(u)'
    BY <1>1, <2>1, <2>2 DEF Known, Binding
  <2>3. ObjectOK'
    BY <1>1, <1>3, <2>2 DEF IdentityInv, ObjectOK, Known, NoBind
  <2>4. ThreadOK(t)'
    BY <1>1, <1>3, <2>1 DEF ThreadOK, Binding
  <2>5. ASSUME NEW v \in Threads, v # t PROVE ThreadOK(v)'
    BY <1>1, <1>3, <2>1, <2>5, Alone DEF IdentityInv, ThreadOK, Binding
  <2>6. QED BY <2>1, <2>3, <2>4, <2>5 DEF IdentityInv, OneOpen
<1>4. QED BY <1>2, <1>3 DEF BindFlush

(* The bind request: from here on the connection is the new user's. *)
LEMMA SendIdentity ==
  ASSUME OneLogger, TypeOK, TypeOK', IdentityInv, NEW t \in Threads, BindSend(t)
  PROVE  IdentityInv'
<1>1. /\ ThreadOK(t) /\ loc[t].cmd = "login" /\ t \in Loggers /\ ~Binding(t) /\ last = NoBind
      /\ link.on => link.as = NoUser
      /\ pc[t] \notin OpenLabels
      /\ UNCHANGED <<up, password, l>>
  BY DEF IdentityInv, ThreadOK, BindSend, At, Binding, outside
<1>2. \A v \in Threads \ {t} : ThreadOK(v) /\ pc[v] \notin BindLabels /\ pc[v] # "PwReconnect"
  BY <1>1, Alone DEF IdentityInv
<1>3. Connection(last).as = NoUser
  BY <1>1 DEF Connection, NoBind
<1>4. ASSUME UNCHANGED last, Finish(t) \/ Goto(t, "Unbind"),
             link'.on => up /\ l = "open" /\ link'.as = NoUser
      PROVE  IdentityInv'
  <2>1. /\ ThreadOK(t)' /\ pc'[t] \notin OpenLabels
        /\ \A v \in Threads \ {t} : pc'[v] = pc[v] /\ loc'[v] = loc[v]
    <3>1. pc'[t] \in {"Idle", "Unbind"} /\ loc'[t].cmd # "use" => t \in Loggers
      BY <1>1, <1>4 DEF Finish, Goto, TypeOK
    <3>2. QED BY <1>1, <1>4, Ended
  <2>2. ObjectOK'
    BY <1>1, <1>4 DEF ObjectOK, Known, NoBind
  <2>3. ASSUME NEW v \in Threads, v # t PROVE ThreadOK(v)'
    BY <1>1, <1>2, <1>4, <2>1, <2>3 DEF ThreadOK, Binding
  <2>4. QED BY <2>1, <2>2, <2>3 DEF IdentityInv, OneOpen
<1>5. CASE Fails(t) /\ UNCHANGED last
  <2>1. LinkKept /\ (Finish(t) \/ Goto(t, "Unbind"))
    BY <1>5, Reached, Raised
  <2>2. link'.on => up /\ l = "open" /\ link'.as = NoUser
    BY <1>1, <1>3, <2>1 DEF LinkKept, IdentityInv, ObjectOK, TypeOK
  <2>3. QED BY <1>4, <1>5, <2>1, <2>2
<1>6. CASE /\ l = "open" /\ up /\ link' = [on |-> TRUE, as |-> NoUser]
           /\ Raise(t) /\ UNCHANGED last
  BY <1>4, <1>6 DEF Raise
<1>7. CASE /\ l = "open" /\ up /\ Goto(t, "BindWhoami")
           /\ link' = [on |-> TRUE, as |-> loc[t].login.who]
           /\ last' = [who |-> loc[t].login.who,
                       password |-> IF loc[t].login.who = NoUser THEN 0
                                    ELSE password[loc[t].login.who]]
  <2>1. /\ pc'[t] = "BindWhoami" /\ loc' = loc
        /\ \A v \in Threads \ {t} : pc'[v] = pc[v]
    BY <1>7 DEF Goto, TypeOK
  <2>2. Known(loc[t].login.who)'
    BY <2>1 DEF Known, Binding
  <2>3. last'.who # NoUser => password'[last'.who] \in Nat /\ last'.password = password'[last'.who]
    BY <1>1, <1>7 DEF TypeOK, Anyone
  <2>4. last'.who # NoUser => last'.password <= password'[last'.who]
    BY <2>3
  <2>5. ObjectOK'
    <3>1. link'.as = loc'[t].login.who /\ last'.who = loc'[t].login.who /\ up' /\ l' = "open"
      BY <1>1, <1>7, <2>1
    <3>2. Known(link.as)' /\ Known(last.who)'
      BY <2>2, <3>1 DEF Known
    <3>3. QED BY <2>4, <3>1, <3>2 DEF ObjectOK
  <2>6. ThreadOK(t)'
    BY <1>1, <1>7, <2>1 DEF ThreadOK, Binding
  <2>7. ASSUME NEW v \in Threads, v # t PROVE ThreadOK(v)'
    BY <1>1, <1>2, <1>7, <2>1, <2>7 DEF ThreadOK, Binding
  <2>8. QED BY <2>1, <2>5, <2>6, <2>7 DEF IdentityInv, OneOpen
<1>8. link.on => up
  BY DEF IdentityInv, ObjectOK
<1>9. QED BY <1>5, <1>6, <1>7, <1>8 DEF BindSend

(* bind() from the answer to its request on. *)
LEMMA AnswerIdentity ==
  ASSUME OneLogger, TypeOK, TypeOK', IdentityInv, NEW t \in Threads,
         BindWhoami(t) \/ BindWho(t) \/ BindUser(t)
  PROVE  IdentityInv'
<1>1. /\ ThreadOK(t) /\ loc[t].cmd = "login" /\ t \in Loggers
      /\ pc[t] \notin OpenLabels
      /\ UNCHANGED <<up, password, l, last>>
  BY DEF IdentityInv, ThreadOK, BindWhoami, BindWho, BindUser, At, outside
<1>2. \A v \in Threads \ {t} : ThreadOK(v) /\ pc[v] \notin BindLabels /\ pc[v] # "PwReconnect"
  BY <1>1, Alone DEF IdentityInv
<1>3. Rejected(last)' <=> Rejected(last)
  BY <1>1, RejectedKept
<1>4. CASE BindWhoami(t)
  <2>1. LinkKept /\ UNCHANGED who /\ pc[t] = "BindWhoami"
    BY <1>4, Reached DEF BindWhoami, At
  <2>2. CASE Gone /\ Raise(t)
    BY <1>1, <2>1, <2>2, Ended, KeptInv DEF Raise, Kept, Gone
  <2>3. CASE /\ Tried
             /\ pc' = [pc EXCEPT ![t] = "BindWho"]
             /\ \E u \in {loc[t].login.who} \union (IF Works THEN {link'.as} ELSE {}) :
                  loc' = [loc EXCEPT ![t].whoami = u]
    <3>1. /\ pc'[t] = "BindWho" /\ loc'[t].login = loc[t].login /\ loc'[t].cmd = loc[t].cmd
          /\ \A v \in Threads \ {t} : pc'[v] = pc[v] /\ loc'[v] = loc[v]
      BY <2>3 DEF TypeOK, Locals
    <3>2. loc'[t].whoami # loc[t].login.who => Works /\ loc'[t].whoami = link'.as
      BY <2>3 DEF TypeOK, Locals
    <3>3. Kept(t)
      BY <1>1, <2>1, <3>1 DEF Kept, Binding
    <3>4. Works => l = "open" /\ link'.on
      BY DEF Works, Connects, Connection, TypeOK
    <3>5. link'.on /\ l = "open"
            => link'.as = loc[t].login.who \/ (Rejected(last) /\ link'.as = NoUser)
      <4>1. l = "open" => last.who = loc[t].login.who
        BY <1>1, <2>1 DEF ThreadOK, Binding
      <4>2. Connection(last).as = last.who \/ (Rejected(last) /\ Connection(last).as = NoUser)
        BY DEF Connection
      <4>3. QED BY <1>1, <2>1, <4>1, <4>2 DEF ThreadOK, Binding, LinkKept, TypeOK
    <3>6. ThreadOK(t)'
      BY <1>1, <1>3, <2>1, <3>1, <3>2, <3>4, <3>5 DEF ThreadOK, Binding, IdentityInv, ObjectOK, LinkKept, TypeOK
    <3>7. QED BY <3>1, <3>3, <3>6, KeptInv
  <2>4. QED BY <1>4, <2>2, <2>3 DEF BindWhoami
<1>5. CASE BindWho(t)
  <2>1. /\ pc[t] = "BindWho" /\ who' = loc[t].whoami /\ link' = link
        /\ pc'[t] = "BindRootDSE" /\ loc' = loc
        /\ \A v \in Threads \ {t} : pc'[v] = pc[v]
    BY <1>5 DEF BindWho, At, Goto, TypeOK
  <2>2. (link.on => link.as \in {NoUser, who})'
    BY <1>1, <2>1 DEF ThreadOK, Binding
  <2>3. (l = "open" => Rejected(last) \/ last.who = who)'
    BY <1>1, <1>3, <2>1 DEF ThreadOK, Binding
  <2>4. ObjectOK'
    BY <1>1, <2>1, <2>2, <2>3 DEF IdentityInv, ObjectOK, Known
  <2>5. ThreadOK(t)'
    BY <1>1, <2>1 DEF ThreadOK, Binding
  <2>6. ASSUME NEW v \in Threads, v # t PROVE ThreadOK(v)'
    BY <1>1, <1>2, <2>1, <2>6 DEF ThreadOK, Binding
  <2>7. QED BY <2>1, <2>4, <2>5, <2>6 DEF IdentityInv, OneOpen
<1>6. CASE BindUser(t)
  <2>1. /\ LinkKept /\ ~Binding(t)
        /\ Finish(t) \/ Goto(t, "Dispatch")
        /\ who' = who \/ who = NoUser
    BY <1>6, Reached DEF BindUser, At, Binding, Raise
  <2>2. CASE who' = who
    BY <1>1, <2>1, <2>2, Ended, Moved, KeptInv DEF Kept
  <2>3. CASE who = NoUser
    <3>1. /\ ThreadOK(t)' /\ pc'[t] \notin OpenLabels
          /\ \A v \in Threads \ {t} : pc'[v] = pc[v] /\ loc'[v] = loc[v]
      BY <1>1, <2>1, Ended, Moved
    <3>2. ASSUME NEW u, Known(u) PROVE Known(u)'
      BY <1>2, <2>1, <2>3, <3>2 DEF Known, Binding
    <3>3. /\ link'.on => up /\ l = "open"
          /\ link'.on => Known(link'.as)
      BY <2>1, Repeated DEF IdentityInv, ObjectOK, LinkKept, TypeOK, Known
    <3>4. ObjectOK'
      BY <1>1, <1>3, <3>2, <3>3 DEF IdentityInv, ObjectOK, Known
    <3>5. ASSUME NEW v \in Threads, v # t PROVE ThreadOK(v)'
      BY <1>1, <1>2, <3>1, <3>5 DEF ThreadOK, Binding
    <3>6. QED BY <3>1, <3>4, <3>5 DEF IdentityInv, OneOpen
  <2>4. QED BY <2>1, <2>2, <2>3
<1>7. QED BY <1>4, <1>5, <1>6

(* The command; a change of the password leaves an outdated one in last.    *)
LEMMA DispatchIdentity ==
  ASSUME TypeOK, TypeOK', IdentityInv, NEW t \in Threads, Dispatch(t)
  PROVE  IdentityInv'
<1>1. /\ ThreadOK(t) /\ ~Binding(t) /\ pc[t] \notin OpenLabels
      /\ UNCHANGED <<up, l, who, last>>
  BY DEF IdentityInv, Dispatch, At, Binding
<1>2. \/ Works /\ Finish(t)
      \/ Works /\ Goto(t, "PwReconnect") /\ loc[t].cmd = "passwd"
      \/ (Gone \/ Expelled(last)) /\ Finish(t)
      \/ DownInDispatch(t)
  BY DEF Dispatch, Raise
<1>3. LinkKept
  BY <1>2, Reached DEF DownInDispatch, Expelled, LinkKept
<1>4. /\ ThreadOK(t)' /\ pc'[t] \notin OpenLabels
      /\ \A v \in Threads \ {t} : pc'[v] = pc[v] /\ loc'[v] = loc[v]
  <2>1. CASE Finish(t)
    BY <1>1, <2>1, Ended
  <2>2. CASE Goto(t, "PwReconnect") /\ loc[t].cmd = "passwd"
    BY <1>1, <2>2 DEF ThreadOK, Goto, Binding, TypeOK
  <2>3. CASE DownInDispatch(t)
    <3>1. /\ pc'[t] \in {"Unbind", "Reconnect"} /\ loc'[t].cmd = loc[t].cmd
          /\ \A v \in Threads \ {t} : pc'[v] = pc[v] /\ loc'[v] = loc[v]
      BY <2>3 DEF DownInDispatch, TypeOK, Locals
    <3>2. QED BY <1>1, <3>1 DEF ThreadOK, Binding
  <2>4. QED BY <1>2, <2>1, <2>2, <2>3
<1>5. CASE password' = password
  BY <1>1, <1>3, <1>4, <1>5, KeptInv DEF Kept
<1>6. CASE password' = [password EXCEPT ![loc[t].login.who] = @ + 1]
  <2>1. /\ \A u \in Users : password'[u] \in Nat /\ password[u] \in Nat /\ password'[u] >= password[u]
        /\ last \in Binds
    BY <1>6 DEF TypeOK, Binds
  <2>2. last.who # NoUser => last.password <= password'[last.who]
    BY <2>1 DEF IdentityInv, ObjectOK, Binds, Anyone
  <2>3. Rejected(last) => Rejected(last)'
    BY <1>1, <2>1 DEF IdentityInv, ObjectOK, Rejected, Binds, Anyone
  <2>4. ASSUME NEW u, Known(u) PROVE Known(u)'
    BY <1>1, <1>4, <2>4 DEF Known, Binding
  <2>5. link'.on => up /\ l = "open" /\ Known(link'.as)
    BY <1>3, Repeated DEF IdentityInv, ObjectOK, LinkKept, TypeOK, Known
  <2>6. ObjectOK'
    <3>1. (link.on => up /\ l = "open" /\ Known(link.as))'
      BY <1>1, <2>4, <2>5 DEF Known
    <3>2. (l = "open" => Rejected(last) \/ Known(last.who))'
      BY <1>1, <2>3, <2>4 DEF IdentityInv, ObjectOK, Known
    <3>3. QED BY <1>1, <2>2, <3>1, <3>2 DEF ObjectOK
  <2>7. ASSUME NEW v \in Threads, v # t PROVE ThreadOK(v)'
    <3>1. ThreadOK(v) /\ pc'[v] = pc[v] /\ loc'[v] = loc[v]
      BY <1>4, <2>7 DEF IdentityInv
    <3>2. (last = NoBind => Connection(last).as = NoUser)
          /\ (Connection(last).as = last.who \/ (Rejected(last) /\ Connection(last).as = NoUser))
          /\ (Rejected(last) => Connection(last).as = NoUser)
      BY DEF NoBind, Connection
    <3>3. (pc[v] \in {"BindName", "BindSend"} => (link.on => link.as = NoUser))'
      BY <1>1, <1>3, <3>1, <3>2 DEF ThreadOK, LinkKept, TypeOK
    <3>4. (Binding(v) /\ link.on => link.as = loc[v].login.who \/ (Rejected(last) /\ link.as = NoUser))'
      BY <1>1, <1>3, <2>3, <3>1, <3>2 DEF ThreadOK, LinkKept, TypeOK, Binding
    <3>5. (pc[v] = "BindWho" /\ loc[v].whoami # loc[v].login.who
             => /\ loc[v].whoami = NoUser
                /\ l = "open" => Rejected(last)
                /\ link.on => link.as = NoUser)'
      BY <1>1, <1>3, <2>3, <3>1, <3>2 DEF ThreadOK, LinkKept, TypeOK
    <3>6. QED BY <1>1, <3>1, <3>3, <3>4, <3>5 DEF ThreadOK, Binding
  <2>8. QED BY <1>4, <2>6, <2>7 DEF IdentityInv, OneOpen
<1>7. QED BY <1>5, <1>6 DEF Dispatch

(* The anonymous reconnect of passwd, and unbind().                         *)
LEMMA LeaveIdentity ==
  ASSUME OneLogger, TypeOK, TypeOK', IdentityInv, NEW t \in Threads, PwReconnect(t) \/ Unbind(t)
  PROVE  IdentityInv'
<1>1. ThreadOK(t) /\ ~Binding(t) /\ UNCHANGED <<up, password>>
  BY DEF IdentityInv, PwReconnect, Unbind, At, Binding, outside
<1>2. CASE PwReconnect(t)
  <2>1. /\ loc[t].cmd = "passwd" /\ t \in Loggers /\ UNCHANGED l
        /\ \A v \in Threads \ {t} : ThreadOK(v) /\ pc[v] \notin BindLabels /\ pc[v] # "PwReconnect"
    BY <1>1, <1>2, Alone DEF ThreadOK, PwReconnect, At, IdentityInv
  <2>2. CASE Gone /\ Raise(t) /\ UNCHANGED <<who, last>>
    BY <1>1, <2>1, <2>2, Ended, KeptInv DEF Raise, Kept, LinkKept, Gone
  <2>3. CASE l = "open" /\ last' = NoBind /\ (link'.on => up /\ link'.as = NoUser)
             /\ (Finish(t) \/ DownInDispatch(t))
    <3>1. /\ pc'[t] \in {"Idle", "Unbind", "Reconnect"} /\ loc'[t].cmd \in {"use", "passwd"}
          /\ \A v \in Threads \ {t} : pc'[v] = pc[v] /\ loc'[v] = loc[v]
      BY <2>1, <2>3 DEF Finish, DownInDispatch, TypeOK, Locals, NoLocals
    <3>2. ObjectOK'
      BY <1>1, <2>1, <2>3 DEF ObjectOK, Known, NoBind
    <3>3. ThreadOK(t)'
      BY <2>1, <3>1 DEF ThreadOK, Binding
    <3>4. ASSUME NEW v \in Threads, v # t PROVE ThreadOK(v)'
      BY <2>1, <2>3, <3>1, <3>4 DEF ThreadOK, Binding
    <3>5. QED BY <3>1, <3>2, <3>3, <3>4 DEF IdentityInv, OneOpen
  <2>4. Connects(NoBind) => l = "open" /\ up /\ link'.as = NoUser
    BY DEF Connects, Connection, NoBind
  <2>5. DownInDispatch(t) => l = "open" /\ ~up /\ link' = link
    BY DEF DownInDispatch, Down
  <2>6. link.on => up
    BY DEF IdentityInv, ObjectOK
  <2>7. QED BY <1>2, <2>2, <2>3, <2>4, <2>5, <2>6 DEF PwReconnect
<1>3. CASE Unbind(t)
  <2>1. /\ ThreadOK(t)' /\ pc'[t] \notin OpenLabels
        /\ \A v \in Threads \ {t} : pc'[v] = pc[v] /\ loc'[v] = loc[v]
    BY <1>1, <1>3, Ended DEF Unbind
  <2>2. /\ UNCHANGED <<who, last>> /\ ~link'.on
        /\ l' = "open" => l = "open"
        /\ l = "None" <=> l' = "None"
    BY <1>3 DEF Unbind, NoLink
  <2>3. (Rejected(last)' <=> Rejected(last)) /\ \A u : Known(u) => Known(u)'
    BY <1>1, <2>1, <2>2 DEF Rejected, Known, Binding
  <2>4. ObjectOK'
    BY <1>1, <2>2, <2>3 DEF IdentityInv, ObjectOK, Known
  <2>5. ASSUME NEW v \in Threads, v # t PROVE ThreadOK(v)'
    BY <1>1, <2>1, <2>2, <2>3, <2>5 DEF IdentityInv, ThreadOK, Binding
  <2>6. QED BY <2>1, <2>4, <2>5 DEF IdentityInv, OneOpen
<1>4. QED BY <1>2, <1>3

-----------------------------------------------------------------------------
(* The invariant, and the theorem.                                          *)

(* Every step keeps the invariant. *)
LEMMA IdentityStep ==
  ASSUME OneLogger, TypeOK, TypeOK', IdentityInv, [Next]_vars
  PROVE  IdentityInv'
<1>1. CASE Environment
  BY <1>1, EnvironmentIdentity
<1>2. ASSUME NEW t \in Threads, Requests(t) PROVE IdentityInv'
  BY <1>2, RequestsIdentity
<1>3. ASSUME NEW t \in Threads, Step(t) PROVE IdentityInv'
  <2>1. \/ Plain(t)
        \/ Connect(t) \/ DoStartTLS(t)
        \/ BindFlush(t) \/ BindSend(t)
        \/ BindWhoami(t) \/ BindWho(t) \/ BindUser(t)
        \/ Dispatch(t) \/ PwReconnect(t) \/ Unbind(t)
    BY <1>3 DEF Step, Plain
  <2>2. QED BY <2>1, PlainIdentity, OpenIdentity, FlushIdentity, SendIdentity, AnswerIdentity,
               DispatchIdentity, LeaveIdentity
<1>4. CASE UNCHANGED vars
  <2>1. UNCHANGED <<up, password, l, who, last, link, pc, loc>>
    BY <1>4 DEF vars, outside, object
  <2>2. QED BY <2>1 DEF IdentityInv, ObjectOK, OneOpen, ThreadOK, Known, Binding, Rejected
<1>5. QED BY <1>1, <1>2, <1>3, <1>4 DEF Next

(* A session that has not been opened is bound as nobody. *)
LEMMA IdentityInit == Init => IdentityInv
BY DEF Init, IdentityInv, ObjectOK, OneOpen, ThreadOK, Known, Binding, Rejected, NoLink, NoBind,
       NoLocals

(* The invariant holds if one thread at most logs in. *)
LEMMA IdentityInvariance ==
  ASSUME OneLogger
  PROVE  Spec => []IdentityInv
<1>1. OneLogger /\ TypeOK /\ TypeOK' /\ IdentityInv /\ [Next]_vars => IdentityInv'
  BY IdentityStep
<1>2. QED BY <1>1, IdentityInit, TypeCorrect, PTL DEF Spec

(* If no two requests log in or change the password at the same time, a     *)
(* request is sent anonymously, as the user the session is shown to be      *)
(* bound as, or as the one logging in: reconnecting never comes back to an  *)
(* identity that bind() or passwd has left, whatever fails in between and   *)
(* whatever other requests reconnect.                                       *)
THEOREM IdentityCorrect ==
  ASSUME OneLogger
  PROVE  Spec => []NoForgottenIdentity
<1>1. TypeOK /\ IdentityInv => NoForgottenIdentity
  <2> SUFFICES ASSUME TypeOK, IdentityInv PROVE NoForgottenIdentity
    OBVIOUS
  <2>1. \A t \in Threads : Binding(t) => LoggingIn(t)
    BY DEF IdentityInv, ThreadOK, Binding, LoggingIn
  <2>2. QED BY <2>1 DEF IdentityInv, ObjectOK, Known, NoForgottenIdentity
<1>2. QED BY <1>1, TypeCorrect, IdentityInvariance, PTL

-----------------------------------------------------------------------------
(* The login takes effect.  After the bind request last is the user's for   *)
(* as long as the session is open, since no other thread may log in; who is *)
(* the user from BindWho on, unless an answer of nobody came of a bind that *)
(* cannot be repeated any more.                                             *)

Taken(t) ==
  loc[t].cmd = "login" =>
    /\ pc[t] # "RootDSE"
    /\ pc[t] = "Reconnect" => loc[t].again
    /\ (pc[t] \in {"BindWhoami", "BindWho", "BindRootDSE", "BindUser", "Dispatch"}
          /\ ~loc[t].again) => last.who = loc[t].login.who
    /\ (pc[t] \in {"BindRootDSE", "BindUser", "Dispatch"} /\ ~loc[t].again /\ uri)
         => who = loc[t].login.who \/ Rejected(last)

(* A connection object is deleted together with the URI. *)
DeletedOK == l = "deleted" => ~uri

TakenInv == DeletedOK /\ \A t \in Threads : Taken(t)

(* A bind that cannot be repeated never can be again: passwords only get   *)
(* newer.                                                                   *)
LEMMA RejectedForGood ==
  ASSUME TypeOK, TypeOK', ObjectOK, last' = last, \A u \in Users : password[u] <= password'[u],
         Rejected(last)
  PROVE  Rejected(last)'
<1>1. last.who \in Users /\ last.password < password[last.who]
  BY DEF Rejected, ObjectOK, TypeOK, Anyone
<1>2. last.password \in Nat /\ password[last.who] \in Nat /\ password'[last.who] \in Nat
  BY <1>1 DEF TypeOK
<1>3. last.password # password'[last.who]
  BY <1>1, <1>2
<1>4. QED BY <1>1, <1>3, SessionAssumption DEF Rejected

(* What a step of one thread owes to the others. *)
LEMMA TakenKept ==
  ASSUME OneLogger, TypeOK, TypeOK', IdentityInv, TakenInv, NEW t \in Threads,
         \A v \in Threads \ {t} : pc'[v] = pc[v] /\ loc'[v] = loc[v],
         \A u \in Users : password[u] <= password'[u],
         uri' => uri, l' = "deleted" => l = "deleted" \/ ~uri',
         UNCHANGED <<last, who>> \/ loc[t].cmd # "use",
         Taken(t)'
  PROVE  TakenInv'
<1>1. ASSUME NEW v \in Threads \ {t} PROVE Taken(v)'
  <2>1. CASE loc[v].cmd = "use"
    BY <2>1 DEF Taken
  <2>2. CASE loc[v].cmd # "use"
    <3>1. loc[t].cmd = "use"
      BY <2>2 DEF OneLogger, IdentityInv, ThreadOK
    <3>2. UNCHANGED <<last, who>>
      BY <3>1
    <3>3. Rejected(last) => Rejected(last)'
      BY <3>2, RejectedForGood DEF IdentityInv
    <3>4. QED BY <3>2, <3>3 DEF TakenInv, Taken
  <2>3. QED BY <2>1, <2>2
<1>2. DeletedOK'
  BY DEF TakenInv, DeletedOK
<1>3. QED BY <1>1, <1>2 DEF TakenInv

(* Points where a login relies on nothing. *)
LEMMA TakenNothing ==
  ASSUME TypeOK, NEW t \in Threads,
         \/ Finish(t)
         \/ \E c \in Labels \ {"BindWhoami", "BindWho", "BindRootDSE", "BindUser", "Dispatch",
                               "RootDSE", "Reconnect"} : Goto(t, c)
  PROVE  /\ Taken(t)'
         /\ \A v \in Threads \ {t} : pc'[v] = pc[v] /\ loc'[v] = loc[v]
BY DEF TypeOK, Taken, Finish, Goto, NoLocals

(* What happens outside. *)
LEMMA TakenOutside ==
  ASSUME TypeOK, TypeOK', IdentityInv, TakenInv, Environment
  PROVE  TakenInv'
<1>1. UNCHANGED <<l, uri, who, last, pc, loc>>
  BY DEF Environment, ServerStops, ServerStarts, ConnectionLost, PasswordChanged, object
<1>2. \A u \in Users : password[u] <= password'[u]
  BY DEF Environment, ServerStops, ServerStarts, ConnectionLost, PasswordChanged, TypeOK
<1>3. Rejected(last) => Rejected(last)'
  BY <1>1, <1>2, RejectedForGood DEF IdentityInv
<1>4. QED BY <1>1, <1>3 DEF TakenInv, DeletedOK, Taken

(* New requests. *)
LEMMA TakenRequests ==
  ASSUME OneLogger, TypeOK, TypeOK', IdentityInv, TakenInv, NEW t \in Threads, Requests(t)
  PROVE  TakenInv'
<1>1. ASSUME NEW c, NEW cmd, NEW login, NEW s, Request(t, c, cmd, login, s),
             cmd = "login" => c \in {"Connect", "BindFlush"}
      PROVE  /\ Taken(t)'
             /\ \A v \in Threads \ {t} : pc'[v] = pc[v] /\ loc'[v] = loc[v]
  BY <1>1 DEF Request, TypeOK, Taken, NoLocals
<1>2. ASSUME NEW cmd \in {"use", "login"}, NEW login, NEW s, Open(t, cmd, login, s)
      PROVE  TakenInv'
  <2>1. Taken(t)' /\ \A v \in Threads \ {t} : pc'[v] = pc[v] /\ loc'[v] = loc[v]
    BY <1>1, <1>2 DEF Open
  <2>2. \A v \in Threads \ {t} : pc[v] = "Idle"
    BY <1>2 DEF Open, At
  <2>3. \A v \in Threads \ {t} : Taken(v)'
    BY <2>1, <2>2 DEF Taken
  <2>4. l' = "None"
    BY <1>2 DEF Open
  <2>5. QED BY <2>1, <2>3, <2>4 DEF TakenInv, DeletedOK
<1>3. CASE \/ Use(t) \/ Disconnect(t) \/ \E login \in Logins : Login(t, login)
           \/ \E u \in Users : Passwd(t, u)
  <2>1. Taken(t)' /\ \A v \in Threads \ {t} : pc'[v] = pc[v] /\ loc'[v] = loc[v]
    <3>1. CASE Use(t)
      BY <1>1, <3>1 DEF Use
    <3>2. CASE Disconnect(t)
      BY <1>1, <3>2 DEF Disconnect
    <3>3. CASE \E login \in Logins : Login(t, login)
      BY <1>1, <3>3 DEF Login
    <3>4. CASE \E u \in Users : Passwd(t, u)
      BY <1>1, <3>4 DEF Passwd
    <3>5. QED BY <1>3, <3>1, <3>2, <3>3, <3>4
  <2>2. UNCHANGED <<password, l, uri, who, last>>
    BY <1>3 DEF Use, Disconnect, Login, Passwd, outside, object
  <2>3. \A u \in Users : password[u] <= password'[u]
    BY <2>2 DEF TypeOK
  <2>4. QED BY <2>1, <2>2, <2>3, TakenKept
<1>4. QED BY <1>2, <1>3 DEF Requests

(* The steps that change nothing of the object but its connection. *)
LEMMA TakenPlain ==
  ASSUME OneLogger, TypeOK, TypeOK', IdentityInv, TakenInv, NEW t \in Threads, Plain(t)
  PROVE  TakenInv'
<1>1. UNCHANGED <<password, l, uri, who, last>>
  BY PlainStep DEF outside
<1>2. \A u \in Users : password[u] <= password'[u]
  BY <1>1 DEF TypeOK
<1>3. \A v \in Threads \ {t} : pc'[v] = pc[v] /\ loc'[v] = loc[v]
  BY PlainStep DEF Goto, Finish, TypeOK
<1>4. Rejected(last)' <=> Rejected(last)
  BY <1>1, RejectedKept
<1>5. Taken(t)
  BY DEF TakenInv
<1>6. CASE Finish(t) \/ Goto(t, "Unbind")
  BY <1>1, <1>2, <1>6, TakenNothing, TakenKept
<1>7. ASSUME NEW from, NEW to \in Labels, InitRootDSE(t, from, to)
      PROVE  pc[t] = from /\ (Goto(t, to) \/ Goto(t, "Unbind") \/ Finish(t))
  BY <1>7, Raised DEF InitRootDSE, At
<1>8. CASE BindRootDSE(t)
  <2>1. pc[t] = "BindRootDSE" /\ (Goto(t, "BindUser") \/ Goto(t, "Unbind") \/ Finish(t))
    BY <1>7, <1>8 DEF BindRootDSE
  <2>2. CASE Goto(t, "BindUser")
    <3>1. Taken(t)'
      BY <1>1, <1>4, <1>5, <2>1, <2>2 DEF Taken, Goto, TypeOK
    <3>2. QED BY <1>1, <1>2, <1>3, <3>1, TakenKept
  <2>3. QED BY <1>6, <2>1, <2>2
<1>9. CASE OpenRootDSE(t)
  <2>1. \/ Goto(t, "BindFlush") \/ (Goto(t, "RootDSE") /\ loc[t].cmd # "login")
        \/ Goto(t, "Unbind") \/ Finish(t)
    BY <1>7, <1>9 DEF OpenRootDSE
  <2>2. Taken(t)'
    BY <2>1, TakenNothing DEF Taken, Goto, TypeOK
  <2>3. QED BY <1>1, <1>2, <1>3, <2>2, TakenKept
<1>10. CASE RootDSE(t)
  <2>1. pc[t] = "RootDSE" /\ (Goto(t, "Dispatch") \/ Goto(t, "Unbind") \/ Finish(t))
    BY <1>7, <1>10 DEF RootDSE
  <2>2. Taken(t)'
    BY <1>5, <2>1, TakenNothing DEF Taken, Goto, TypeOK
  <2>3. QED BY <1>1, <1>2, <1>3, <2>2, TakenKept
<1>11. CASE Reconnect(t)
  <2>1. pc[t] = "Reconnect" /\ (Goto(t, "Dispatch") \/ Goto(t, "Unbind") \/ Finish(t))
    BY <1>11, Raised DEF Reconnect, At
  <2>2. Taken(t)'
    BY <1>5, <2>1, TakenNothing DEF Taken, Goto, TypeOK
  <2>3. QED BY <1>1, <1>2, <1>3, <2>2, TakenKept
<1>12. CASE BindReconnect(t) \/ BindName(t)
  <2>1. Goto(t, "BindName") \/ Goto(t, "BindSend") \/ Goto(t, "Unbind") \/ Finish(t)
    BY <1>12, Raised DEF BindReconnect, BindName
  <2>2. Taken(t)'
    BY <2>1, TakenNothing
  <2>3. QED BY <1>1, <1>2, <1>3, <2>2, TakenKept
<1>13. QED BY <1>8, <1>9, <1>10, <1>11, <1>12 DEF Plain

(* open(), the end of the session, and the change of the own password. *)
LEMMA TakenOpen ==
  ASSUME OneLogger, TypeOK, TypeOK', IdentityInv, TakenInv, NEW t \in Threads,
         Connect(t) \/ DoStartTLS(t) \/ BindFlush(t) \/ Unbind(t)
  PROVE  TakenInv'
<1>1. /\ \/ Finish(t)
         \/ \E c \in {"StartTLS", "OpenRootDSE", "BindReconnect", "Unbind"} : Goto(t, c)
      /\ UNCHANGED <<password, who>>
      /\ UNCHANGED last \/ BindFlush(t)
      /\ uri' => uri
      /\ l' = "deleted" => l = "deleted" \/ ~uri'
  BY DEF Connect, DoStartTLS, Refused, BindFlush, Unbind, Raise, RaiseDown, outside
<1>2. BindFlush(t) => loc[t].cmd # "use"
  BY DEF BindFlush, At, IdentityInv, ThreadOK
<1>3. \A u \in Users : password[u] <= password'[u]
  BY <1>1 DEF TypeOK
<1>4. Taken(t)' /\ \A v \in Threads \ {t} : pc'[v] = pc[v] /\ loc'[v] = loc[v]
  BY <1>1, TakenNothing
<1>5. QED BY <1>1, <1>2, <1>3, <1>4, TakenKept

(* bind() from the request on. *)
LEMMA TakenBind ==
  ASSUME OneLogger, TypeOK, TypeOK', IdentityInv, TakenInv, NEW t \in Threads,
         BindSend(t) \/ BindWhoami(t) \/ BindWho(t) \/ BindUser(t)
  PROVE  TakenInv'
<1>1. UNCHANGED <<password, l, uri>>
  BY DEF BindSend, BindWhoami, BindWho, BindUser, outside
<1>2. \A u \in Users : password[u] <= password'[u]
  BY <1>1 DEF TypeOK
<1>3. loc[t].cmd = "login" /\ ThreadOK(t) /\ Taken(t)
  BY DEF BindSend, BindWhoami, BindWho, BindUser, At, IdentityInv, ThreadOK, TakenInv
<1>4. ASSUME Taken(t)', \A v \in Threads \ {t} : pc'[v] = pc[v] /\ loc'[v] = loc[v]
      PROVE  TakenInv'
  BY <1>1, <1>2, <1>3, <1>4, TakenKept
<1>5. CASE Finish(t) \/ Goto(t, "Unbind")
  BY <1>4, <1>5, TakenNothing
<1>6. CASE BindSend(t)
  <2>1. CASE Goto(t, "BindWhoami") /\ last'.who = loc[t].login.who
    BY <1>4, <2>1 DEF Taken, Goto, TypeOK
  <2>2. \/ Goto(t, "BindWhoami") /\ last'.who = loc[t].login.who
        \/ Finish(t) \/ Goto(t, "Unbind")
    BY <1>6, Raised DEF BindSend, Raise
  <2>3. QED BY <1>5, <2>1, <2>2
<1>7. CASE BindWhoami(t)
  <2>1. CASE ~Finish(t)
    <3>1. pc[t] = "BindWhoami" /\ UNCHANGED last /\ pc' = [pc EXCEPT ![t] = "BindWho"]
          /\ \E u : loc' = [loc EXCEPT ![t].whoami = u]
      BY <1>7, <2>1 DEF BindWhoami, At, Raise
    <3>2. /\ loc'[t].cmd = loc[t].cmd /\ loc'[t].again = loc[t].again
          /\ loc'[t].login = loc[t].login
          /\ \A v \in Threads \ {t} : pc'[v] = pc[v] /\ loc'[v] = loc[v]
      BY <3>1 DEF TypeOK, Locals
    <3>3. Taken(t)'
      BY <1>3, <3>1, <3>2 DEF Taken, TypeOK
    <3>4. QED BY <1>4, <3>2, <3>3
  <2>2. QED BY <1>5, <2>1
<1>8. CASE BindWho(t)
  <2>1. pc[t] = "BindWho" /\ UNCHANGED last /\ who' = loc[t].whoami /\ Goto(t, "BindRootDSE")
    BY <1>8 DEF BindWho, At
  <2>2. Rejected(last)' <=> Rejected(last)
    BY <1>1, <2>1, RejectedKept
  <2>3. uri => who' = loc[t].login.who \/ Rejected(last)
    BY <1>3, <2>1 DEF ThreadOK, Binding, TakenInv, DeletedOK, TypeOK
  <2>4. Taken(t)'
    BY <1>1, <1>3, <2>1, <2>2, <2>3 DEF Taken, Goto, TypeOK
  <2>5. QED BY <1>4, <2>1, <2>4 DEF Goto, TypeOK
<1>9. CASE BindUser(t)
  <2>1. CASE ~Finish(t)
    <3>1. /\ pc[t] = "BindUser" /\ UNCHANGED last /\ Goto(t, "Dispatch")
          /\ who' \in {who, loc[t].login.who}
      BY <1>9, <2>1 DEF BindUser, At, Raise
    <3>2. Rejected(last)' <=> Rejected(last)
      BY <1>1, <3>1, RejectedKept
    <3>3. Taken(t)'
      BY <1>1, <1>3, <3>1, <3>2 DEF Taken, Goto, TypeOK
    <3>4. QED BY <1>4, <3>1, <3>3 DEF Goto, TypeOK
  <2>2. QED BY <1>5, <2>1
<1>10. QED BY <1>6, <1>7, <1>8, <1>9

(* The command, and the change of the own password. *)
LEMMA TakenCommand ==
  ASSUME OneLogger, TypeOK, TypeOK', IdentityInv, TakenInv, NEW t \in Threads,
         Dispatch(t) \/ PwReconnect(t)
  PROVE  TakenInv'
<1>1. UNCHANGED <<l, uri>> /\ (UNCHANGED <<last, who>> \/ PwReconnect(t))
  BY DEF Dispatch, PwReconnect
<1>2. PwReconnect(t) => loc[t].cmd = "passwd"
  BY DEF PwReconnect, At, IdentityInv, ThreadOK
<1>3. \A u \in Users : password[u] <= password'[u]
  BY DEF Dispatch, PwReconnect, outside, TypeOK
<1>4. ASSUME Taken(t)', \A v \in Threads \ {t} : pc'[v] = pc[v] /\ loc'[v] = loc[v]
      PROVE  TakenInv'
  BY <1>1, <1>2, <1>3, <1>4, TakenKept
<1>5. CASE Finish(t) \/ Goto(t, "PwReconnect")
  BY <1>4, <1>5, TakenNothing
<1>6. CASE DownInDispatch(t)
  <2>1. /\ pc'[t] \in {"Unbind", "Reconnect"} /\ loc'[t].again
        /\ \A v \in Threads \ {t} : pc'[v] = pc[v] /\ loc'[v] = loc[v]
    BY <1>6 DEF DownInDispatch, TypeOK, Locals
  <2>2. QED BY <1>4, <2>1 DEF Taken
<1>7. QED BY <1>5, <1>6 DEF Dispatch, PwReconnect, Raise

(* The invariant holds if one thread at most logs in. *)
LEMMA TakenInvariance ==
  ASSUME OneLogger
  PROVE  Spec => []TakenInv
<1>1. Init => TakenInv
  BY DEF Init, TakenInv, DeletedOK, Taken, NoLocals
<1>2. OneLogger /\ TypeOK /\ TypeOK' /\ IdentityInv /\ TakenInv /\ [Next]_vars => TakenInv'
  <2> SUFFICES ASSUME OneLogger, TypeOK, TypeOK', IdentityInv, TakenInv, [Next]_vars
               PROVE  TakenInv'
    OBVIOUS
  <2>1. CASE UNCHANGED vars
    <3>1. UNCHANGED <<password, l, uri, who, last, pc, loc>>
      BY <2>1 DEF vars, outside, object
    <3>2. QED BY <3>1 DEF TakenInv, DeletedOK, Taken, Rejected
  <2>2. ASSUME NEW t \in Threads, Step(t) PROVE TakenInv'
    <3>1. \/ Plain(t)
          \/ Connect(t) \/ DoStartTLS(t) \/ BindFlush(t) \/ Unbind(t)
          \/ BindSend(t) \/ BindWhoami(t) \/ BindWho(t) \/ BindUser(t)
          \/ Dispatch(t) \/ PwReconnect(t)
      BY <2>2 DEF Step, Plain
    <3>2. QED BY <3>1, TakenPlain, TakenOpen, TakenBind, TakenCommand
  <2>3. QED BY <2>1, <2>2, TakenOutside, TakenRequests DEF Next
<1>3. QED BY <1>1, <1>2, TypeCorrect, IdentityInvariance, PTL DEF Spec

(* If no two requests log in or change the password at the same time, bind() *)
(* returns with the session shown to be bound as the user who has logged in, *)
(* and with that user's bind to be repeated, whatever has failed after the   *)
(* bind request and whatever other threads have sent on the connection.      *)
THEOREM LoginCorrect ==
  ASSUME OneLogger
  PROVE  Spec => []LoginTakesEffect
<1>1. TakenInv => LoginTakesEffect
  BY DEF TakenInv, Taken, LoginTakesEffect
<1>2. QED BY <1>1, TakenInvariance, PTL

=============================================================================
