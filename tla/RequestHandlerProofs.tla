------------------------ MODULE RequestHandlerProofs ------------------------
(***************************************************************************)
(* Theorems about RequestHandler for every set of workers, session IDs,    *)
(* servers and requests.                                                    *)
(*                                                                         *)
(* Three layers, each an invariant that uses the layers below it.           *)
(* WorkerOK says which session IDs and which URI a worker has at its        *)
(* control point.  StoreInv relates the store to the connections: the data  *)
(* of session s is the LDAPSession s, only a live session is connected, and *)
(* nobody but the worker that creates a session knows its ID before it is   *)
(* open.  RequestInv says what each worker knows of its own session, which  *)
(* the other workers may have removed, but not connected elsewhere.         *)
(***************************************************************************)
EXTENDS RequestHandler, TLAPS

BeforeSession == {"Idle", "Parse", "GetSession", "UseSession"}
BeforeConnection == BeforeSession \union {"Disconnect", "Delsid", "Params", "ChooseURI", "DelSession"}
Connecting == {"DelSession", "NewSession", "SaveNew", "Open"}
Working == {"Login", "Bind", "RootDSE", "CheckConn", "Dispatch", "Reconnect", "Redispatch", "SaveEnd"}
Ended == {"Handler", "Done", "Escaped"}

USE DEF Labels, Exceptions, Answers, BeforeSession, BeforeConnection, Connecting, Working, Ended

(* What AppHandler a has at control point c; g is what was fetched last. *)
WorkerOK(c, a, g) ==
  /\ a.ls \in {NoId, a.sid} \/ (c = "Done" /\ a.sid = NoId)
  /\ c \in BeforeSession => a.ls = NoId
  /\ c \in BeforeConnection => a.sid = a.asked
  /\ c = "UseSession" => a.sid \in SessionIds /\ g \in {Created, a.sid}
  /\ c = "NewSession" => a.sid = NoId
  /\ c \in Connecting => a.uri \in URIs /\ (a.form.url \in URIs => a.uri = a.form.url)
  /\ c \in Working \union {"SaveNew", "Open", "SaveOpen"} => a.ls \in SessionIds
  /\ a.exc # "none" => c \in Ended
  /\ a.answer # "none" => c = "Done"

ControlOK ==
  /\ pc \in [Workers -> Labels]
  /\ app \in [Workers -> AppHandlers]
  /\ \A w \in Workers : WorkerOK(pc[w], app[w], got[w])

(* The data of a session is its own LDAPSession, while it is live. *)
OwnData == \A s \in SessionIds : data[s] = Created \/ (data[s] = s /\ status[s] = "live")

TInv == TypeOK /\ ControlOK /\ OwnData

-----------------------------------------------------------------------------
(* Control: a step of a worker moves that worker only.                      *)

(* A worker that moves to a control point with an AppHandler fit for it.    *)
LEMMA Moved ==
  ASSUME ControlOK, NEW w \in Workers, NEW c \in Labels, NEW a \in AppHandlers,
         WorkerOK(c, a, got'[w]), \A u \in Workers \ {w} : got'[u] = got[u], Move(w, c, a)
  PROVE  ControlOK'
<1>1. pc' \in [Workers -> Labels] /\ app' \in [Workers -> AppHandlers]
  BY DEF ControlOK, Move
<1>2. ASSUME NEW u \in Workers PROVE WorkerOK(pc'[u], app'[u], got'[u])
  <2>1. CASE u = w
    BY <2>1 DEF ControlOK, Move
  <2>2. CASE u # w
    BY <2>2 DEF ControlOK, Move
  <2>3. QED BY <2>1, <2>2
<1>3. QED BY <1>1, <1>2 DEF ControlOK, WorkerOK

(* The same for a step that leaves the AppHandler alone. *)
LEMMA Gone ==
  ASSUME ControlOK, NEW w \in Workers, NEW c \in Labels, WorkerOK(c, app[w], got'[w]),
         \A u \in Workers \ {w} : got'[u] = got[u], Goto(w, c)
  PROVE  ControlOK'
<1>1. app[w] \in AppHandlers /\ Move(w, c, app[w])
  BY DEF ControlOK, Goto, Move
<1>2. QED BY <1>1, Moved

(* An exception leads to the handlers at the end of run(). *)
LEMMA Raised ==
  ASSUME ControlOK, NEW w \in Workers, pc[w] \notin Ended, NEW x \in Exceptions, Raise(w, x),
         UNCHANGED got
  PROVE  ControlOK'
<1> DEFINE a == [app[w] EXCEPT !.exc = x]
<1>1. app[w] \in AppHandlers /\ WorkerOK(pc[w], app[w], got[w])
  BY DEF ControlOK
<1>2. a \in AppHandlers /\ WorkerOK("Handler", a, got[w])
  BY <1>1 DEF AppHandlers, WorkerOK
<1>3. QED BY <1>2, Moved DEF Raise

(* A page ends the request, whether or not the session goes with it. *)
LEMMA Answered ==
  ASSUME ControlOK, NEW w \in Workers, pc[w] \notin {"Done", "Escaped"}, NEW p \in Answers,
         \/ Answer(w, p)
         \/ Move(w, "Done", [app[w] EXCEPT !.sid = NoId, !.answer = p]),
         UNCHANGED got
  PROVE  ControlOK'
<1> DEFINE a == [app[w] EXCEPT !.answer = p]
           b == [app[w] EXCEPT !.sid = NoId, !.answer = p]
<1>1. app[w] \in AppHandlers /\ WorkerOK(pc[w], app[w], got[w])
  BY DEF ControlOK
<1>2. a \in AppHandlers /\ WorkerOK("Done", a, got[w])
  BY <1>1 DEF AppHandlers, WorkerOK
<1>3. b \in AppHandlers
  BY <1>1 DEF AppHandlers
<1>4. b.sid = NoId /\ b.exc = app[w].exc /\ b.answer = p
  BY <1>1 DEF AppHandlers
<1> HIDE DEF b
<1>5. WorkerOK("Done", b, got[w])
  BY <1>4 DEF WorkerOK
<1>6. QED BY <1>2, <1>3, <1>5, Moved DEF Answer, b

(* Session.delete() changes nothing a worker has fetched. *)
LEMMA DeleteKeepsFetched ==
  ASSUME NEW s, DeleteSession(s)
  PROVE  UNCHANGED got
BY DEF DeleteSession, Store!Remove, storeVars

(* Nor does saving a session. *)
LEMMA SaveKeepsFetched ==
  ASSUME NEW w, SaveSession(w)
  PROVE  UNCHANGED got
BY DEF SaveSession, Store!Save, storeVars

(* run() up to the session. *)
LEMMA FetchControl ==
  ASSUME TInv, NEW w \in Workers, Parse(w) \/ GetSession(w) \/ UseSession(w)
  PROVE  ControlOK'
<1> USE DEF At
<1>1. app[w] \in AppHandlers /\ WorkerOK(pc[w], app[w], got[w]) /\ ControlOK
  BY DEF TInv, ControlOK
<1>2. CASE Parse(w)
  <2>1. UNCHANGED got /\ WorkerOK("GetSession", app[w], got[w])
    BY <1>1, <1>2 DEF Parse, storeVars, WorkerOK
  <2>2. CASE Goto(w, "GetSession")
    BY <1>1, <2>1, <2>2, Gone
  <2>3. QED BY <1>1, <1>2, <2>1, <2>2, Raised, Answered DEF Parse
<1>3. CASE GetSession(w)
  <2>1. CASE Goto(w, AfterSession(w)) /\ UNCHANGED storeVars
    <3>1. UNCHANGED got /\ AfterSession(w) \in {"Disconnect", "Delsid"}
      BY <2>1 DEF storeVars, AfterSession
    <3>2. \A c \in {"Disconnect", "Delsid"} : WorkerOK(c, app[w], got[w])
      BY <1>1, <1>3 DEF GetSession, WorkerOK
    <3>3. QED BY <1>1, <2>1, <3>1, <3>2, Gone
  <2>2. CASE Raise(w, "SessionException") /\ UNCHANGED storeVars
    BY <1>1, <1>3, <2>2, Raised DEF GetSession, storeVars
  <2>3. CASE Live(app[w].sid) /\ Store!Fetch(w, app[w].sid) /\ Goto(w, "UseSession")
    <3>1. app[w].sid \in SessionIds /\ got' = [got EXCEPT ![w] = data[app[w].sid]]
      BY <1>1, <2>3 DEF Live, Store!Fetch, AppHandlers
    <3>2. got'[w] \in {Created, app[w].sid} /\ \A u \in Workers \ {w} : got'[u] = got[u]
      BY <3>1 DEF TInv, TypeOK, OwnData
    <3>3. WorkerOK("UseSession", app[w], got'[w])
      BY <1>1, <1>3, <3>1, <3>2 DEF GetSession, WorkerOK
    <3>4. QED BY <1>1, <2>3, <3>2, <3>3, Gone
  <2>4. QED BY <1>3, <2>1, <2>2, <2>3 DEF GetSession
<1>4. CASE UseSession(w)
  <2>1. UNCHANGED got
    BY <1>4 DEF UseSession, storeVars
  <2>2. CASE Raise(w, "SessionException")
    BY <1>1, <1>4, <2>1, <2>2, Raised DEF UseSession
  <2>3. CASE got[w] # Created /\ Move(w, AfterSession(w), [app[w] EXCEPT !.ls = got[w]])
    <3> DEFINE a == [app[w] EXCEPT !.ls = got[w]]
    <3>1. got[w] = app[w].sid /\ app[w].sid \in SessionIds
      BY <1>1, <1>4, <2>3 DEF UseSession, WorkerOK
    <3>2. a \in AppHandlers /\ AfterSession(w) \in {"Disconnect", "Delsid"}
      BY <1>1, <3>1 DEF AppHandlers, AfterSession
    <3>3. \A c \in {"Disconnect", "Delsid"} : WorkerOK(c, a, got[w])
      BY <1>1, <1>4, <3>1 DEF UseSession, WorkerOK, AppHandlers
    <3>4. QED BY <1>1, <2>1, <2>3, <3>2, <3>3, Moved
  <2>4. QED BY <1>4, <2>2, <2>3 DEF UseSession
<1>5. QED BY <1>2, <1>3, <1>4

(* The sessions a request ends, and the parameters. *)
LEMMA EndControl ==
  ASSUME TInv, NEW w \in Workers, Disconnect(w) \/ Delsid(w) \/ Params(w)
  PROVE  ControlOK'
<1> USE DEF At
<1>1. app[w] \in AppHandlers /\ WorkerOK(pc[w], app[w], got[w]) /\ ControlOK
  BY DEF TInv, ControlOK
<1>2. CASE Disconnect(w)
  <2>1. UNCHANGED got
    BY <1>2, DeleteKeepsFetched DEF Disconnect, storeVars
  <2>2. QED BY <1>1, <1>2, <2>1, Raised, Answered DEF Disconnect
<1>3. CASE Delsid(w)
  <2>1. UNCHANGED got /\ WorkerOK("Params", app[w], got[w])
    BY <1>1, <1>3, DeleteKeepsFetched DEF Delsid, WorkerOK
  <2>2. QED BY <1>1, <1>3, <2>1, Gone DEF Delsid
<1>4. CASE Params(w)
  <2>1. UNCHANGED got
    BY <1>4 DEF Params, storeVars
  <2>2. CASE Raise(w, "ErrorExit")
    BY <1>1, <1>4, <2>1, <2>2, Raised DEF Params
  <2>3. CASE Move(w, "ChooseURI", [app[w] EXCEPT !.dn = TRUE])
    <3> DEFINE a == [app[w] EXCEPT !.dn = TRUE]
    <3>1. a \in AppHandlers /\ WorkerOK("ChooseURI", a, got[w])
      BY <1>1, <1>4 DEF Params, AppHandlers, WorkerOK
    <3>2. QED BY <1>1, <2>1, <2>3, <3>1, Moved
  <2>4. QED BY <1>4, <2>2, <2>3 DEF Params
<1>5. QED BY <1>2, <1>3, <1>4

(* The URI of the request, and whether it needs a new session. *)
LEMMA WithURIControl ==
  ASSUME ControlOK, NEW w \in Workers, pc[w] = "ChooseURI", NEW u \in URIs \union {NoURI},
         u = NoURI => app[w].form.url \notin URIs,
         app[w].form.url \in URIs => u = app[w].form.url, WithURI(w, u), UNCHANGED got
  PROVE  ControlOK'
<1> DEFINE a == [app[w] EXCEPT !.uri = u]
<1>1. app[w] \in AppHandlers /\ WorkerOK(pc[w], app[w], got[w])
  BY DEF ControlOK
<1>2. a \in AppHandlers
  BY <1>1 DEF AppHandlers
<1>3. /\ a.ls = app[w].ls /\ a.sid = app[w].sid /\ a.asked = app[w].asked /\ a.form = app[w].form
      /\ a.uri = u /\ a.exc = app[w].exc /\ a.answer = app[w].answer
  BY <1>1 DEF AppHandlers
<1> HIDE DEF a
<1>4. WorkerOK("CheckLs", a, got[w]) /\ (u # NoURI => WorkerOK("DelSession", a, got[w]))
  BY <1>1, <1>3 DEF WorkerOK
<1>5. CASE Move(w, "DelSession", a) /\ u # NoURI
  BY <1>2, <1>4, <1>5, Moved
<1>6. CASE Move(w, "CheckLs", a)
  BY <1>2, <1>4, <1>6, Moved
<1>7. QED BY <1>5, <1>6 DEF WithURI, NeedsNewSession, a

(* run() up to the choice of the server. *)
LEMMA ChooseControl ==
  ASSUME TInv, NEW w \in Workers, ChooseURI(w)
  PROVE  ControlOK'
<1>1. ControlOK /\ pc[w] = "ChooseURI"
  BY DEF TInv, ChooseURI, At
<1>2. "nohost" \notin URIs /\ "none" \notin URIs /\ DefaultURI \in URIs /\ NoURI \notin URIs
  BY HandlerAssumption
<1>3. UNCHANGED got
  BY DeleteKeepsFetched DEF ChooseURI, LookupSRV, storeVars
<1>4. CASE LookupSRV(w) /\ app[w].form.url = "nohost"
  <2>1. CASE AnswerConnect(w)
    BY <1>1, <1>3, <2>1, Answered DEF AnswerConnect
  <2>2. CASE Answer(w, "page")
    BY <1>1, <1>3, <2>2, Answered
  <2>3. CASE \E u \in URIs : WithURI(w, u)
    BY <1>1, <1>2, <1>3, <1>4, <2>3, WithURIControl
  <2>4. QED BY <1>4, <2>1, <2>2, <2>3 DEF LookupSRV
<1>5. CASE app[w].form.url = "nohost" /\ WithURI(w, DefaultURI)
  BY <1>1, <1>2, <1>3, <1>5, WithURIControl
<1>6. CASE app[w].form.url = "none" /\ WithURI(w, NoURI)
  BY <1>1, <1>2, <1>3, <1>6, WithURIControl
<1>7. CASE app[w].form.url \in URIs /\ WithURI(w, app[w].form.url)
  BY <1>1, <1>2, <1>3, <1>7, WithURIControl
<1>8. QED BY <1>4, <1>5, <1>6, <1>7 DEF ChooseURI

(* A new session and its connection. *)
LEMMA ConnectControl ==
  ASSUME TInv, NEW w \in Workers,
         DelSession(w) \/ NewSession(w) \/ SaveNew(w) \/ Open(w) \/ SaveOpen(w) \/ CheckLs(w)
  PROVE  ControlOK'
<1> USE DEF At
<1>1. app[w] \in AppHandlers /\ WorkerOK(pc[w], app[w], got[w]) /\ ControlOK
  BY DEF TInv, ControlOK
<1>2. CASE DelSession(w)
  <2> DEFINE a == [app[w] EXCEPT !.sid = NoId, !.ls = NoId]
  <2>1. UNCHANGED got /\ Move(w, "NewSession", a)
    BY <1>2, DeleteKeepsFetched DEF DelSession
  <2>2. a \in AppHandlers /\ WorkerOK("NewSession", a, got[w])
    BY <1>1, <1>2 DEF DelSession, AppHandlers, WorkerOK
  <2>3. QED BY <1>1, <2>1, <2>2, Moved
<1>3. CASE NewSession(w)
  <2>1. CASE Raise(w, "MaxSessions") /\ UNCHANGED storeVars
    BY <1>1, <1>3, <2>1, Raised DEF NewSession, storeVars
  <2>2. ASSUME NEW s \in SessionIds, Store!Create(s),
               Move(w, "SaveNew", [app[w] EXCEPT !.sid = s, !.ls = s])
        PROVE  ControlOK'
    <3> DEFINE a == [app[w] EXCEPT !.sid = s, !.ls = s]
    <3>1. UNCHANGED got
      BY <2>2 DEF Store!Create
    <3>2. a \in AppHandlers /\ WorkerOK("SaveNew", a, got[w])
      BY <1>1, <1>3 DEF NewSession, AppHandlers, WorkerOK
    <3>3. QED BY <1>1, <2>2, <3>1, <3>2, Moved
  <2>3. QED BY <1>3, <2>1, <2>2 DEF NewSession
<1>4. CASE SaveNew(w)
  <2>1. UNCHANGED got /\ WorkerOK("Open", app[w], got[w])
    BY <1>1, <1>4, SaveKeepsFetched DEF SaveNew, WorkerOK
  <2>2. CASE Goto(w, "Open")
    BY <1>1, <2>1, <2>2, Gone
  <2>3. QED BY <1>1, <1>4, <2>1, <2>2, Raised DEF SaveNew
<1>5. CASE Open(w)
  <2>1. UNCHANGED got /\ WorkerOK("SaveOpen", app[w], got[w])
    BY <1>1, <1>5 DEF Open, WorkerOK, storeVars
  <2>2. CASE Goto(w, "SaveOpen")
    BY <1>1, <2>1, <2>2, Gone
  <2>3. QED BY <1>1, <1>5, <2>1, <2>2, Raised DEF Open
<1>6. CASE SaveOpen(w)
  <2>1. UNCHANGED got /\ WorkerOK("CheckLs", app[w], got[w])
    BY <1>1, <1>6, SaveKeepsFetched DEF SaveOpen, WorkerOK
  <2>2. QED BY <1>1, <1>6, <2>1, Gone DEF SaveOpen
<1>7. CASE CheckLs(w)
  <2>1. UNCHANGED got
    BY <1>7, SaveKeepsFetched, DeleteKeepsFetched DEF CheckLs, storeVars
  <2>2. CASE Connected(w) /\ Goto(w, "Login")
    <3>1. WorkerOK("Login", app[w], got[w])
      BY <1>1, <1>7, <2>2 DEF CheckLs, WorkerOK, Connected, AppHandlers
    <3>2. QED BY <1>1, <2>1, <2>2, <3>1, Gone
  <2>3. QED BY <1>1, <1>7, <2>1, <2>2, Answered DEF CheckLs, AnswerConnect
<1>8. QED BY <1>2, <1>3, <1>4, <1>5, <1>6, <1>7

(* An LDAP operation that fails raises one of the exceptions. *)
LEMMA Failed ==
  ASSUME ControlOK, NEW w \in Workers, pc[w] \notin Ended, NEW xs \in SUBSET Exceptions, UNCHANGED got,
         Unbound(w) \/ Raise(w, "SERVER_DOWN") \/ Fails(w, xs)
  PROVE  ControlOK'
<1>1. \E x \in Exceptions : Raise(w, x)
  BY DEF Unbound, Fails
<1>2. QED BY <1>1, Raised

(* The command: from the login to the answer. *)
LEMMA CommandControl ==
  ASSUME TInv, NEW w \in Workers,
         \/ Login(w) \/ Bind(w) \/ RootDSE(w) \/ CheckConn(w)
         \/ Dispatch(w) \/ Reconnect(w) \/ Redispatch(w) \/ SaveEnd(w)
  PROVE  ControlOK'
<1> USE DEF At
<1>1. app[w] \in AppHandlers /\ WorkerOK(pc[w], app[w], got[w]) /\ ControlOK
  BY DEF TInv, ControlOK
<1>2. UNCHANGED got
  BY SaveKeepsFetched DEF Login, Bind, RootDSE, CheckConn, Dispatch, Reconnect, Redispatch,
     SaveEnd, storeVars
<1>3. pc[w] \in Working /\ pc[w] \notin Ended
  BY DEF Login, Bind, RootDSE, CheckConn, Dispatch, Reconnect, Redispatch, SaveEnd
<1>4. ASSUME NEW c \in Working, Goto(w, c) PROVE ControlOK'
  <2>1. WorkerOK(c, app[w], got[w])
    BY <1>1, <1>3 DEF WorkerOK
  <2>2. QED BY <1>1, <1>2, <1>4, <2>1, Gone
<1>5. ASSUME NEW p \in Answers, Answer(w, p) PROVE ControlOK'
  BY <1>1, <1>2, <1>3, <1>5, Answered
<1>6. ASSUME NEW xs \in SUBSET Exceptions, Unbound(w) \/ Raise(w, "SERVER_DOWN") \/ Fails(w, xs)
      PROVE  ControlOK'
  BY <1>1, <1>2, <1>3, <1>6, Failed
<1>7. CASE Login(w) \/ CheckConn(w) \/ SaveEnd(w)
  BY <1>4, <1>5, <1>7 DEF Login, CheckConn, SaveEnd
<1>8. CASE Bind(w)
  <2>1. {"InvalidSimpleBindDN", "INVALID_CREDENTIALS", "PasswordPolicy", "LDAPError"}
          \in SUBSET Exceptions
    OBVIOUS
  <2>2. QED BY <1>4, <1>5, <1>6, <1>8, <2>1 DEF Bind
<1>9. CASE RootDSE(w) \/ Reconnect(w)
  <2>1. {"LDAPError"} \in SUBSET Exceptions
    OBVIOUS
  <2>2. QED BY <1>4, <1>6, <1>9, <2>1 DEF RootDSE, Reconnect
<1>10. CASE Dispatch(w) \/ Redispatch(w)
  <2>1. CommandErrors \in SUBSET Exceptions
    BY DEF CommandErrors
  <2>2. QED BY <1>4, <1>5, <1>6, <1>10, <2>1 DEF Dispatch, Redispatch
<1>11. QED BY <1>7, <1>8, <1>9, <1>10

(* The exception handlers, and the end of the request. *)
LEMMA HandlerControl ==
  ASSUME TInv, NEW w \in Workers, Handler(w) \/ EndRequest(w)
  PROVE  ControlOK'
<1> USE DEF At
<1>1. app[w] \in AppHandlers /\ WorkerOK(pc[w], app[w], got[w]) /\ ControlOK
  BY DEF TInv, ControlOK
<1>2. CASE Handler(w)
  <2>1. UNCHANGED got
    BY <1>2, DeleteKeepsFetched DEF Handler, HandleServerDown, storeVars
  <2>2. CASE Goto(w, "Escaped")
    <3>1. WorkerOK("Escaped", app[w], got[w])
      BY <1>1, <1>2 DEF Handler, WorkerOK
    <3>2. QED BY <1>1, <2>1, <2>2, <3>1, Gone
  <2>3. CASE (\E p \in Answers : Answer(w, p)) \/ AnswerConnect(w)
    BY <1>1, <1>2, <2>1, <2>3, Answered DEF Handler, AnswerConnect
  <2>4. QED BY <1>2, <2>2, <2>3 DEF Handler, ShowMessage, HandleServerDown
<1>3. CASE EndRequest(w)
  <2>1. NoApp \in AppHandlers /\ WorkerOK("Idle", NoApp, got'[w])
    BY DEF NoApp, AppHandlers, WorkerOK
  <2>2. \A u \in Workers \ {w} : got'[u] = got[u]
    BY <1>3 DEF EndRequest, Store!Forget, TInv, TypeOK
  <2>3. QED BY <1>1, <1>3, <2>1, <2>2, Moved DEF EndRequest
<1>4. QED BY <1>2, <1>3

(* A request comes in. *)
LEMMA ReceiveControl ==
  ASSUME TInv, NEW w \in Workers, NEW f \in Forms, NEW s \in SessionIds \union {NoId},
         NEW d \in SessionIds \union {NoId}, Receive(w, f, s, d)
  PROVE  ControlOK'
<1> DEFINE a == [NoApp EXCEPT !.form = f, !.asked = s, !.sid = s, !.delsid = d]
<1>1. a \in AppHandlers /\ WorkerOK("Parse", a, got[w])
  BY DEF NoApp, AppHandlers, WorkerOK
<1>2. UNCHANGED got /\ Move(w, "Parse", a)
  BY DEF Receive, storeVars
<1>3. QED BY <1>1, <1>2, Moved DEF TInv

(* Every step keeps the control part of the invariant. *)
LEMMA ControlStep ==
  ASSUME TInv, [Next]_vars
  PROVE  ControlOK'
<1>1. ASSUME UNCHANGED <<pc, app, got>> PROVE ControlOK'
  BY <1>1 DEF TInv, ControlOK, WorkerOK
<1>2. CASE UNCHANGED vars
  BY <1>1, <1>2 DEF vars
<1>3. CASE Environment
  <2>1. CASE \E u \in URIs : ServerStops(u) \/ ServerStarts(u)
    BY <1>1, <2>1 DEF ServerStops, ServerStarts, storeVars
  <2>2. CASE \E s \in SessionIds : ExpireSession(s)
    BY <1>1, <2>2, DeleteKeepsFetched DEF ExpireSession
  <2>3. QED BY <1>3, <2>1, <2>2, ReceiveControl DEF Environment
<1>4. ASSUME NEW w \in Workers, HandleRequest(w) PROVE ControlOK'
  BY <1>4, FetchControl, EndControl, ChooseControl, ConnectControl, CommandControl, HandlerControl
     DEF HandleRequest
<1>5. QED BY <1>2, <1>3, <1>4 DEF Next

-----------------------------------------------------------------------------
(* What a step of a worker does to what all share, and to the IDs it has.   *)

Others(w) ==
  /\ pc' \in [Workers -> Labels] /\ app' \in [Workers -> AppHandlers]
  /\ \A u \in Workers \ {w} : pc'[u] = pc[u] /\ app'[u] = app[u] /\ got'[u] = got[u]

KeepsIds(w) ==
  /\ app'[w].asked \in {app[w].asked, NoId}
  /\ app'[w].delsid \in {app[w].delsid, NoId}
  /\ app'[w].sid \in {app[w].sid, NoId}
  /\ app'[w].ls \in {app[w].ls, app[w].sid, NoId}

Reads(w) ==
  /\ UNCHANGED <<status, data, conn>>
  /\ shown' \in {shown, shown \union ({app[w].sid} \ {NoId})}
  /\ pc'[w] \notin {"SaveNew", "Open"}
  /\ KeepsIds(w)

Deletes(w) ==
  /\ \E s \in {app[w].sid, app[w].delsid} : DeleteSession(s)
  /\ pc'[w] \notin {"SaveNew", "Open"}
  /\ UNCHANGED shown
  /\ KeepsIds(w)

Saves(w) ==
  /\ SaveSession(w)
  /\ app[w].ls = app[w].sid /\ app[w].sid \in SessionIds
  /\ pc'[w] # "SaveNew" /\ (pc'[w] = "Open" => pc[w] = "SaveNew")
  /\ UNCHANGED <<conn, shown>>
  /\ KeepsIds(w)

Creates(w) ==
  /\ \E s \in SessionIds :
       /\ Store!Create(s)
       /\ app'[w] = [app[w] EXCEPT !.sid = s, !.ls = s]
  /\ pc[w] = "NewSession" /\ pc'[w] = "SaveNew"
  /\ UNCHANGED <<conn, shown>>

Opens(w) ==
  /\ pc[w] = "Open" /\ pc'[w] \in {"SaveOpen", "Handler"}
  /\ conn' = [conn EXCEPT ![app[w].ls] = app[w].uri]
  /\ UNCHANGED <<status, data, shown>>
  /\ KeepsIds(w)

Effect(w) == Reads(w) \/ Deletes(w) \/ Saves(w) \/ Creates(w) \/ Opens(w)

(* Goto, Raise and the answers keep the IDs. *)
LEMMA MovesKeepIds ==
  ASSUME ControlOK, NEW w \in Workers
  PROVE  /\ \A c : Goto(w, c) => pc'[w] = c /\ KeepsIds(w)
         /\ \A x : Raise(w, x) => pc'[w] = "Handler" /\ KeepsIds(w)
         /\ \A p : Answer(w, p) => pc'[w] = "Done" /\ KeepsIds(w)
         /\ AnswerConnect(w) => pc'[w] = "Done" /\ KeepsIds(w)
<1> USE DEF ControlOK, Move, KeepsIds, AppHandlers
<1>1. ASSUME NEW c, Goto(w, c) PROVE pc'[w] = c /\ KeepsIds(w)
  BY <1>1 DEF Goto
<1>2. ASSUME NEW x, Raise(w, x) PROVE pc'[w] = "Handler" /\ KeepsIds(w)
  <2>1. app'[w] = [app[w] EXCEPT !.exc = x] /\ pc'[w] = "Handler"
    BY <1>2 DEF Raise
  <2>2. QED BY <2>1
<1>3. ASSUME NEW p, Answer(w, p) PROVE pc'[w] = "Done" /\ KeepsIds(w)
  <2>1. app'[w] = [app[w] EXCEPT !.answer = p] /\ pc'[w] = "Done"
    BY <1>3 DEF Answer
  <2>2. QED BY <2>1
<1>4. ASSUME AnswerConnect(w) PROVE pc'[w] = "Done" /\ KeepsIds(w)
  <2>1. app'[w] = [app[w] EXCEPT !.sid = NoId, !.answer = "connect"] /\ pc'[w] = "Done"
    BY <1>4 DEF AnswerConnect
  <2>2. QED BY <2>1
<1>5. QED BY <1>1, <1>2, <1>3, <1>4

(* run() up to the parameters. *)
LEMMA FetchEffect ==
  ASSUME TInv, NEW w \in Workers, Parse(w) \/ GetSession(w) \/ UseSession(w) \/ Params(w)
  PROVE  Reads(w)
<1> USE DEF At
<1>1. app[w] \in AppHandlers /\ WorkerOK(pc[w], app[w], got[w]) /\ ControlOK
  BY DEF TInv, ControlOK
<1>2. UNCHANGED <<status, data, conn, shown>>
  BY DEF Parse, GetSession, UseSession, Params, storeVars, Store!Fetch
<1>3. CASE Parse(w) \/ GetSession(w)
  BY <1>1, <1>2, <1>3, MovesKeepIds DEF Reads, Parse, GetSession, AfterSession
<1>4. CASE UseSession(w) \/ Params(w)
  <2>1. CASE \E x : Raise(w, x)
    BY <1>1, <1>2, <2>1, MovesKeepIds DEF Reads
  <2>2. CASE ~\E x : Raise(w, x)
    <3>1. CASE UseSession(w)
      <4>1. got[w] = app[w].sid /\ Move(w, AfterSession(w), [app[w] EXCEPT !.ls = got[w]])
        BY <1>1, <2>2, <3>1 DEF UseSession, WorkerOK
      <4>2. app'[w] = [app[w] EXCEPT !.ls = app[w].sid] /\ pc'[w] \in {"Disconnect", "Delsid"}
        BY <1>1, <4>1 DEF Move, ControlOK, AfterSession
      <4>3. KeepsIds(w)
        BY <1>1, <4>2 DEF KeepsIds, AppHandlers
      <4>4. QED BY <1>2, <4>2, <4>3 DEF Reads
    <3>2. CASE Params(w)
      <4>1. app'[w] = [app[w] EXCEPT !.dn = TRUE] /\ pc'[w] = "ChooseURI"
        BY <1>1, <2>2, <3>2 DEF Params, Move, ControlOK
      <4>2. KeepsIds(w)
        BY <1>1, <4>1 DEF KeepsIds, AppHandlers
      <4>3. QED BY <1>2, <4>1, <4>2 DEF Reads
    <3>3. QED BY <1>4, <3>1, <3>2
  <2>3. QED BY <2>1, <2>2
<1>5. QED BY <1>3, <1>4

(* Deleting the own session, or the one the login form names. *)
LEMMA EndEffect ==
  ASSUME TInv, NEW w \in Workers, Disconnect(w) \/ Delsid(w) \/ DelSession(w)
  PROVE  Effect(w)
<1> USE DEF At
<1>1. app[w] \in AppHandlers /\ ControlOK
  BY DEF TInv, ControlOK
<1>2. CASE Disconnect(w) /\ app[w].ls = NoId
  BY <1>1, <1>2, MovesKeepIds DEF Disconnect, Effect, Reads, storeVars
<1>3. CASE Disconnect(w) /\ app[w].ls # NoId
  <2>1. app'[w] = [app[w] EXCEPT !.sid = NoId, !.answer = "redirect"] /\ pc'[w] = "Done"
    BY <1>1, <1>3 DEF Disconnect, Move, ControlOK
  <2>2. KeepsIds(w)
    BY <1>1, <2>1 DEF KeepsIds, AppHandlers
  <2>3. QED BY <1>3, <2>1, <2>2 DEF Disconnect, Effect, Deletes
<1>4. CASE Delsid(w)
  BY <1>1, <1>4, MovesKeepIds DEF Delsid, Effect, Deletes
<1>5. CASE DelSession(w)
  <2>1. app'[w] = [app[w] EXCEPT !.sid = NoId, !.ls = NoId] /\ pc'[w] = "NewSession"
    BY <1>1, <1>5 DEF DelSession, Move, ControlOK
  <2>2. KeepsIds(w)
    BY <1>1, <2>1 DEF KeepsIds, AppHandlers
  <2>3. QED BY <1>5, <2>1, <2>2 DEF DelSession, Effect, Deletes
<1>6. QED BY <1>2, <1>3, <1>4, <1>5

(* What that choice does to the store: at most it removes the session. *)
LEMMA ChooseEffect ==
  ASSUME TInv, NEW w \in Workers, ChooseURI(w)
  PROVE  Effect(w)
<1>1. app[w] \in AppHandlers /\ ControlOK /\ UNCHANGED shown
  BY DEF TInv, ControlOK, ChooseURI
<1>2. ASSUME NEW u, WithURI(w, u) PROVE KeepsIds(w) /\ pc'[w] \in {"DelSession", "CheckLs"}
  <2>1. app'[w] = [app[w] EXCEPT !.uri = u] /\ pc'[w] \in {"DelSession", "CheckLs"}
    BY <1>1, <1>2 DEF WithURI, Move, ControlOK
  <2>2. QED BY <1>1, <2>1 DEF KeepsIds, AppHandlers
<1>3. CASE DeleteSession(app[w].sid) /\ AnswerConnect(w)
  BY <1>1, <1>3, MovesKeepIds DEF Effect, Deletes
<1>4. CASE /\ UNCHANGED <<storeVars, conn>>
           /\ Answer(w, "page") \/ \E u : WithURI(w, u)
  BY <1>1, <1>2, <1>4, MovesKeepIds DEF Effect, Reads, storeVars
<1>5. QED BY <1>3, <1>4 DEF ChooseURI, LookupSRV

(* What making a session and opening its connection does to the store. *)
LEMMA ConnectEffect ==
  ASSUME TInv, NEW w \in Workers,
         NewSession(w) \/ SaveNew(w) \/ Open(w) \/ SaveOpen(w) \/ CheckLs(w)
  PROVE  Effect(w)
<1> USE DEF At
<1>1. app[w] \in AppHandlers /\ WorkerOK(pc[w], app[w], got[w]) /\ ControlOK /\ UNCHANGED shown
  BY DEF TInv, ControlOK, NewSession, SaveNew, Open, SaveOpen, CheckLs
<1>2. CASE NewSession(w)
  <2>1. CASE Raise(w, "MaxSessions") /\ UNCHANGED storeVars
    BY <1>1, <1>2, <2>1, MovesKeepIds DEF NewSession, Effect, Reads, storeVars
  <2>2. ASSUME NEW s \in SessionIds, Store!Create(s),
               Move(w, "SaveNew", [app[w] EXCEPT !.sid = s, !.ls = s])
        PROVE  Creates(w)
    BY <1>1, <1>2, <2>2 DEF NewSession, Creates, Move, ControlOK
  <2>3. QED BY <1>2, <2>1, <2>2 DEF NewSession, Effect
<1>3. CASE SaveNew(w) \/ SaveOpen(w)
  <2>1. app[w].ls = app[w].sid /\ app[w].sid \in SessionIds
    BY <1>1, <1>3, HandlerAssumption DEF SaveNew, SaveOpen, WorkerOK
  <2>2. QED BY <1>1, <1>3, <2>1, MovesKeepIds DEF SaveNew, SaveOpen, Effect, Saves
<1>4. CASE Open(w)
  <2>1. UNCHANGED <<status, data>> /\ KeepsIds(w) /\ pc'[w] \in {"SaveOpen", "Handler"}
    BY <1>1, <1>4, MovesKeepIds DEF Open, storeVars
  <2>2. QED BY <1>1, <1>4, <2>1 DEF Open, Effect, Reads, Opens
<1>5. CASE CheckLs(w)
  <2>1. CASE Connected(w) /\ SaveSession(w) /\ Goto(w, "Login") /\ UNCHANGED conn
    <3>1. app[w].ls = app[w].sid /\ app[w].sid \in SessionIds
      BY <1>1, <1>5, <2>1, HandlerAssumption DEF CheckLs, Connected, WorkerOK, AppHandlers
    <3>2. QED BY <1>1, <2>1, <3>1, MovesKeepIds DEF Effect, Saves
  <2>2. CASE Answer(w, "redirect") /\ UNCHANGED <<storeVars, conn>>
    BY <1>1, <2>2, MovesKeepIds DEF Effect, Reads, storeVars
  <2>3. CASE DeleteSession(app[w].sid) /\ AnswerConnect(w)
    BY <1>1, <2>3, MovesKeepIds DEF Effect, Deletes
  <2>4. QED BY <1>5, <2>1, <2>2, <2>3 DEF CheckLs
<1>6. QED BY <1>2, <1>3, <1>4, <1>5

(* What the login and the command itself do to the store. *)
LEMMA CommandEffect ==
  ASSUME TInv, NEW w \in Workers,
         \/ Login(w) \/ Bind(w) \/ RootDSE(w) \/ CheckConn(w)
         \/ Dispatch(w) \/ Reconnect(w) \/ Redispatch(w) \/ SaveEnd(w)
  PROVE  Effect(w)
<1> USE DEF At
<1>1. app[w] \in AppHandlers /\ WorkerOK(pc[w], app[w], got[w]) /\ ControlOK
  BY DEF TInv, ControlOK
<1>2. UNCHANGED <<conn, shown>>
  BY DEF Login, Bind, RootDSE, CheckConn, Dispatch, Reconnect, Redispatch, SaveEnd
<1>3. KeepsIds(w) /\ pc'[w] \in Working \union Ended
  BY <1>1, MovesKeepIds DEF Login, Bind, RootDSE, CheckConn, Dispatch, Reconnect, Redispatch,
     SaveEnd, Unbound, Fails
<1>4. CASE UNCHANGED storeVars
  BY <1>2, <1>3, <1>4 DEF Effect, Reads, storeVars
<1>5. CASE SaveSession(w) /\ (CheckConn(w) \/ SaveEnd(w))
  <2>1. app[w].ls = app[w].sid /\ app[w].sid \in SessionIds
    BY <1>1, <1>5, HandlerAssumption DEF CheckConn, SaveEnd, WorkerOK
  <2>2. QED BY <1>2, <1>3, <1>5, <2>1 DEF Effect, Saves
<1>6. QED
  BY <1>4, <1>5 DEF Login, Bind, RootDSE, CheckConn, Dispatch, Reconnect, Redispatch, SaveEnd

(* What the except clauses of run() do to the store. *)
LEMMA HandlerEffect ==
  ASSUME TInv, NEW w \in Workers, Handler(w) \/ EndRequest(w)
  PROVE  Effect(w)
<1> USE DEF At
<1>1. app[w] \in AppHandlers /\ ControlOK
  BY DEF TInv, ControlOK
<1>2. CASE Handler(w)
  <2>1. UNCHANGED shown
    BY <1>2 DEF Handler
  <2>2. CASE DeleteSession(app[w].sid) /\ AnswerConnect(w)
    BY <1>1, <2>1, <2>2, MovesKeepIds DEF Effect, Deletes
  <2>3. CASE UNCHANGED <<storeVars, conn>> /\ (Goto(w, "Escaped") \/ \E p : Answer(w, p))
    BY <1>1, <2>1, <2>3, MovesKeepIds DEF Effect, Reads, storeVars
  <2>4. QED BY <1>2, <2>2, <2>3 DEF Handler, ShowMessage, HandleServerDown
<1>3. CASE EndRequest(w)
  <2>1. app'[w] = NoApp /\ pc'[w] = "Idle"
    BY <1>1, <1>3 DEF EndRequest, Move, ControlOK
  <2>2. KeepsIds(w)
    BY <2>1 DEF KeepsIds, NoApp
  <2>3. QED BY <1>3, <2>1, <2>2 DEF EndRequest, Store!Forget, Effect, Reads
<1>4. QED BY <1>2, <1>3

(* The other workers stay where they are, with what they have fetched. *)
LEMMA OthersStay ==
  ASSUME TInv, NEW w \in Workers, HandleRequest(w)
  PROVE  Others(w)
<1> USE DEF TInv, TypeOK, ControlOK, Move, Goto, Raise, Answer, AnswerConnect
<1>1. \A u \in Workers \ {w} : pc'[u] = pc[u] /\ app'[u] = app[u]
  BY DEF HandleRequest, Parse, GetSession, UseSession, Disconnect, Delsid, Params, ChooseURI, LookupSRV, WithURI,
     DelSession, NewSession, SaveNew, Open, SaveOpen, CheckLs, Login, Bind, RootDSE, CheckConn,
     Dispatch, Reconnect, Redispatch, SaveEnd, Handler, ShowMessage, HandleServerDown, EndRequest, Unbound, Fails
<1>2. \A u \in Workers \ {w} : got'[u] = got[u]
  <2>1. CASE GetSession(w) \/ EndRequest(w)
    BY <2>1 DEF GetSession, EndRequest, Store!Fetch, Store!Forget, storeVars
  <2>2. CASE NewSession(w)
    BY <2>2 DEF NewSession, Store!Create, storeVars
  <2>3. CASE ~(GetSession(w) \/ EndRequest(w) \/ NewSession(w))
    BY <2>3, DeleteKeepsFetched, SaveKeepsFetched
       DEF HandleRequest, Parse, UseSession, Disconnect, Delsid, Params, ChooseURI, LookupSRV,
           DelSession, SaveNew, Open, SaveOpen, CheckLs, Login, Bind, RootDSE, CheckConn,
           Dispatch, Reconnect, Redispatch, SaveEnd, Handler, HandleServerDown, storeVars
  <2>4. QED BY <2>1, <2>2, <2>3
<1>3. pc' \in [Workers -> Labels] /\ app' \in [Workers -> AppHandlers]
  <2>1. Next
    BY DEF Next
  <2>2. QED BY <2>1, ControlStep
<1>4. QED BY <1>1, <1>2, <1>3 DEF Others

(* Every step of a worker has one of the five effects. *)
LEMMA WorkerEffect ==
  ASSUME TInv, NEW w \in Workers, HandleRequest(w)
  PROVE  Effect(w)
BY FetchEffect, EndEffect, ChooseEffect, ConnectEffect, CommandEffect, HandlerEffect
   DEF HandleRequest, Effect

-----------------------------------------------------------------------------
(* Types of the store and the connections.                                  *)

StoreTypes ==
  /\ status \in [SessionIds -> {"unborn", "live", "gone"}]
  /\ data \in [SessionIds -> SessionIds \union {Created}]
  /\ conn \in [SessionIds -> URIs \union {NoURI}]

(* delete() of the store: the session is not live afterwards, and only its   *)
(* connection is closed.                                                     *)
LEMMA Deleted ==
  ASSUME TInv, NEW s \in SessionIds \union {NoId}, DeleteSession(s)
  PROVE  /\ StoreTypes' /\ OwnData'
         /\ ~Live(s)'
         /\ \A x \in SessionIds : status'[x] = status[x] \/ (x = s /\ status[x] = "live" /\ status'[x] = "gone")
         /\ \A x \in SessionIds : x # s => data'[x] = data[x] /\ conn'[x] = conn[x]
         /\ \A x \in SessionIds :
              conn'[x] = conn[x] \/ (conn'[x] = NoURI /\ status'[x] = "gone")
         /\ s \in SessionIds /\ conn'[s] # NoURI => (conn[s] = conn'[s] /\ data[s] = Created) \/ status[s] # "live"
<1> USE DEF TInv, TypeOK, StoreTypes, OwnData, Live
<1>1. NoId \notin SessionIds /\ Created \notin SessionIds
  BY HandlerAssumption
<1>2. CASE Live(s)
  <2>1. /\ status' = [status EXCEPT ![s] = "gone"] /\ data' = [data EXCEPT ![s] = Created]
        /\ s \in SessionIds
    BY <1>2 DEF DeleteSession, Store!Remove
  <2>2. CASE data[s] = Created
    BY <1>1, <1>2, <2>1, <2>2 DEF DeleteSession
  <2>3. CASE data[s] = s
    <3>1. conn' = [conn EXCEPT ![s] = NoURI]
      BY <1>1, <1>2, <2>1, <2>3 DEF DeleteSession
    <3>2. QED BY <1>1, <2>1, <2>3, <3>1
  <2>4. QED BY <2>1, <2>2, <2>3
<1>3. CASE ~Live(s)
  BY <1>1, <1>3 DEF DeleteSession, storeVars
<1>4. QED BY <1>2, <1>3

(* save() of the store *)
LEMMA Saved ==
  ASSUME TInv, NEW w \in Workers, Saves(w)
  PROVE  /\ StoreTypes' /\ OwnData' /\ UNCHANGED status
         /\ \A x \in SessionIds : data'[x] = data[x] \/ (data'[x] = x /\ x = app[w].sid)
         /\ Live(app[w].sid) => data'[app[w].sid] = app[w].sid
<1> USE DEF TInv, TypeOK, StoreTypes, OwnData, Live
<1>1. app[w].ls = app[w].sid /\ app[w].sid \in SessionIds /\ UNCHANGED conn
  BY DEF Saves
<1>2. CASE Live(app[w].sid)
  <2>1. data' = [data EXCEPT ![app[w].sid] = app[w].sid] /\ UNCHANGED status
    BY <1>1, <1>2 DEF Saves, SaveSession, Store!Save
  <2>2. QED BY <1>1, <1>2, <2>1
<1>3. CASE ~Live(app[w].sid)
  <2>1. UNCHANGED <<status, data>>
    BY <1>3 DEF Saves, SaveSession, storeVars
  <2>2. QED BY <1>1, <1>3, <2>1
<1>4. QED BY <1>2, <1>3

(* new() of the store, and open() of an LDAPSession *)
LEMMA CreatedOrOpened ==
  ASSUME TInv, NEW w \in Workers, Creates(w) \/ Opens(w)
  PROVE  StoreTypes' /\ OwnData'
<1> USE DEF TInv, TypeOK, StoreTypes, OwnData
<1>1. CASE Creates(w)
  BY <1>1, HandlerAssumption DEF Creates, Store!Create
<1>2. CASE Opens(w)
  <2>1. app[w].uri \in URIs \union {NoURI}
    BY DEF ControlOK, AppHandlers
  <2>2. QED BY <1>2, <2>1 DEF Opens
<1>3. QED BY <1>1, <1>2

(* Every step keeps the types, and OwnData. *)
LEMMA TypeStep ==
  ASSUME TInv, [Next]_vars
  PROVE  TInv'
<1>1. ControlOK' /\ pc' \in [Workers -> Labels] /\ app' \in [Workers -> AppHandlers]
  BY ControlStep DEF ControlOK
<1>2. ASSUME UNCHANGED <<status, data, conn>> PROVE StoreTypes' /\ OwnData'
  BY <1>2 DEF TInv, TypeOK, StoreTypes, OwnData
<1>3. StoreTypes' /\ OwnData'
  <2>1. CASE UNCHANGED vars
    BY <1>2, <2>1 DEF vars
  <2>2. CASE Environment
    <3>1. CASE \E s \in SessionIds : ExpireSession(s)
      BY <3>1, Deleted DEF ExpireSession
    <3>2. QED BY <1>2, <2>2, <3>1 DEF Environment, Receive, ServerStops, ServerStarts, storeVars
  <2>3. ASSUME NEW w \in Workers, HandleRequest(w) PROVE StoreTypes' /\ OwnData'
    <3>1. app[w].sid \in SessionIds \union {NoId} /\ app[w].delsid \in SessionIds \union {NoId}
      BY DEF TInv, TypeOK, AppHandlers
    <3>2. CASE Deletes(w)
      BY <3>1, <3>2, Deleted DEF Deletes
    <3>3. QED BY <1>2, <2>3, <3>2, WorkerEffect, Saved, CreatedOrOpened DEF Effect, Reads
  <2>4. QED BY <2>1, <2>2, <2>3 DEF Next
<1>4. got' \in [Workers -> SessionIds \union {Created, NoId}] /\ requests' \in 0..MaxRequests /\ up' \subseteq URIs
  <2>1. CASE UNCHANGED vars
    BY <2>1 DEF vars, TInv, TypeOK
  <2>2. CASE Environment
    <3>1. CASE \E s \in SessionIds : ExpireSession(s)
      BY <3>1, DeleteKeepsFetched DEF ExpireSession, TInv, TypeOK
    <3>2. ASSUME NEW u \in URIs, ServerStops(u) \/ ServerStarts(u)
          PROVE  UNCHANGED <<got, requests>> /\ up' \subseteq URIs
      BY <3>2 DEF ServerStops, ServerStarts, storeVars, TInv, TypeOK
    <3>3. ASSUME NEW w \in Workers, NEW f \in Forms, NEW s \in SessionIds \union {NoId},
                 NEW d \in SessionIds \union {NoId}, Receive(w, f, s, d)
          PROVE  UNCHANGED <<got, up>> /\ requests' \in 0..MaxRequests
      <4>1. UNCHANGED <<got, up>> /\ requests < MaxRequests /\ requests' = requests + 1
        BY <3>3 DEF Receive, storeVars
      <4>2. QED BY <4>1, HandlerAssumption DEF TInv, TypeOK
    <3>4. QED BY <2>2, <3>1, <3>2, <3>3 DEF Environment, TInv, TypeOK
  <2>3. ASSUME NEW w \in Workers, HandleRequest(w)
        PROVE  got' \in [Workers -> SessionIds \union {Created, NoId}] /\ UNCHANGED <<up, requests>>
    <3>1. UNCHANGED <<up, requests>>
      BY <2>3 DEF HandleRequest, Parse, GetSession, UseSession, Disconnect, Delsid, Params, ChooseURI,
         DelSession, NewSession, SaveNew, Open, SaveOpen, CheckLs, Login, Bind, RootDSE, CheckConn,
         Dispatch, Reconnect, Redispatch, SaveEnd, Handler, EndRequest
    <3>2. CASE GetSession(w) \/ EndRequest(w)
      <4>1. app[w].sid # NoId => app[w].sid \in SessionIds
        BY DEF TInv, TypeOK, AppHandlers
      <4>2. QED BY <3>2, <4>1 DEF GetSession, EndRequest, Store!Fetch, Store!Forget, storeVars, Live, TInv, TypeOK
    <3>3. CASE NewSession(w)
      BY <3>3 DEF NewSession, Store!Create, storeVars, TInv, TypeOK
    <3>4. CASE ~(GetSession(w) \/ EndRequest(w) \/ NewSession(w))
      <4>1. UNCHANGED got
        BY <2>3, <3>4, DeleteKeepsFetched, SaveKeepsFetched
           DEF HandleRequest, Parse, UseSession, Disconnect, Delsid, Params, ChooseURI, LookupSRV,
               DelSession, SaveNew, Open, SaveOpen, CheckLs, Login, Bind, RootDSE, CheckConn,
               Dispatch, Reconnect, Redispatch, SaveEnd, Handler, HandleServerDown, storeVars
      <4>2. QED BY <3>1, <4>1 DEF TInv, TypeOK
    <3>5. QED BY <3>1, <3>2, <3>3, <3>4
  <2>4. requests \in 0..MaxRequests /\ up \subseteq URIs
    BY DEF TInv, TypeOK
  <2>5. QED BY <2>1, <2>2, <2>3, <2>4 DEF Next
<1>5. shown' \subseteq SessionIds
  <2>1. CASE UNCHANGED shown
    BY <2>1 DEF TInv, TypeOK
  <2>2. ASSUME NEW w \in Workers, HandleRequest(w) PROVE shown' \subseteq SessionIds
    <3>1. app[w].sid \in SessionIds \union {NoId}
      BY DEF TInv, TypeOK, AppHandlers
    <3>2. QED BY <2>1, <2>2, <3>1, WorkerEffect DEF Effect, Reads, Deletes, Saves, Creates, Opens, TInv, TypeOK
  <2>3. QED BY <2>1, <2>2 DEF Next, Environment, Receive, ServerStops, ServerStarts, ExpireSession, vars
<1>6. QED BY <1>1, <1>3, <1>4, <1>5 DEF TInv, TypeOK, StoreTypes

(* No session, no connection, no request. *)
LEMMA TypeInit == Init => TInv
<1> SUFFICES ASSUME Init PROVE TInv
  OBVIOUS
<1>1. NoApp \in AppHandlers /\ \A g : WorkerOK("Idle", NoApp, g)
  BY DEF NoApp, AppHandlers, WorkerOK
<1>2. QED BY <1>1, HandlerAssumption DEF Init, Store!Init, TInv, TypeOK, ControlOK, OwnData

(* The types, and what each worker finds where it is. *)
LEMMA TypeInvariance == Spec => []TInv
<1>1. QED BY TypeInit, TypeStep, PTL DEF Spec

(* Every variable keeps its type, however many requests share a session. *)
THEOREM TypeCorrect == Spec => []TypeOK
<1>1. TInv => TypeOK
  BY DEF TInv
<1>2. QED BY <1>1, TypeInvariance, PTL

-----------------------------------------------------------------------------
(* The store and the connections.                                           *)

(* Session IDs worker w has from its request or made itself. *)
Knows(w, s) == s \in {app[w].asked, app[w].delsid, app[w].sid, app[w].ls}

(* Only a live session whose LDAPSession was saved is connected. *)
ConnOK == \A s \in SessionIds : conn[s] # NoURI => status[s] = "live" /\ data[s] = s

(* Nobody has the ID of a session that was not made yet. *)
BornOK ==
  \A s \in SessionIds : status[s] = "unborn" =>
    s \notin shown /\ conn[s] = NoURI /\ \A w \in Workers : ~Knows(w, s)

(* Until a new session is open, only the worker that made it has its ID, so *)
(* nobody removes it.                                                       *)
Private(w) ==
  pc[w] \in {"SaveNew", "Open"} =>
    /\ app[w].sid \in SessionIds /\ app[w].ls = app[w].sid
    /\ status[app[w].sid] = "live"
    /\ app[w].sid \notin shown
    /\ pc[w] = "Open" => data[app[w].sid] = app[w].sid
    /\ \A u \in Workers \ {w} : ~Knows(u, app[w].sid)

PrivateOK == \A w \in Workers : Private(w)

StoreInv == TInv /\ ConnOK /\ BornOK /\ PrivateOK

(* The new session of a worker is its own. *)
LEMMA MakersSession ==
  ASSUME TInv, NEW w \in Workers, pc[w] \in {"SaveNew", "Open"}
  PROVE  app[w].sid \in SessionIds /\ app[w].ls = app[w].sid
BY HandlerAssumption DEF TInv, ControlOK, WorkerOK

(* KeepsIds in terms of Knows. *)
LEMMA KnowsLess ==
  ASSUME NEW w \in Workers, KeepsIds(w), NEW s \in SessionIds, Knows(w, s)'
  PROVE  Knows(w, s)
BY HandlerAssumption DEF KeepsIds, Knows

(* Only a live session whose LDAPSession was saved is connected, after      *)
(* delete() as well.                                                        *)
LEMMA DeletedConn ==
  ASSUME TInv, ConnOK, NEW s \in SessionIds \union {NoId}, DeleteSession(s)
  PROVE  ConnOK'
<1>1. ASSUME NEW x \in SessionIds, conn'[x] # NoURI PROVE status'[x] = "live" /\ data'[x] = x
  <2>1. conn[x] # NoURI /\ status[x] = "live" /\ data[x] = x
    BY <1>1, Deleted DEF ConnOK
  <2>2. x # s
    BY <1>1, <2>1, Deleted, HandlerAssumption
  <2>3. QED BY <2>1, <2>2, Deleted
<1>2. QED BY <1>1 DEF ConnOK

(* Nothing that matters here changes. *)
LEMMA StoreSame ==
  ASSUME StoreInv, TInv', UNCHANGED <<status, data, conn, shown, pc, app>>
  PROVE  StoreInv'
BY DEF StoreInv, ConnOK, BornOK, PrivateOK, Private, Knows

(* A request carries session IDs from pages. *)
LEMMA StoreReceive ==
  ASSUME StoreInv, TInv', NEW w \in Workers, NEW f \in Forms, NEW s \in SessionIds \union {NoId},
         NEW d \in SessionIds \union {NoId}, Receive(w, f, s, d)
  PROVE  StoreInv'
<1>1. UNCHANGED <<status, data, conn, shown>> /\ {s, d} \subseteq shown \union {NoId}
  BY DEF Receive, storeVars
<1>2. /\ pc'[w] = "Parse" /\ app'[w] = [NoApp EXCEPT !.form = f, !.asked = s, !.sid = s, !.delsid = d]
      /\ \A u \in Workers \ {w} : pc'[u] = pc[u] /\ app'[u] = app[u]
  BY DEF Receive, Move, StoreInv, TInv, TypeOK
<1>3. \A x \in SessionIds : x \notin shown => ~Knows(w, x)'
  BY <1>1, <1>2, HandlerAssumption DEF Knows, NoApp
<1>4. \A x \in SessionIds : \A u \in Workers \ {w} : Knows(u, x)' = Knows(u, x)
  BY <1>2 DEF Knows
<1>5. ConnOK'
  BY <1>1 DEF StoreInv, ConnOK
<1>6. BornOK'
  BY <1>1, <1>3, <1>4 DEF StoreInv, BornOK
<1>7. ASSUME NEW u \in Workers PROVE Private(u)'
  <2>1. CASE u = w
    BY <1>2, <2>1 DEF Private
  <2>2. CASE u # w
    BY <1>1, <1>2, <1>3, <1>4, <2>2 DEF StoreInv, PrivateOK, Private
  <2>3. QED BY <2>1, <2>2
<1>8. QED BY <1>5, <1>6, <1>7 DEF StoreInv, PrivateOK

(* A session that expires is not a new one. *)
LEMMA StoreExpire ==
  ASSUME StoreInv, TInv', NEW s \in SessionIds, ExpireSession(s)
  PROVE  StoreInv'
<1>1. DeleteSession(s) /\ UNCHANGED <<pc, app, shown>>
  BY DEF ExpireSession
<1>2. ConnOK'
  BY <1>1, DeletedConn DEF StoreInv
<1>3. \A x \in SessionIds : \A u \in Workers : Knows(u, x)' = Knows(u, x)
  BY <1>1 DEF Knows
<1>4. BornOK'
  <2>1. \A x \in SessionIds : status'[x] = "unborn" => status[x] = "unborn"
    BY <1>1, Deleted DEF StoreInv
  <2>2. \A x \in SessionIds : conn'[x] = conn[x] \/ conn'[x] = NoURI
    BY <1>1, Deleted DEF StoreInv
  <2>3. QED BY <1>1, <1>3, <2>1, <2>2 DEF StoreInv, BornOK
<1>5. ASSUME NEW u \in Workers PROVE Private(u)'
  <2>1. CASE pc[u] \in {"SaveNew", "Open"}
    <3>1. Private(u) /\ app[u].sid # s
      BY <2>1 DEF StoreInv, PrivateOK, ExpireSession, InactiveLabels
    <3>2. app[u].sid \in SessionIds
      BY <2>1, <3>1 DEF Private
    <3>3. status'[app[u].sid] = status[app[u].sid] /\ data'[app[u].sid] = data[app[u].sid]
      BY <1>1, <3>1, <3>2, Deleted DEF StoreInv
    <3>4. QED BY <1>1, <1>3, <2>1, <3>1, <3>2, <3>3 DEF Private
  <2>2. CASE pc[u] \notin {"SaveNew", "Open"}
    BY <1>1, <2>2 DEF Private
  <2>3. QED BY <2>1, <2>2
<1>6. QED BY <1>2, <1>4, <1>5 DEF StoreInv, PrivateOK

(* A step of worker w leaves the new sessions of the others alone when they *)
(* keep their status and data, are not shown, and w does not learn their ID.*)
LEMMA PrivateElsewhere ==
  ASSUME StoreInv, NEW w \in Workers, Others(w), NEW u \in Workers, u # w,
         pc[u] \in {"SaveNew", "Open"} =>
           /\ status'[app[u].sid] = "live"
           /\ data'[app[u].sid] \in {data[app[u].sid], app[u].sid}
           /\ app[u].sid \notin shown'
           /\ \A x : x = app[u].sid => ~Knows(w, x)'
  PROVE  Private(u)'
<1>1. pc'[u] = pc[u] /\ app'[u] = app[u] /\ \A v \in Workers \ {w} : app'[v] = app[v]
  BY DEF Others
<1>2. \A x : \A v \in Workers \ {w} : Knows(v, x)' = Knows(v, x)
  BY <1>1 DEF Knows
<1>3. QED BY <1>1, <1>2 DEF StoreInv, PrivateOK, Private

(* StoreInv is kept by what only reads the store, *)
LEMMA StoreReads ==
  ASSUME StoreInv, TInv', NEW w \in Workers, Others(w), Reads(w)
  PROVE  StoreInv'
<1>1. ConnOK'
  BY DEF StoreInv, ConnOK, Reads
<1>2. \A x \in SessionIds : \A v \in Workers : Knows(v, x)' => Knows(v, x)
  BY KnowsLess DEF Reads, Others, Knows
<1>3. \A x \in SessionIds : x \in shown' => x \in shown \/ Knows(w, x)
  BY DEF Reads, Knows
<1>4. BornOK'
  BY <1>2, <1>3 DEF StoreInv, BornOK, Reads
<1>5. ASSUME NEW u \in Workers PROVE Private(u)'
  <2>1. CASE u = w
    BY <2>1 DEF Reads, Private
  <2>2. CASE u # w
    <3>1. pc[u] \in {"SaveNew", "Open"} => app[u].sid \in SessionIds /\ ~Knows(w, app[u].sid)
      BY <2>2 DEF StoreInv, PrivateOK, Private
    <3>2. QED BY <1>2, <1>3, <2>2, <3>1, PrivateElsewhere DEF StoreInv, PrivateOK, Private, Reads
  <2>3. QED BY <2>1, <2>2
<1>6. QED BY <1>1, <1>4, <1>5 DEF StoreInv, PrivateOK

(* by removing a session, *)
LEMMA StoreDeletes ==
  ASSUME StoreInv, TInv', NEW w \in Workers, Others(w), Deletes(w)
  PROVE  StoreInv'
<1>1. PICK s \in {app[w].sid, app[w].delsid} : DeleteSession(s)
  BY DEF Deletes
<1>2. s \in SessionIds \union {NoId} /\ Knows(w, s)
  BY DEF StoreInv, TInv, TypeOK, AppHandlers, Knows
<1>3. ConnOK'
  BY <1>1, <1>2, DeletedConn DEF StoreInv
<1>4. \A x \in SessionIds : \A v \in Workers : Knows(v, x)' => Knows(v, x)
  BY KnowsLess DEF Deletes, Others, Knows
<1>5. BornOK'
  <2>1. \A x \in SessionIds : status'[x] = "unborn" => status[x] = "unborn"
    BY <1>1, <1>2, Deleted DEF StoreInv
  <2>2. \A x \in SessionIds : conn'[x] = conn[x] \/ conn'[x] = NoURI
    BY <1>1, <1>2, Deleted DEF StoreInv
  <2>3. QED BY <1>4, <2>1, <2>2 DEF StoreInv, BornOK, Deletes
<1>6. ASSUME NEW u \in Workers PROVE Private(u)'
  <2>1. CASE u = w
    BY <2>1 DEF Deletes, Private
  <2>2. CASE u # w /\ pc[u] \in {"SaveNew", "Open"}
    <3>1. app[u].sid \in SessionIds /\ ~Knows(w, app[u].sid) /\ status[app[u].sid] = "live"
          /\ app[u].sid \notin shown
      BY <2>2 DEF StoreInv, PrivateOK, Private
    <3>2. app[u].sid # s
      BY <1>2, <3>1
    <3>3. status'[app[u].sid] = "live" /\ data'[app[u].sid] = data[app[u].sid]
      BY <1>1, <1>2, <3>1, <3>2, Deleted DEF StoreInv
    <3>4. QED BY <1>4, <2>2, <3>1, <3>3, PrivateElsewhere DEF Deletes
  <2>3. CASE u # w /\ pc[u] \notin {"SaveNew", "Open"}
    BY <2>3, PrivateElsewhere
  <2>4. QED BY <2>1, <2>2, <2>3
<1>7. QED BY <1>3, <1>5, <1>6 DEF StoreInv, PrivateOK

(* by saving one, *)
LEMMA StoreSaves ==
  ASSUME StoreInv, TInv', NEW w \in Workers, Others(w), Saves(w)
  PROVE  StoreInv'
<1>1. /\ UNCHANGED <<status, conn, shown>>
      /\ \A x \in SessionIds : data'[x] \in {data[x], x}
  BY Saved DEF StoreInv, Saves
<1>2. \A x \in SessionIds : \A v \in Workers : Knows(v, x)' => Knows(v, x)
  BY KnowsLess DEF Saves, Others, Knows
<1>3. ConnOK'
  BY <1>1 DEF StoreInv, ConnOK
<1>4. BornOK'
  BY <1>1, <1>2 DEF StoreInv, BornOK
<1>5. ASSUME NEW u \in Workers PROVE Private(u)'
  <2>1. CASE u = w /\ pc'[w] = "Open"
    <3>1. Private(w) /\ pc[w] = "SaveNew"
      BY <2>1 DEF StoreInv, PrivateOK, Saves
    <3>2. app'[w].sid \in SessionIds /\ app'[w].ls = app'[w].sid
      BY <2>1, HandlerAssumption DEF TInv, ControlOK, WorkerOK
    <3>3. app'[w].sid = app[w].sid
      BY <3>2, HandlerAssumption DEF Saves, KeepsIds
    <3>4. Live(app[w].sid) /\ app[w].sid \notin shown /\ \A v \in Workers \ {w} : ~Knows(v, app[w].sid)
      BY <3>1, <3>2, <3>3, HandlerAssumption DEF Private, Live
    <3>5. data'[app[w].sid] = app[w].sid
      BY <3>4, Saved DEF StoreInv
    <3>6. status'[app[w].sid] = "live"
      BY <1>1, <3>4 DEF Live
    <3>7. \A v \in Workers \ {w} : \A x : x = app[w].sid => ~Knows(v, x)'
      BY <1>2, <3>2, <3>3, <3>4
    <3>8. QED BY <1>1, <2>1, <3>2, <3>3, <3>4, <3>5, <3>6, <3>7 DEF Private
  <2>2. CASE u = w /\ pc'[w] # "Open"
    BY <2>2 DEF Saves, Private
  <2>3. CASE u # w /\ pc[u] \in {"SaveNew", "Open"}
    <3>1. app[u].sid \in SessionIds /\ ~Knows(w, app[u].sid) /\ status[app[u].sid] = "live"
          /\ app[u].sid \notin shown
      BY <2>3 DEF StoreInv, PrivateOK, Private
    <3>2. QED BY <1>1, <1>2, <2>3, <3>1, PrivateElsewhere
  <2>4. CASE u # w /\ pc[u] \notin {"SaveNew", "Open"}
    BY <2>4, PrivateElsewhere
  <2>5. QED BY <2>1, <2>2, <2>3, <2>4
<1>6. QED BY <1>3, <1>4, <1>5 DEF StoreInv, PrivateOK

(* by making one, *)
LEMMA StoreCreates ==
  ASSUME StoreInv, TInv', NEW w \in Workers, Others(w), Creates(w)
  PROVE  StoreInv'
<1>1. PICK s \in SessionIds : Store!Create(s) /\ app'[w] = [app[w] EXCEPT !.sid = s, !.ls = s]
  BY DEF Creates
<1>2. app[w] \in AppHandlers
  BY DEF StoreInv, TInv, TypeOK
<1>3. app'[w].sid = s /\ app'[w].ls = s /\ \A x : Knows(w, x)' => x = s \/ Knows(w, x)
  BY <1>1, <1>2 DEF AppHandlers, Knows
<1>4. /\ UNCHANGED <<data, conn, shown>> /\ status[s] = "unborn" /\ status'[s] = "live"
      /\ \A x \in SessionIds \ {s} : status'[x] = status[x]
  BY <1>1 DEF Creates, Store!Create, StoreInv, TInv, TypeOK
<1>5. s \notin shown /\ conn[s] = NoURI /\ \A v \in Workers : ~Knows(v, s)
  BY <1>4 DEF StoreInv, BornOK
<1>6. \A v \in Workers \ {w} : \A x : Knows(v, x)' = Knows(v, x)
  BY DEF Others, Knows
<1>7. ConnOK'
  BY <1>4, <1>5 DEF StoreInv, ConnOK
<1>8. ASSUME NEW x \in SessionIds, status'[x] = "unborn"
      PROVE  x \notin shown' /\ conn'[x] = NoURI /\ \A v \in Workers : ~Knows(v, x)'
  <2>1. x # s /\ status[x] = "unborn"
    BY <1>4, <1>8
  <2>2. x \notin shown /\ conn[x] = NoURI /\ \A v \in Workers : ~Knows(v, x)
    BY <2>1 DEF StoreInv, BornOK
  <2>3. ~Knows(w, x)' /\ \A v \in Workers \ {w} : ~Knows(v, x)'
    BY <1>3, <1>6, <2>1, <2>2
  <2>4. QED BY <1>4, <2>2, <2>3
<1>9. ASSUME NEW u \in Workers PROVE Private(u)'
  <2>1. CASE u = w
    <3>1. pc'[w] # "Open"
      BY DEF Creates
    <3>2. \A v \in Workers \ {w} : ~Knows(v, s)'
      BY <1>5, <1>6
    <3>3. QED BY <1>3, <1>4, <1>5, <2>1, <3>1, <3>2 DEF Private
  <2>2. CASE u # w /\ pc[u] \in {"SaveNew", "Open"}
    <3>1. app[u].sid \in SessionIds /\ ~Knows(w, app[u].sid) /\ status[app[u].sid] = "live"
          /\ app[u].sid \notin shown
      BY <2>2 DEF StoreInv, PrivateOK, Private
    <3>2. app[u].sid # s
      BY <1>4, <3>1
    <3>3. QED BY <1>3, <1>4, <2>2, <3>1, <3>2, PrivateElsewhere
  <2>3. CASE u # w /\ pc[u] \notin {"SaveNew", "Open"}
    BY <2>3, PrivateElsewhere
  <2>4. QED BY <2>1, <2>2, <2>3
<1>10. BornOK'
  BY <1>8 DEF BornOK
<1>11. QED BY <1>7, <1>9, <1>10 DEF StoreInv, PrivateOK

(* and by opening the connection of one. *)
LEMMA StoreOpens ==
  ASSUME StoreInv, TInv', NEW w \in Workers, Others(w), Opens(w)
  PROVE  StoreInv'
<1>1. /\ app[w].sid \in SessionIds /\ app[w].ls = app[w].sid
      /\ status[app[w].sid] = "live" /\ data[app[w].sid] = app[w].sid
  BY DEF StoreInv, PrivateOK, Private, Opens
<1>2. /\ UNCHANGED <<status, data, shown>>
      /\ \A x \in SessionIds : x # app[w].sid => conn'[x] = conn[x]
  BY <1>1 DEF Opens, StoreInv, TInv, TypeOK
<1>3. ConnOK'
  BY <1>1, <1>2 DEF StoreInv, ConnOK
<1>4. \A x \in SessionIds : \A v \in Workers : Knows(v, x)' => Knows(v, x)
  BY KnowsLess DEF Opens, Others, Knows
<1>5. BornOK'
  BY <1>1, <1>2, <1>4 DEF StoreInv, BornOK
<1>6. ASSUME NEW u \in Workers PROVE Private(u)'
  <2>1. CASE u = w
    BY <2>1 DEF Opens, Private
  <2>2. CASE u # w /\ pc[u] \in {"SaveNew", "Open"}
    <3>1. app[u].sid \in SessionIds /\ ~Knows(w, app[u].sid) /\ status[app[u].sid] = "live"
          /\ app[u].sid \notin shown
      BY <2>2 DEF StoreInv, PrivateOK, Private
    <3>2. QED BY <1>2, <1>4, <2>2, <3>1, PrivateElsewhere
  <2>3. CASE u # w /\ pc[u] \notin {"SaveNew", "Open"}
    BY <2>3, PrivateElsewhere
  <2>4. QED BY <2>1, <2>2, <2>3
<1>7. QED BY <1>3, <1>5, <1>6 DEF StoreInv, PrivateOK

(* Every step keeps what the store and the connections say of each other.   *)
LEMMA StoreStep ==
  ASSUME StoreInv, [Next]_vars
  PROVE  StoreInv'
<1>1. TInv /\ TInv'
  BY TypeStep DEF StoreInv
<1>2. CASE UNCHANGED vars
  BY <1>1, <1>2, StoreSame DEF vars
<1>3. CASE Environment
  <2>1. CASE \E u \in URIs : ServerStops(u) \/ ServerStarts(u)
    BY <1>1, <2>1, StoreSame DEF ServerStops, ServerStarts, storeVars
  <2>2. QED BY <1>1, <1>3, <2>1, StoreExpire, StoreReceive DEF Environment
<1>4. ASSUME NEW w \in Workers, HandleRequest(w) PROVE StoreInv'
  <2>1. Others(w) /\ Effect(w)
    BY <1>1, <1>4, OthersStay, WorkerEffect
  <2>2. QED BY <1>1, <2>1, StoreReads, StoreDeletes, StoreSaves, StoreCreates, StoreOpens DEF Effect
<1>5. QED BY <1>2, <1>3, <1>4 DEF Next

(* There are no sessions at first. *)
LEMMA StoreInit == Init => StoreInv
<1> SUFFICES ASSUME Init PROVE StoreInv
  OBVIOUS
<1>1. TInv
  BY TypeInit
<1>2. \A w \in Workers : app[w] = NoApp /\ pc[w] = "Idle"
  BY DEF Init
<1>3. ConnOK /\ PrivateOK
  BY <1>2 DEF Init, ConnOK, PrivateOK, Private
<1>4. BornOK
  BY <1>2, HandlerAssumption DEF Init, BornOK, Knows, NoApp
<1>5. QED BY <1>1, <1>3, <1>4 DEF StoreInv

(* The sessions a worker knows, and their connections. *)
LEMMA StoreInvariance == Spec => []StoreInv
<1>1. QED BY StoreInit, StoreStep, PTL DEF Spec

(* No connection stays open that no session leads to: a session that is     *)
(* removed, by any of the requests that share it or by expiry, takes its    *)
(* connection with it (Session.delete(), _del_session()).                   *)
THEOREM ConnectionsInSessions == Spec => []NoConnectionLeak
<1>1. StoreInv => NoConnectionLeak
  BY DEF StoreInv, ConnOK, NoConnectionLeak
<1>2. QED BY <1>1, StoreInvariance, PTL

-----------------------------------------------------------------------------
(* What a worker knows of its own session.                                  *)

(* During a command the session is connected, or it was removed; nothing    *)
(* else makes an attribute of the connection disappear.                     *)
Lost(w) ==
  /\ pc[w] \in Working => conn[app[w].ls] # NoURI \/ status[app[w].ls] = "gone"
  /\ app[w].exc = "AttributeError" /\ app[w].ls # NoId => status[app[w].ls] = "gone"

(* From the choice of the connection on it is the one the request names.    *)
Named(w) ==
  pc[w] \in Working \union {"SaveOpen", "CheckLs"} /\ app[w].form.url \in URIs /\ Connected(w)
    => conn[app[w].ls] = app[w].form.url

Superseded(w) == pc[w] = "Params" \/ app[w].dn => ~Live(app[w].delsid)

(* A request leaves its session only when that session is removed.          *)
Asked(w) ==
  /\ app[w].sid # app[w].asked => ~Live(app[w].asked)
  /\ pc[w] = "Done" /\ app[w].answer = "connect" /\ app[w].ls # NoId
       => ~Live(app[w].asked) /\ ~Live(app[w].ls)

Request(w) == Lost(w) /\ Named(w) /\ Superseded(w) /\ Asked(w)

RequestInv == StoreInv /\ \A w \in Workers : Request(w)

(* The life of a session has one direction. *)
LEMMA StatusMoves ==
  ASSUME StoreInv, [Next]_vars, NEW s \in SessionIds
  PROVE  \/ status'[s] = status[s]
         \/ status[s] = "unborn" /\ status'[s] = "live"
         \/ status[s] = "live" /\ status'[s] = "gone"
<1>1. TInv
  BY DEF StoreInv
<1>2. CASE UNCHANGED status
  BY <1>2
<1>3. CASE Environment
  <2>1. CASE \E x \in SessionIds : ExpireSession(x)
    BY <1>1, <2>1, Deleted DEF ExpireSession
  <2>2. QED BY <1>2, <1>3, <2>1 DEF Environment, Receive, ServerStops, ServerStarts, storeVars
<1>4. ASSUME NEW w \in Workers, HandleRequest(w)
      PROVE  \/ status'[s] = status[s]
             \/ status[s] = "unborn" /\ status'[s] = "live"
             \/ status[s] = "live" /\ status'[s] = "gone"
  <2>1. CASE Deletes(w)
    <3>1. app[w].sid \in SessionIds \union {NoId} /\ app[w].delsid \in SessionIds \union {NoId}
      BY <1>1 DEF TInv, TypeOK, AppHandlers
    <3>2. QED BY <1>1, <2>1, <3>1, Deleted DEF Deletes
  <2>2. CASE Creates(w)
    BY <1>1, <2>2 DEF Creates, Store!Create, TInv, TypeOK
  <2>3. QED BY <1>1, <1>2, <1>4, <2>1, <2>2, WorkerEffect, Saved DEF Effect, Reads, Opens
<1>5. QED BY <1>2, <1>3, <1>4 DEF Next, vars

(* A session a worker has the ID of is not live again once it is not. *)
LEMMA DeadStays ==
  ASSUME StoreInv, [Next]_vars, NEW w \in Workers, NEW s \in SessionIds \union {NoId},
         s \in SessionIds => Knows(w, s), ~Live(s)
  PROVE  ~Live(s)'
<1>1. s \in SessionIds => status[s] = "gone"
  BY HandlerAssumption DEF StoreInv, BornOK, Live, TInv, TypeOK
<1>2. CASE s \in SessionIds
  BY <1>1, <1>2, StatusMoves DEF Live
<1>3. CASE s = NoId
  BY <1>3 DEF Live
<1>4. QED BY <1>2, <1>3

(* The connection of a session changes when the session is removed, or when *)
(* the worker that made it opens it.                                        *)
LEMMA ConnMoves ==
  ASSUME StoreInv, [Next]_vars, NEW s \in SessionIds
  PROVE  \/ conn'[s] = conn[s]
         \/ conn'[s] = NoURI /\ status'[s] = "gone"
         \/ \E w \in Workers : HandleRequest(w) /\ pc[w] = "Open" /\ app[w].sid = s
<1>1. TInv
  BY DEF StoreInv
<1>2. CASE UNCHANGED conn
  BY <1>2
<1>3. CASE Environment
  <2>1. CASE \E x \in SessionIds : ExpireSession(x)
    BY <1>1, <2>1, Deleted DEF ExpireSession
  <2>2. QED BY <1>2, <1>3, <2>1 DEF Environment, Receive, ServerStops, ServerStarts
<1>4. ASSUME NEW w \in Workers, HandleRequest(w)
      PROVE  \/ conn'[s] = conn[s]
             \/ conn'[s] = NoURI /\ status'[s] = "gone"
             \/ pc[w] = "Open" /\ app[w].sid = s
  <2>1. CASE Deletes(w)
    <3>1. app[w].sid \in SessionIds \union {NoId} /\ app[w].delsid \in SessionIds \union {NoId}
      BY <1>1 DEF TInv, TypeOK, AppHandlers
    <3>2. QED BY <1>1, <2>1, <3>1, Deleted DEF Deletes
  <2>2. CASE Opens(w)
    <3>1. app[w].ls = app[w].sid
      BY <1>1, <2>2, MakersSession DEF Opens
    <3>2. QED BY <1>1, <2>2, <3>1 DEF Opens, TInv, TypeOK
  <2>3. QED BY <1>1, <1>2, <1>4, <2>1, <2>2, WorkerEffect DEF Effect, Reads, Saves, Creates
<1>5. QED BY <1>2, <1>3, <1>4 DEF Next, vars

(* A worker that does not move keeps what it knows: others may remove its   *)
(* session, but not connect it elsewhere.                                   *)
LEMMA Bystander ==
  ASSUME RequestInv, [Next]_vars, NEW u \in Workers, pc'[u] = pc[u], app'[u] = app[u],
         ~HandleRequest(u)
  PROVE  Request(u)'
<1>1. StoreInv /\ Request(u) /\ app[u] \in AppHandlers
  BY DEF RequestInv, StoreInv, TInv, TypeOK
<1>2. \A s \in {app[u].asked, app[u].delsid, app[u].ls} : ~Live(s) => ~Live(s)'
  BY <1>1, DeadStays DEF Knows, AppHandlers
<1>3. app[u].ls \in SessionIds =>
        /\ status[app[u].ls] = "gone" => status'[app[u].ls] = "gone"
        /\ conn'[app[u].ls] = conn[app[u].ls] \/ (conn'[app[u].ls] = NoURI /\ status'[app[u].ls] = "gone")
  <2>1. SUFFICES ASSUME app[u].ls \in SessionIds
                 PROVE  /\ status[app[u].ls] = "gone" => status'[app[u].ls] = "gone"
                        /\ \/ conn'[app[u].ls] = conn[app[u].ls]
                           \/ conn'[app[u].ls] = NoURI /\ status'[app[u].ls] = "gone"
    OBVIOUS
  <2>2. \A w \in Workers : HandleRequest(w) /\ pc[w] = "Open" => app[w].sid # app[u].ls
    BY <1>1 DEF StoreInv, PrivateOK, Private, Knows
  <2>3. QED BY <1>1, <2>1, <2>2, StatusMoves, ConnMoves
<1>4. app[u].ls = NoId \/ app[u].ls \in SessionIds
  BY <1>1 DEF AppHandlers
<1>5. Lost(u)'
  <2>1. pc[u] \in Working => app[u].ls \in SessionIds
    BY <1>1 DEF StoreInv, TInv, ControlOK, WorkerOK
  <2>2. QED BY <1>1, <1>3, <1>4, <2>1 DEF Request, Lost
<1>6. Named(u)'
  BY <1>1, <1>3, <1>4 DEF Request, Named, Connected
<1>7. Superseded(u)'
  BY <1>1, <1>2 DEF Request, Superseded, Live
<1>8. Asked(u)'
  BY <1>1, <1>2 DEF Request, Asked, Live
<1>9. QED BY <1>5, <1>6, <1>7, <1>8 DEF Request

(* What a worker keeps when it moves on: all but uri, exc and answer.       *)
Same(w) ==
  /\ app'[w].form = app[w].form /\ app'[w].asked = app[w].asked
  /\ app'[w].delsid = app[w].delsid /\ app'[w].sid = app[w].sid
  /\ app'[w].ls = app[w].ls /\ app'[w].dn = app[w].dn

(* The same for a page that leaves the session. *)
Left(w) ==
  /\ app'[w].form = app[w].form /\ app'[w].asked = app[w].asked
  /\ app'[w].delsid = app[w].delsid /\ app'[w].sid = NoId
  /\ app'[w].ls = app[w].ls /\ app'[w].dn = app[w].dn

(* The ways a step can go on, and what they leave of the AppHandler. *)
LEMMA Moves ==
  ASSUME ControlOK, NEW w \in Workers
  PROVE  /\ \A c : Goto(w, c) => pc'[w] = c /\ app'[w] = app[w]
         /\ \A x : Raise(w, x) =>
              /\ pc'[w] = "Handler" /\ Same(w)
              /\ app'[w].exc = x /\ app'[w].answer = app[w].answer
         /\ \A p : Answer(w, p) =>
              /\ pc'[w] = "Done" /\ Same(w)
              /\ app'[w].exc = app[w].exc /\ app'[w].answer = p
         /\ AnswerConnect(w) =>
              /\ pc'[w] = "Done" /\ Left(w)
              /\ app'[w].exc = app[w].exc /\ app'[w].answer = "connect"
         /\ \A u : WithURI(w, u) =>
              /\ pc'[w] \in {"DelSession", "CheckLs"}
              /\ Same(w) /\ app'[w].exc = app[w].exc /\ app'[w].answer = app[w].answer
<1> USE DEF ControlOK
<1>1. \A c, a : Move(w, c, a) => pc'[w] = c /\ app'[w] = a
  BY DEF Move
<1>2. \A c : Goto(w, c) => pc'[w] = c /\ app'[w] = app[w]
  BY DEF Goto
<1>3. ASSUME NEW x, Raise(w, x)
      PROVE  /\ pc'[w] = "Handler" /\ Same(w)
             /\ app'[w].exc = x /\ app'[w].answer = app[w].answer
  <2>1. app'[w] = [app[w] EXCEPT !.exc = x] /\ pc'[w] = "Handler"
    BY <1>1, <1>3 DEF Raise
  <2>2. QED BY <2>1 DEF Same, AppHandlers
<1>4. ASSUME NEW p, Answer(w, p)
      PROVE  /\ pc'[w] = "Done" /\ Same(w)
             /\ app'[w].exc = app[w].exc /\ app'[w].answer = p
  <2>1. app'[w] = [app[w] EXCEPT !.answer = p] /\ pc'[w] = "Done"
    BY <1>1, <1>4 DEF Answer
  <2>2. QED BY <2>1 DEF Same, AppHandlers
<1>5. ASSUME AnswerConnect(w)
      PROVE  /\ pc'[w] = "Done" /\ Left(w)
             /\ app'[w].exc = app[w].exc /\ app'[w].answer = "connect"
  <2>1. app'[w] = [app[w] EXCEPT !.sid = NoId, !.answer = "connect"] /\ pc'[w] = "Done"
    BY <1>1, <1>5 DEF AnswerConnect
  <2>2. QED BY <2>1 DEF Left, AppHandlers
<1>6. ASSUME NEW u, WithURI(w, u)
      PROVE  /\ pc'[w] \in {"DelSession", "CheckLs"}
             /\ Same(w) /\ app'[w].exc = app[w].exc /\ app'[w].answer = app[w].answer
  <2>1. /\ app'[w] = [app[w] EXCEPT !.uri = u]
        /\ pc'[w] \in {"DelSession", "CheckLs"}
    BY <1>1, <1>6 DEF WithURI
  <2>2. QED BY <2>1 DEF Same, AppHandlers
<1>7. QED BY <1>2, <1>3, <1>4, <1>5, <1>6

(* Saving a session neither makes nor removes one. *)
LEMMA SaveKeepsStatus ==
  ASSUME NEW w, SaveSession(w)
  PROVE  UNCHANGED status
BY DEF SaveSession, Store!Save, storeVars

(* A command starts on a connection, and does not close it. *)
LEMMA WorkingTurn ==
  ASSUME ControlOK, NEW w \in Workers, HandleRequest(w), pc'[w] \in Working
  PROVE  /\ UNCHANGED <<status, conn>> /\ app'[w] = app[w]
         /\ pc[w] \in Working \/ (pc[w] = "CheckLs" /\ Connected(w))
<1> USE DEF At
<1>1. ~(Parse(w) \/ GetSession(w) \/ UseSession(w) \/ Disconnect(w) \/ Delsid(w) \/ Params(w))
  BY Moves DEF Move, ControlOK, Parse, GetSession, AfterSession, UseSession, Disconnect, Delsid, Params
<1>2. ~(ChooseURI(w) \/ SaveNew(w) \/ Open(w) \/ SaveOpen(w)) /\ ~(DelSession(w) \/ NewSession(w))
  <2>1. ~(ChooseURI(w) \/ SaveNew(w) \/ Open(w) \/ SaveOpen(w))
    BY Moves DEF ChooseURI, LookupSRV, SaveNew, Open, SaveOpen
  <2>2. ~(DelSession(w) \/ NewSession(w))
    BY DEF Move, Raise, ControlOK, DelSession, NewSession
  <2>3. QED BY <2>1, <2>2
<1>3. ~(Handler(w) \/ EndRequest(w))
  BY Moves DEF Move, ControlOK, Handler, ShowMessage, HandleServerDown, EndRequest
<1>4. CASE CheckLs(w)
  BY <1>4, Moves, SaveKeepsStatus DEF CheckLs
<1>5. CASE Login(w) \/ CheckConn(w) \/ SaveEnd(w)
  BY <1>5, Moves, SaveKeepsStatus DEF Login, CheckConn, SaveEnd, storeVars
<1>6. CASE Bind(w) \/ RootDSE(w) \/ Dispatch(w) \/ Reconnect(w) \/ Redispatch(w)
  BY <1>6, Moves DEF Bind, RootDSE, Dispatch, Reconnect, Redispatch, Unbound, Fails, storeVars
<1>7. QED BY <1>1, <1>2, <1>3, <1>4, <1>5, <1>6 DEF HandleRequest

(* Why a request misses an attribute of its session. *)
LEMMA AttributeTurn ==
  ASSUME ControlOK, NEW w \in Workers, HandleRequest(w), app'[w].exc = "AttributeError"
  PROVE  \/ app'[w].ls = NoId
         \/ /\ pc[w] \in Working /\ ~Connected(w)
            /\ app'[w].ls = app[w].ls /\ UNCHANGED <<status, conn>>
         \/ app[w].exc = "AttributeError" /\ app'[w].ls = app[w].ls
<1> USE DEF At
<1>1. app[w] \in AppHandlers
  BY DEF ControlOK
<1>2. CASE Parse(w) \/ GetSession(w) \/ Delsid(w) \/ Disconnect(w)
  <2>1. CASE app'[w] = [app[w] EXCEPT !.sid = NoId, !.answer = "redirect"]
    BY <1>1, <2>1 DEF AppHandlers
  <2>2. QED BY <1>2, <2>1, Moves DEF Move, ControlOK, Parse, GetSession, AfterSession, Delsid, Disconnect, Same
<1>3. CASE UseSession(w) \/ Params(w)
  <2>1. CASE Raise(w, "SessionException") \/ Raise(w, "ErrorExit")
    BY <2>1, Moves
  <2>2. CASE Params(w) /\ app'[w] = [app[w] EXCEPT !.dn = TRUE]
    BY <1>1, <2>2 DEF AppHandlers
  <2>3. CASE UseSession(w) /\ app'[w] = [app[w] EXCEPT !.ls = got[w]]
    <3>1. app[w].exc = "AttributeError"
      BY <1>1, <2>3 DEF AppHandlers
    <3>2. FALSE
      BY <2>3, <3>1 DEF UseSession, ControlOK, WorkerOK
    <3>3. QED BY <3>2
  <2>4. CASE UseSession(w) /\ Move(w, AfterSession(w), [app[w] EXCEPT !.ls = got[w]])
    BY <2>3, <2>4 DEF Move, ControlOK
  <2>5. CASE Params(w) /\ Move(w, "ChooseURI", [app[w] EXCEPT !.dn = TRUE])
    BY <2>2, <2>5 DEF Move, ControlOK
  <2>6. QED BY <1>3, <2>1, <2>4, <2>5 DEF UseSession, Params
<1>4. ASSUME AnswerConnect(w) PROVE app'[w].exc = app[w].exc /\ app'[w].ls = app[w].ls
  BY <1>4, Moves DEF Left
<1>5. CASE ChooseURI(w) \/ CheckLs(w) \/ Handler(w)
  BY <1>4, <1>5, Moves DEF ChooseURI, LookupSRV, CheckLs, Handler, ShowMessage, HandleServerDown, Same
<1>6. CASE DelSession(w) \/ NewSession(w)
  <2>1. CASE app'[w] = [app[w] EXCEPT !.sid = NoId, !.ls = NoId]
    BY <1>1, <2>1 DEF AppHandlers
  <2>2. CASE \E s \in SessionIds : app'[w] = [app[w] EXCEPT !.sid = s, !.ls = s]
    <3>1. app[w].exc = "AttributeError"
      BY <1>1, <2>2 DEF AppHandlers
    <3>2. FALSE
      BY <1>6, <3>1 DEF DelSession, NewSession, ControlOK, WorkerOK
    <3>3. QED BY <3>2
  <2>3. CASE Raise(w, "MaxSessions")
    BY <2>3, Moves
  <2>4. QED BY <1>6, <2>1, <2>2, <2>3 DEF Move, ControlOK, DelSession, NewSession
<1>7. CASE SaveNew(w) \/ Open(w) \/ SaveOpen(w) \/ Login(w) \/ CheckConn(w) \/ SaveEnd(w)
  BY <1>7, Moves DEF SaveNew, Open, SaveOpen, Login, CheckConn, SaveEnd, Same
<1>8. CASE Bind(w) \/ RootDSE(w) \/ Dispatch(w) \/ Reconnect(w) \/ Redispatch(w)
  BY <1>8, Moves DEF Bind, RootDSE, Dispatch, Reconnect, Redispatch, Unbound, Fails, Same, CommandErrors, storeVars
<1>9. CASE EndRequest(w)
  BY <1>9, Moves DEF Move, ControlOK, EndRequest, NoApp
<1>10. QED BY <1>2, <1>3, <1>5, <1>6, <1>7, <1>8, <1>9 DEF HandleRequest

(* A worker's own step keeps what it knows of a lost connection, *)
LEMMA LostOwn ==
  ASSUME RequestInv, [Next]_vars, NEW w \in Workers, HandleRequest(w)
  PROVE  Lost(w)'
<1>1. /\ StoreInv /\ Lost(w) /\ ControlOK /\ WorkerOK(pc[w], app[w], got[w])
      /\ app[w] \in AppHandlers
  BY DEF RequestInv, Request, StoreInv, TInv, ControlOK
<1>2. pc[w] \in Working => app[w].ls \in SessionIds /\ app[w].ls # NoId
  BY <1>1, HandlerAssumption DEF WorkerOK
<1>3. pc'[w] \in Working => conn'[app'[w].ls] # NoURI \/ status'[app'[w].ls] = "gone"
  BY <1>1, WorkingTurn DEF Lost, Connected
<1>4. ASSUME app'[w].exc = "AttributeError", app'[w].ls # NoId PROVE status'[app'[w].ls] = "gone"
  <2>1. CASE pc[w] \in Working /\ ~Connected(w) /\ app'[w].ls = app[w].ls /\ UNCHANGED <<status, conn>>
    BY <1>1, <1>2, <2>1 DEF Lost, Connected
  <2>2. CASE app[w].exc = "AttributeError" /\ app'[w].ls = app[w].ls
    <3>1. status[app[w].ls] = "gone" /\ app[w].ls \in SessionIds
      BY <1>1, <1>4, <2>2 DEF Lost, AppHandlers
    <3>2. QED BY <1>1, <2>2, <3>1, StatusMoves
  <2>3. QED BY <1>1, <1>4, <2>1, <2>2, AttributeTurn
<1>5. QED BY <1>3, <1>4 DEF Lost

(* How a request comes to a connection. *)
LEMMA ConnectTurn ==
  ASSUME ControlOK, NEW w \in Workers, HandleRequest(w), pc'[w] \in {"SaveOpen", "CheckLs"}
  PROVE  \/ pc[w] = "Open" /\ app'[w] = app[w] /\ conn' = [conn EXCEPT ![app[w].ls] = app[w].uri]
         \/ pc[w] = "SaveOpen" /\ app'[w] = app[w] /\ UNCHANGED conn
         \/ /\ pc[w] = "ChooseURI" /\ Same(w) /\ UNCHANGED conn
            /\ app[w].form.url \in URIs => ~NeedsNewSession(w, app[w].form.url)
<1> USE DEF At
<1>1. ~(Parse(w) \/ GetSession(w) \/ UseSession(w) \/ Disconnect(w) \/ Delsid(w) \/ Params(w))
  BY Moves DEF Move, ControlOK, Parse, GetSession, AfterSession, UseSession, Disconnect, Delsid, Params
<1>2. ~(DelSession(w) \/ NewSession(w)) /\ ~(Handler(w) \/ EndRequest(w))
  <2>1. ~(DelSession(w) \/ NewSession(w))
    BY DEF Move, Raise, ControlOK, DelSession, NewSession
  <2>2. ~(Handler(w) \/ EndRequest(w))
    BY Moves DEF Move, ControlOK, Handler, ShowMessage, HandleServerDown, EndRequest
  <2>3. QED BY <2>1, <2>2
<1>3. ~(SaveNew(w) \/ CheckLs(w) \/ Login(w) \/ Bind(w) \/ RootDSE(w) \/ CheckConn(w))
  BY Moves DEF SaveNew, CheckLs, Login, Bind, RootDSE, CheckConn, Unbound, Fails
<1>4. ~(Dispatch(w) \/ Reconnect(w) \/ Redispatch(w) \/ SaveEnd(w))
  BY Moves DEF Dispatch, Reconnect, Redispatch, SaveEnd, Unbound, Fails
<1>5. CASE Open(w) \/ SaveOpen(w)
  BY <1>5, Moves DEF Open, SaveOpen
<1>6. CASE ChooseURI(w)
  <2>1. app[w].form.url \in URIs => app[w].form.url # "nohost" /\ app[w].form.url # "none"
    BY HandlerAssumption
  <2>2. Same(w) /\ UNCHANGED conn
    BY <1>6, Moves DEF ChooseURI, LookupSRV
  <2>3. ASSUME app[w].form.url \in URIs PROVE ~NeedsNewSession(w, app[w].form.url)
    <3>1. WithURI(w, app[w].form.url)
      BY <1>6, <2>1, <2>3 DEF ChooseURI
    <3>2. NeedsNewSession(w, app[w].form.url) => pc'[w] = "DelSession"
      BY <3>1 DEF WithURI, Move, ControlOK
    <3>3. QED BY <3>2
  <2>4. QED BY <1>6, <2>2, <2>3 DEF ChooseURI
<1>7. QED BY <1>1, <1>2, <1>3, <1>4, <1>5, <1>6 DEF HandleRequest

(* of the server its request names, *)
LEMMA NamedOwn ==
  ASSUME RequestInv, [Next]_vars, NEW w \in Workers, HandleRequest(w)
  PROVE  Named(w)'
<1>1. /\ StoreInv /\ Named(w) /\ ControlOK /\ WorkerOK(pc[w], app[w], got[w])
      /\ app[w] \in AppHandlers /\ conn \in [SessionIds -> URIs \union {NoURI}]
  BY DEF RequestInv, Request, StoreInv, TInv, TypeOK, ControlOK
<1>2. CASE pc'[w] \in Working
  BY <1>1, <1>2, WorkingTurn DEF Named, Connected
<1>3. CASE pc'[w] \in {"SaveOpen", "CheckLs"}
  <2>1. CASE pc[w] = "Open" /\ app'[w] = app[w] /\ conn' = [conn EXCEPT ![app[w].ls] = app[w].uri]
    <3>1. app[w].ls \in SessionIds /\ (app[w].form.url \in URIs => app[w].uri = app[w].form.url)
      BY <1>1, <2>1 DEF WorkerOK
    <3>2. QED BY <1>1, <2>1, <3>1 DEF Named
  <2>2. CASE pc[w] = "SaveOpen" /\ app'[w] = app[w] /\ UNCHANGED conn
    BY <1>1, <2>2 DEF Named, Connected
  <2>3. CASE /\ pc[w] = "ChooseURI" /\ Same(w) /\ UNCHANGED conn
             /\ app[w].form.url \in URIs => ~NeedsNewSession(w, app[w].form.url)
    BY <2>3, HandlerAssumption DEF Same, NeedsNewSession, Named, Connected
  <2>4. QED BY <1>1, <1>3, <2>1, <2>2, <2>3, ConnectTurn
<1>4. CASE pc'[w] \notin Working \union {"SaveOpen", "CheckLs"}
  BY <1>4 DEF Named
<1>5. QED BY <1>2, <1>3, <1>4

(* delete() ends the session. *)
LEMMA Ends ==
  ASSUME StoreInv, NEW s \in SessionIds \union {NoId}, DeleteSession(s)
  PROVE  ~Live(s)'
BY Deleted DEF StoreInv

(* The steps that change what session a worker has. *)
Rest(w) ==
  /\ app'[w].form = app[w].form /\ app'[w].asked = app[w].asked
  /\ app'[w].delsid = app[w].delsid /\ app'[w].dn = app[w].dn

(* The steps of run() that deal with the session. *)
LEMMA SessionMoves ==
  ASSUME ControlOK, NEW w \in Workers
  PROVE  /\ UseSession(w) =>
              /\ Rest(w) /\ app'[w].sid = app[w].sid /\ app'[w].answer = app[w].answer
              /\ pc'[w] \in {"Handler", "Disconnect", "Delsid"}
         /\ Disconnect(w) =>
              \/ Same(w) /\ app'[w].answer = app[w].answer /\ pc'[w] = "Handler"
              \/ /\ Left(w) /\ app'[w].answer = "redirect" /\ pc'[w] = "Done"
                 /\ DeleteSession(app[w].sid)
         /\ DelSession(w) =>
              /\ Rest(w) /\ app'[w].sid = NoId /\ app'[w].ls = NoId
              /\ app'[w].answer = app[w].answer
              /\ pc'[w] = "NewSession" /\ DeleteSession(app[w].sid)
         /\ NewSession(w) =>
              \/ Same(w) /\ app'[w].answer = app[w].answer /\ pc'[w] = "Handler"
              \/ /\ Rest(w) /\ pc'[w] = "SaveNew" /\ app'[w].answer = app[w].answer
                 /\ \E s \in SessionIds : Store!Create(s) /\ app'[w].sid = s /\ app'[w].ls = s
<1> USE DEF ControlOK, Rest, Same, Left
<1>1. ASSUME NEW x, Raise(w, x)
      PROVE  pc'[w] = "Handler" /\ Same(w) /\ Rest(w) /\ app'[w].answer = app[w].answer
  BY <1>1, Moves
<1>2. ASSUME UseSession(w)
      PROVE  /\ Rest(w) /\ app'[w].sid = app[w].sid /\ app'[w].answer = app[w].answer
             /\ pc'[w] \in {"Handler", "Disconnect", "Delsid"}
  <2>1. CASE Raise(w, "SessionException")
    BY <1>1, <2>1
  <2>2. CASE Move(w, AfterSession(w), [app[w] EXCEPT !.ls = got[w]])
    <3>1. app'[w] = [app[w] EXCEPT !.ls = got[w]] /\ pc'[w] \in {"Disconnect", "Delsid"}
      BY <2>2 DEF Move, AfterSession
    <3>2. QED BY <3>1 DEF AppHandlers
  <2>3. QED BY <1>2, <2>1, <2>2 DEF UseSession
<1>3. ASSUME Disconnect(w)
      PROVE  \/ Same(w) /\ app'[w].answer = app[w].answer /\ pc'[w] = "Handler"
             \/ /\ Left(w) /\ app'[w].answer = "redirect" /\ pc'[w] = "Done"
                /\ DeleteSession(app[w].sid)
  <2>1. CASE Raise(w, "AttributeError")
    BY <1>1, <2>1
  <2>2. CASE Move(w, "Done", [app[w] EXCEPT !.sid = NoId, !.answer = "redirect"])
    <3>1. app'[w] = [app[w] EXCEPT !.sid = NoId, !.answer = "redirect"] /\ pc'[w] = "Done"
      BY <2>2 DEF Move
    <3>2. Left(w) /\ app'[w].answer = "redirect"
      BY <3>1 DEF AppHandlers
    <3>3. CASE DeleteSession(app[w].sid)
      BY <3>1, <3>2, <3>3
    <3>4. CASE Raise(w, "AttributeError")
      BY <1>1, <3>4
    <3>5. QED BY <1>3, <3>3, <3>4 DEF Disconnect
  <2>3. QED BY <1>3, <2>1, <2>2 DEF Disconnect
<1>4. ASSUME DelSession(w)
      PROVE  /\ Rest(w) /\ app'[w].sid = NoId /\ app'[w].ls = NoId
             /\ app'[w].answer = app[w].answer
             /\ pc'[w] = "NewSession" /\ DeleteSession(app[w].sid)
  <2>1. app'[w] = [app[w] EXCEPT !.sid = NoId, !.ls = NoId] /\ pc'[w] = "NewSession"
    BY <1>4 DEF DelSession, Move
  <2>2. DeleteSession(app[w].sid)
    BY <1>4 DEF DelSession
  <2>3. QED BY <2>1, <2>2 DEF AppHandlers
<1>5. ASSUME NewSession(w)
      PROVE  \/ Same(w) /\ app'[w].answer = app[w].answer /\ pc'[w] = "Handler"
             \/ /\ Rest(w) /\ pc'[w] = "SaveNew" /\ app'[w].answer = app[w].answer
                /\ \E s \in SessionIds : Store!Create(s) /\ app'[w].sid = s /\ app'[w].ls = s
  <2>1. CASE Raise(w, "MaxSessions")
    BY <1>1, <2>1
  <2>2. ASSUME NEW s \in SessionIds, Store!Create(s),
               Move(w, "SaveNew", [app[w] EXCEPT !.sid = s, !.ls = s])
        PROVE  /\ Rest(w) /\ pc'[w] = "SaveNew" /\ app'[w].answer = app[w].answer
               /\ app'[w].sid = s /\ app'[w].ls = s
    <3>1. app'[w] = [app[w] EXCEPT !.sid = s, !.ls = s] /\ pc'[w] = "SaveNew"
      BY <2>2 DEF Move
    <3>2. QED BY <3>1 DEF AppHandlers
  <2>3. QED BY <1>5, <2>1, <2>2 DEF NewSession
<1>6. QED BY <1>2, <1>3, <1>4, <1>5

(* A worker's own step keeps what it knows of a session named by delsid, *)
LEMMA SupersededOwn ==
  ASSUME RequestInv, [Next]_vars, NEW w \in Workers, HandleRequest(w)
  PROVE  Superseded(w)'
<1> USE DEF At
<1>1. StoreInv /\ Superseded(w) /\ ControlOK /\ app[w] \in AppHandlers
  BY DEF RequestInv, Request, StoreInv, TInv, ControlOK
<1>2. \A s : s = app[w].delsid /\ ~Live(s) => ~Live(s)'
  BY <1>1, DeadStays DEF Knows, AppHandlers
<1>3. CASE Delsid(w)
  <2>1. \A s : s = app[w].delsid => ~Live(s)'
    BY <1>1, <1>3, Ends DEF Delsid, AppHandlers
  <2>2. app'[w] = app[w]
    BY <1>1, <1>3, Moves DEF Delsid
  <2>3. QED BY <2>1, <2>2 DEF Superseded, Live
<1>4. CASE Params(w)
  <2>1. ~Live(app[w].delsid) /\ pc[w] = "Params"
    BY <1>1, <1>4 DEF Params, Superseded
  <2>2. app'[w].delsid = app[w].delsid
    BY <1>1, <1>4, Moves DEF Params, Move, ControlOK, AppHandlers, Same
  <2>3. QED BY <1>2, <2>1, <2>2 DEF Superseded, Live
<1>5. CASE ~Delsid(w) /\ ~Params(w)
  <2>1. pc'[w] # "Params" /\ (app'[w].dn => app[w].dn /\ app'[w].delsid = app[w].delsid)
    <3>1. CASE Parse(w) \/ GetSession(w) \/ ChooseURI(w) \/ SaveNew(w) \/ Open(w) \/ SaveOpen(w)
      BY <1>1, <3>1, Moves DEF Parse, GetSession, AfterSession, ChooseURI, LookupSRV, SaveNew, Open, SaveOpen, Same, Left
    <3>2. CASE CheckLs(w) \/ Login(w) \/ Bind(w) \/ RootDSE(w) \/ CheckConn(w) \/ Dispatch(w)
               \/ Reconnect(w) \/ Redispatch(w) \/ SaveEnd(w)
      BY <1>1, <3>2, Moves DEF CheckLs, Login, Bind, RootDSE, CheckConn, Dispatch, Reconnect, Redispatch,
         SaveEnd, Unbound, Fails, Same, Left
    <3>3. CASE Handler(w)
      BY <1>1, <3>3, Moves DEF Handler, ShowMessage, HandleServerDown, Same, Left
    <3>4. CASE EndRequest(w)
      BY <1>1, <3>4 DEF EndRequest, Move, ControlOK, NoApp
    <3>5. CASE UseSession(w) \/ Disconnect(w) \/ DelSession(w) \/ NewSession(w)
      BY <1>1, <3>5, SessionMoves DEF Same, Left, Rest
    <3>6. QED BY <1>5, <3>1, <3>2, <3>3, <3>4, <3>5 DEF HandleRequest
  <2>2. QED BY <1>1, <1>2, <2>1 DEF Superseded, Live
<1>6. QED BY <1>3, <1>4, <1>5

(* The steps that keep the session of the request, and end on no landing    *)
(* page; the others that do not make a session delete the one there is.     *)
LEMMA SessionTurn ==
  ASSUME ControlOK, NEW w \in Workers, HandleRequest(w)
  PROVE  \/ /\ app'[w].asked = app[w].asked /\ app'[w].sid = app[w].sid
            /\ ~(pc'[w] = "Done" /\ app'[w].answer = "connect")
         \/ Left(w) /\ DeleteSession(app[w].sid) /\ pc[w] # "Done"
         \/ DelSession(w) \/ NewSession(w) \/ EndRequest(w)
         \/ Parse(w) /\ Same(w)
<1> USE DEF At
<1>1. CASE Parse(w) \/ GetSession(w) \/ Delsid(w)
  BY <1>1, Moves DEF Parse, GetSession, AfterSession, Delsid, Same
<1>2. CASE UseSession(w) \/ Disconnect(w)
  BY <1>2, SessionMoves DEF Same, Rest, Disconnect
<1>3. CASE Params(w)
  BY <1>3, Moves DEF Params, Move, ControlOK, AppHandlers, Same
<1>4. CASE ChooseURI(w) \/ SaveNew(w) \/ Open(w) \/ SaveOpen(w)
  BY <1>4, Moves DEF ChooseURI, LookupSRV, SaveNew, Open, SaveOpen, Same
<1>5. CASE CheckLs(w) \/ Login(w) \/ Bind(w) \/ RootDSE(w) \/ CheckConn(w)
  BY <1>5, Moves DEF CheckLs, Login, Bind, RootDSE, CheckConn, Unbound, Fails, Same
<1>6. CASE Dispatch(w) \/ Reconnect(w) \/ Redispatch(w) \/ SaveEnd(w)
  BY <1>6, Moves DEF Dispatch, Reconnect, Redispatch, SaveEnd, Unbound, Fails, Same
<1>7. CASE Handler(w)
  BY <1>7, Moves DEF Handler, ShowMessage, HandleServerDown, Same
<1>8. QED BY <1>1, <1>2, <1>3, <1>4, <1>5, <1>6, <1>7 DEF HandleRequest

(* and of the session its request asked for. *)
LEMMA AskedOwn ==
  ASSUME RequestInv, [Next]_vars, NEW w \in Workers, HandleRequest(w)
  PROVE  Asked(w)'
<1>1. /\ StoreInv /\ Asked(w) /\ ControlOK /\ WorkerOK(pc[w], app[w], got[w])
      /\ app[w] \in AppHandlers
  BY DEF RequestInv, Request, StoreInv, TInv, ControlOK
<1>2. \A s : s = app[w].asked /\ ~Live(s) => ~Live(s)'
  BY <1>1, DeadStays DEF Knows, AppHandlers
<1>3. ASSUME DeleteSession(app[w].sid)
      PROVE  /\ \A s : s \in {app[w].sid, app[w].asked} => ~Live(s)'
             /\ pc[w] # "Done" => \A s : s = app[w].ls => ~Live(s)'
  <2>1. \A s : s = app[w].sid => ~Live(s)'
    BY <1>1, <1>3, Ends DEF AppHandlers
  <2>2. \A s : s = app[w].asked => ~Live(s)'
    BY <1>1, <1>2, <2>1 DEF Asked
  <2>3. pc[w] # "Done" => app[w].ls \in {NoId, app[w].sid}
    BY <1>1 DEF WorkerOK
  <2>4. ~Live(NoId)'
    BY DEF Live
  <2>5. QED BY <2>1, <2>2, <2>3, <2>4
<1>4. CASE /\ app'[w].asked = app[w].asked /\ app'[w].sid = app[w].sid
           /\ ~(pc'[w] = "Done" /\ app'[w].answer = "connect")
  BY <1>1, <1>2, <1>4 DEF Asked, Live
<1>5. CASE Left(w) /\ DeleteSession(app[w].sid) /\ pc[w] # "Done"
  BY <1>3, <1>5 DEF Asked, Live, Left
<1>6. CASE DelSession(w)
  BY <1>1, <1>3, <1>6, SessionMoves DEF Asked, Live, Rest
<1>7. CASE NewSession(w)
  <2>1. CASE Same(w) /\ pc'[w] = "Handler"
    BY <1>1, <1>2, <2>1 DEF Asked, Live, Same
  <2>2. CASE Rest(w) /\ pc'[w] = "SaveNew"
    <3>1. app[w].sid = NoId
      BY <1>1, <1>7 DEF NewSession, At, WorkerOK
    <3>2. \A s : s = app[w].asked => ~Live(s)
      BY <1>1, <3>1 DEF Asked, Live
    <3>3. \A s : s = app[w].asked => ~Live(s)'
      BY <1>2, <3>2
    <3>4. QED BY <2>2, <3>3 DEF Asked, Live, Rest
  <2>3. QED BY <1>1, <1>7, <2>1, <2>2, SessionMoves
<1>8. CASE EndRequest(w)
  <2>1. app'[w] = NoApp /\ pc'[w] = "Idle"
    BY <1>1, <1>8 DEF EndRequest, Move, ControlOK
  <2>2. QED BY <2>1 DEF Asked, NoApp
<1>9. CASE Parse(w) /\ Same(w)
  <2>1. app[w].ls = NoId
    BY <1>1, <1>9 DEF Parse, At, WorkerOK
  <2>2. QED BY <1>1, <1>2, <1>9, <2>1 DEF Asked, Live, Same
<1>10. QED BY <1>1, <1>4, <1>5, <1>6, <1>7, <1>8, <1>9, SessionTurn

(* A request that comes in knows nothing yet. *)
LEMMA ReceiveOwn ==
  ASSUME RequestInv, NEW w \in Workers, NEW f \in Forms, NEW s \in SessionIds \union {NoId},
         NEW d \in SessionIds \union {NoId}, Receive(w, f, s, d)
  PROVE  Request(w)'
<1>1. ControlOK
  BY DEF RequestInv, StoreInv, TInv
<1>2. /\ pc'[w] = "Parse"
      /\ app'[w] = [NoApp EXCEPT !.form = f, !.asked = s, !.sid = s, !.delsid = d]
  BY <1>1 DEF Receive, Move, ControlOK
<1>3. app'[w].exc = "none" /\ app'[w].dn = FALSE /\ app'[w].sid = app'[w].asked
  BY <1>2 DEF NoApp
<1>4. QED BY <1>2, <1>3 DEF Request, Lost, Named, Superseded, Asked

(* Each step keeps what RequestInv says of every request. *)
LEMMA RequestStep ==
  ASSUME RequestInv, [Next]_vars
  PROVE  RequestInv'
<1>1. StoreInv /\ StoreInv' /\ ControlOK
  BY StoreStep DEF RequestInv, StoreInv, TInv
<1>2. ASSUME NEW u \in Workers PROVE Request(u)'
  <2>1. CASE HandleRequest(u)
    BY <2>1, LostOwn, NamedOwn, SupersededOwn, AskedOwn DEF Request
  <2>2. CASE ~HandleRequest(u) /\ \E w \in Workers : HandleRequest(w)
    <3>1. PICK w \in Workers : HandleRequest(w)
      BY <2>2
    <3>2. Others(w) /\ u # w
      BY <1>1, <2>2, <3>1, OthersStay DEF StoreInv
    <3>3. QED BY <2>2, <3>2, Bystander DEF Others
  <2>3. CASE ~HandleRequest(u) /\ Environment
    <3>1. CASE UNCHANGED <<pc, app>>
      BY <2>3, <3>1, Bystander
    <3>2. ASSUME NEW w \in Workers, NEW f \in Forms, NEW s \in SessionIds \union {NoId},
                 NEW d \in SessionIds \union {NoId}, Receive(w, f, s, d)
          PROVE  Request(u)'
      <4>1. CASE u = w
        BY <3>2, <4>1, ReceiveOwn
      <4>2. CASE u # w
        <5>1. pc'[u] = pc[u] /\ app'[u] = app[u]
          BY <1>1, <3>2, <4>2 DEF Receive, Move, ControlOK
        <5>2. QED BY <2>3, <5>1, Bystander
      <4>3. QED BY <4>1, <4>2
    <3>3. QED BY <2>3, <3>1, <3>2 DEF Environment, ServerStops, ServerStarts, ExpireSession
  <2>4. CASE ~HandleRequest(u) /\ UNCHANGED vars
    BY <2>4, Bystander DEF vars
  <2>5. QED BY <2>1, <2>2, <2>3, <2>4 DEF Next
<1>3. QED BY <1>1, <1>2 DEF RequestInv

(* No request is under way at first. *)
LEMMA RequestInit == Init => RequestInv
<1> SUFFICES ASSUME Init PROVE RequestInv
  OBVIOUS
<1>1. StoreInv
  BY StoreInit
<1>2. \A w \in Workers : app[w] = NoApp /\ pc[w] = "Idle"
  BY DEF Init
<1>3. NoApp.exc = "none" /\ NoApp.dn = FALSE /\ NoApp.sid = NoApp.asked
  BY DEF NoApp
<1>4. \A w \in Workers : Request(w)
  BY <1>2, <1>3 DEF Request, Lost, Named, Superseded, Asked
<1>5. QED BY <1>1, <1>4 DEF RequestInv

(* What each request knows of its sessions and its server. *)
LEMMA RequestInvariance == Spec => []RequestInv
<1>1. QED BY RequestInit, RequestStep, PTL DEF Spec

-----------------------------------------------------------------------------
(* What the requests can rely on.                                           *)

(* A connection that is missing during a command is missing because the     *)
(* session was removed since the command was started (the test of           *)
(* self.ls.uri before it, handler.py).                                      *)
THEOREM LostOnlyByRemoval == Spec => []ConnectionLostOnlyByRemoval
<1>1. RequestInv => ConnectionLostOnlyByRemoval
  BY DEF RequestInv, Request, Lost, ConnectionLostOnlyByRemoval
<1>2. QED BY <1>1, RequestInvariance, PTL

(* A command that names a server is executed on a connection to it, however *)
(* many requests share the session it came with.                            *)
THEOREM NamedServer == Spec => []CommandOnNamedServer
<1>1. RequestInv => CommandOnNamedServer
  BY DEF RequestInv, Request, Named, CommandOnNamedServer
<1>2. QED BY <1>1, RequestInvariance, PTL

(* The session a login form replaces is gone when the parameters of its     *)
(* request were read, and does not come back while the request lasts.       *)
THEOREM OldSessionRemoved == Spec => []SupersededRemoved
<1>1. RequestInv => SupersededRemoved
  BY DEF RequestInv, Request, Superseded, SupersededRemoved
<1>2. QED BY <1>1, RequestInvariance, PTL

(* The landing page after an attempt to connect ends the session: neither   *)
(* the one the request came with nor the one it made is left.               *)
THEOREM LandingPageEndsSession == Spec => []ConnectPageEndsSession
<1>1. RequestInv => ConnectPageEndsSession
  BY DEF RequestInv, Request, Asked, ConnectPageEndsSession
<1>2. QED BY <1>1, RequestInvariance, PTL

-----------------------------------------------------------------------------
(* One worker: the session of the request is there until the request ends   *)
(* it itself.                                                                *)

Mine(w) ==
  /\ app[w].asked = NoId \/ app[w].delsid = NoId
  /\ pc[w] = "UseSession" => Live(app[w].sid)
  /\ app[w].ls # NoId /\ (pc[w] = "Done" => app[w].answer \in {"page", "login"}) => Live(app[w].sid)

OneInv == RequestInv /\ \A w \in Workers : Mine(w)

(* A step of run() that leaves the AppHandler's sessions alone, ends the request *)
(* or is one of six. *)
LEMMA QuietTurn ==
  ASSUME ControlOK, NEW w \in Workers, HandleRequest(w)
  PROVE  \/ /\ Same(w) /\ UNCHANGED status /\ pc[w] # "Done"
            /\ pc'[w] = "UseSession" => Live(app[w].sid)
         \/ Left(w) /\ pc'[w] = "Done" /\ app'[w].answer \in {"connect", "redirect"}
         \/ UseSession(w) \/ Delsid(w) \/ Params(w) \/ DelSession(w) \/ NewSession(w) \/ EndRequest(w)
<1> USE DEF At, storeVars
<1>1. CASE Parse(w)
  BY <1>1, Moves DEF Parse, Same
<1>2. CASE GetSession(w)
  BY <1>2, Moves DEF GetSession, AfterSession, Same, Store!Fetch
<1>3. CASE Disconnect(w)
  <2>1. pc[w] # "Done"
    BY <1>3 DEF Disconnect
  <2>2. Raise(w, "AttributeError") => UNCHANGED status
    <3>1. app[w].ls # NoId => pc'[w] = "Done"
      BY <1>3 DEF Disconnect, Move, ControlOK
    <3>2. Raise(w, "AttributeError") => pc'[w] = "Handler"
      BY Moves
    <3>3. QED BY <1>3, <3>1, <3>2 DEF Disconnect
  <2>3. CASE Raise(w, "AttributeError")
    BY <2>1, <2>2, <2>3, Moves
  <2>4. CASE ~Raise(w, "AttributeError")
    <3>1. app[w].ls # NoId
      BY <1>3, <2>4 DEF Disconnect
    <3>2. pc'[w] = "Done"
      BY <1>3, <3>1 DEF Disconnect, Move, ControlOK
    <3>3. QED BY <1>3, <3>2, SessionMoves
  <2>5. QED BY <2>3, <2>4
<1>4. CASE ChooseURI(w) \/ SaveNew(w) \/ Open(w) \/ SaveOpen(w)
  BY <1>4, Moves, SaveKeepsStatus DEF ChooseURI, LookupSRV, SaveNew, Open, SaveOpen, Same
<1>5. CASE CheckLs(w) \/ Login(w) \/ Bind(w) \/ RootDSE(w) \/ CheckConn(w)
  BY <1>5, Moves, SaveKeepsStatus DEF CheckLs, Login, Bind, RootDSE, CheckConn, Unbound, Fails, Same
<1>6. CASE Dispatch(w) \/ Reconnect(w) \/ Redispatch(w) \/ SaveEnd(w)
  BY <1>6, Moves, SaveKeepsStatus DEF Dispatch, Reconnect, Redispatch, SaveEnd, Unbound, Fails, Same
<1>7. CASE Handler(w)
  BY <1>7, Moves DEF Handler, ShowMessage, HandleServerDown, Same
<1>8. QED BY <1>1, <1>2, <1>3, <1>4, <1>5, <1>6, <1>7 DEF HandleRequest

(* With one worker: its own step keeps its session live. *)
LEMMA MineOwn ==
  ASSUME OneInv, NEW w \in Workers, HandleRequest(w)
  PROVE  Mine(w)'
<1> USE DEF Live
<1>1. /\ StoreInv /\ Mine(w) /\ TInv /\ ControlOK /\ WorkerOK(pc[w], app[w], got[w])
      /\ app[w] \in AppHandlers
  BY DEF OneInv, RequestInv, StoreInv, TInv, ControlOK
<1>2. CASE /\ Same(w) /\ UNCHANGED status /\ pc[w] # "Done"
           /\ pc'[w] = "UseSession" => Live(app[w].sid)
  BY <1>1, <1>2 DEF Same, Mine
<1>3. CASE Left(w) /\ pc'[w] = "Done" /\ app'[w].answer \in {"connect", "redirect"}
  BY <1>1, <1>3 DEF Left, Mine
<1>4. CASE UseSession(w)
  BY <1>1, <1>4, SessionMoves DEF UseSession, Rest, Mine, At, storeVars
<1>5. CASE Delsid(w)
  <2>1. app'[w] = app[w] /\ pc'[w] = "Params" /\ pc[w] = "Delsid"
    BY <1>1, <1>5, Moves DEF Delsid, At
  <2>2. CASE app[w].ls = NoId
    BY <1>1, <2>1, <2>2 DEF Mine
  <2>3. CASE app[w].ls # NoId
    <3>1. app[w].sid = app[w].ls /\ app[w].sid = app[w].asked
      BY <1>1, <2>1, <2>3 DEF WorkerOK
    <3>2. app[w].delsid = NoId
      BY <1>1, <2>3, <3>1 DEF Mine
    <3>3. UNCHANGED status
      BY <1>5, <3>2 DEF Delsid, DeleteSession, storeVars
    <3>4. QED BY <1>1, <2>1, <3>3 DEF Mine
  <2>4. QED BY <2>2, <2>3
<1>6. CASE Params(w)
  <2>1. /\ app'[w].asked = app[w].asked /\ app'[w].delsid = app[w].delsid
        /\ app'[w].sid = app[w].sid /\ app'[w].ls = app[w].ls
        /\ pc'[w] \in {"Handler", "ChooseURI"}
    BY <1>1, <1>6, Moves DEF Params, Move, ControlOK, AppHandlers, Same
  <2>2. QED BY <1>1, <1>6, <2>1 DEF Params, At, Mine, storeVars
<1>7. CASE DelSession(w)
  BY <1>1, <1>7, SessionMoves DEF Rest, Mine
<1>8. CASE NewSession(w)
  <2>1. CASE Same(w) /\ pc'[w] = "Handler"
    <3>1. app[w].ls = NoId
      BY <1>1, <1>8 DEF NewSession, At, WorkerOK
    <3>2. QED BY <1>1, <2>1, <3>1 DEF Same, Mine
  <2>2. ASSUME NEW s \in SessionIds, Store!Create(s), Rest(w), pc'[w] = "SaveNew", app'[w].sid = s
        PROVE  Mine(w)'
    <3>1. status'[s] = "live" /\ s # NoId
      BY <1>1, <2>2, HandlerAssumption DEF Store!Create, TInv, TypeOK
    <3>2. QED BY <1>1, <2>2, <3>1 DEF Rest, Mine
  <2>3. QED BY <1>1, <1>8, <2>1, <2>2, SessionMoves
<1>9. CASE EndRequest(w)
  <2>1. app'[w] = NoApp /\ pc'[w] = "Idle"
    BY <1>1, <1>9 DEF EndRequest, Move, ControlOK
  <2>2. QED BY <2>1 DEF Mine, NoApp
<1>10. QED BY <1>1, <1>2, <1>3, <1>4, <1>5, <1>6, <1>7, <1>8, <1>9, QuietTurn

(* With one worker: nobody else removes a session. *)
LEMMA OneStep ==
  ASSUME NEW x, Workers = {x}, ~Expiry, OneInv, [Next]_vars
  PROVE  OneInv'
<1>1. ControlOK /\ Mine(x)
  BY DEF OneInv, RequestInv, StoreInv, TInv
<1>2. RequestInv'
  BY RequestStep DEF OneInv
<1>3. Mine(x)'
  <2>1. CASE UNCHANGED <<status, pc, app>>
    BY <1>1, <2>1 DEF Mine, Live
  <2>2. CASE HandleRequest(x)
    BY <2>2, MineOwn
  <2>3. ASSUME NEW f \in Forms, NEW s \in SessionIds \union {NoId}, NEW d \in SessionIds \union {NoId},
               Receive(x, f, s, d)
        PROVE  Mine(x)'
    <3>1. app'[x] = [NoApp EXCEPT !.form = f, !.asked = s, !.sid = s, !.delsid = d]
      BY <1>1, <2>3 DEF Receive, Move, ControlOK
    <3>2. app'[x].asked = s /\ app'[x].delsid = d /\ app'[x].ls = NoId
      BY <3>1 DEF NoApp
    <3>3. pc'[x] = "Parse" /\ (s = NoId \/ d = NoId)
      BY <1>1, <2>3 DEF Receive, Move, ControlOK
    <3>4. QED BY <3>2, <3>3 DEF Mine
  <2>4. QED BY <2>1, <2>2, <2>3
        DEF Next, Environment, ServerStops, ServerStarts, ExpireSession, storeVars, vars
<1>4. QED BY <1>2, <1>3 DEF OneInv

(* With one worker and no expiry a page shown on a session can be used for  *)
(* the next request: no path through run() deletes a session and then shows *)
(* a page with its ID.                                                       *)
THEOREM PageSidLiveAlone ==
  ASSUME NEW x, Workers = {x}, ~Expiry
  PROVE  Spec => []PageSidLive
<1>1. Init => OneInv
  <2>1. SUFFICES ASSUME Init PROVE OneInv
    OBVIOUS
  <2>2. \A w \in Workers : app[w] = NoApp /\ pc[w] = "Idle"
    BY <2>1 DEF Init
  <2>3. QED BY <2>1, <2>2, RequestInit DEF OneInv, Mine, NoApp
<1>2. OneInv /\ [Next]_vars => OneInv'
  BY OneStep
<1>3. OneInv => PageSidLive
  BY DEF OneInv, Mine, PageSidLive
<1>4. QED BY <1>1, <1>2, <1>3, PTL DEF Spec
=============================================================================
