--------------------------- MODULE RequestHandler ---------------------------
(***************************************************************************)
(* AppHandler.run() of app/handler.py: one request, from the command and   *)
(* session ID in the URL to the page that answers it.  The worker threads  *)
(* of the WSGI server run it concurrently, on sessions they may share (two *)
(* browser tabs of one user), while LDAP servers stop and start and the    *)
(* ExpiryThread removes sessions.                                           *)
(*                                                                         *)
(* The session store is SessionRegistry, the specification SessionStore is *)
(* shown to implement.  The LDAPSession object made for session s is named *)
(* s, and conn[s] is the URI it is connected to: NoURI when its attribute  *)
(* uri is None, as it is before open() and after unbind().  A step is the  *)
(* stretch of run() up to the next point where it reads or writes what     *)
(* other threads can change: the store, the connection, the LDAP server.   *)
(* web2ldapcnf.session_paranoid is 0 (as shipped): no session is renamed.   *)
(***************************************************************************)
EXTENDS Naturals, FiniteSets

CONSTANTS
  Workers,      \* threads of the WSGI server
  SessionIds,
  URIs,         \* LDAP servers a request can name
  DefaultURI,   \* 'ldap://', what libldap connects to for an empty host
  Allowed,      \* web2ldapcnf.hosts.restricted_ldap_uri_list, or URIs
  Forms,        \* what a request can contain, records [cmd, input, url, cred]
  Expiry,       \* whether sessions can be inactive for session_remove seconds
  MaxRequests,  \* bound of the requests, for model checking
  NoId, NoURI, Created

Commands == {"invalid", "connect", "disconnect", "use"}
Inputs   == {"ok", "denied", "badform", "badparam"}
URLs     == URIs \union {"none", "nohost"}
Creds    == {"none", "who", "full"}

ASSUME HandlerAssumption ==
  /\ NoId \notin SessionIds
  /\ Created \notin SessionIds \union {NoId}
  /\ NoURI \notin URIs
  /\ DefaultURI \in URIs
  /\ {"none", "nohost"} \intersect URIs = {}
  /\ Allowed \subseteq URIs
  /\ Forms \subseteq [cmd : Commands, input : Inputs, url : URLs, cred : Creds]
  /\ Expiry \in BOOLEAN
  /\ MaxRequests \in Nat

VARIABLES
  status, data, got, \* the session store, see SessionRegistry
  conn,              \* attributes l and uri of each LDAPSession
  up,                \* LDAP servers that answer
  shown,             \* session IDs in the pages sent so far
  requests,          \* requests so far, against the bound MaxRequests
  pc, app            \* control and AppHandler instance of each worker

storeVars == <<status, data, got>>
vars == <<status, data, got, conn, up, shown, requests, pc, app>>

Store == INSTANCE SessionRegistry
           WITH Threads <- Workers, Data <- SessionIds, Nothing <- NoId

(* The exception classes run() tells apart. *)
Exceptions == {"FormException", "SERVER_DOWN", "NO_SUCH_OBJECT", "REFERRAL",
               "InvalidSimpleBindDN", "INVALID_CREDENTIALS", "PasswordPolicy",
               "LDAPError", "ErrorExit", "MaxSessions", "SessionException",
               "AttributeError"}

Labels == {"Idle", "Parse", "GetSession", "UseSession", "Disconnect", "Delsid",
           "Params", "ChooseURI", "DelSession", "NewSession", "SaveNew", "Open",
           "SaveOpen", "CheckLs", "Login", "Bind", "RootDSE", "CheckConn",
           "Dispatch", "Reconnect", "Redispatch", "SaveEnd", "Handler", "Done",
           "Escaped"}

(* "page" is a page with the main menu, "connect" the landing page,        *)
(* "message" simple_msg(), "redirect" url_redirect().                       *)
Answers == {"none", "page", "login", "connect", "message", "redirect"}

(* form, delsid: the request.  sid, ls, dn: attributes of AppHandler, dn    *)
(* only whether it is set.  uri: the local variable init_uri.  exc: the     *)
(* exception raised.  answer: the last page begun.                          *)
NoForm == [cmd |-> "connect", input |-> "ok", url |-> "none", cred |-> "none"]
NoApp == [form |-> NoForm, asked |-> NoId, delsid |-> NoId, sid |-> NoId, ls |-> NoId,
          dn |-> FALSE, uri |-> NoURI, exc |-> "none", answer |-> "none"]

Init ==
  /\ Store!Init
  /\ conn = [s \in SessionIds |-> NoURI]
  /\ up = URIs
  /\ shown = {}
  /\ requests = 0
  /\ pc = [w \in Workers |-> "Idle"]
  /\ app = [w \in Workers |-> NoApp]

-----------------------------------------------------------------------------
(* Control of a worker, and the calls into the store.                       *)

At(w, c) == pc[w] = c
Move(w, c, a) == pc' = [pc EXCEPT ![w] = c] /\ app' = [app EXCEPT ![w] = a]
Goto(w, c) == pc' = [pc EXCEPT ![w] = c] /\ UNCHANGED app
Raise(w, x) == Move(w, "Handler", [app[w] EXCEPT !.exc = x])
Answer(w, p) == Move(w, "Done", [app[w] EXCEPT !.answer = p])

(* The handler forgets its session before it shows the landing page. *)
AnswerConnect(w) ==
  Move(w, "Done", [app[w] EXCEPT !.sid = NoId, !.answer = "connect"])

(* An attribute of an LDAPSession that is not there, or of None. *)
Connected(w) == app[w].ls # NoId /\ conn[app[w].ls] # NoURI

Live(s) == s # NoId /\ status[s] = "live"

(* Mutant: the session is removed, its LDAPSession stays connected. *)
DeleteSession_NoUnbind(s) ==
  IF Live(s) THEN Store!Remove(s) /\ UNCHANGED conn ELSE UNCHANGED <<storeVars, conn>>

(* Session.delete() unbinds the LDAPSession; other IDs are ignored. *)
DeleteSession(s) ==
  IF Live(s)
    THEN /\ Store!Remove(s)
         /\ conn' = IF data[s] = Created THEN conn ELSE [conn EXCEPT ![data[s]] = NoURI]
    ELSE UNCHANGED <<storeVars, conn>>

(* Saving a session that was removed leaves nothing that can be retrieved. *)
SaveSession(w) ==
  IF Live(app[w].sid)
    THEN Store!Save(app[w].sid, app[w].ls)
    ELSE UNCHANGED storeVars

-----------------------------------------------------------------------------
(* The environment.                                                         *)

(* A request carries a session ID some page contained, or none; the login  *)
(* form carries the old ID as delsid and no session ID.                     *)
Receive(w, f, s, d) ==
  /\ At(w, "Idle")
  /\ requests < MaxRequests
  /\ {s, d} \subseteq shown \union {NoId}
  /\ s = NoId \/ d = NoId
  /\ requests' = requests + 1
  /\ Move(w, "Parse", [NoApp EXCEPT !.form = f, !.asked = s, !.sid = s, !.delsid = d])
  /\ UNCHANGED <<storeVars, conn, up, shown>>

ServerStops(u) ==
  /\ u \in up
  /\ up' = up \ {u}
  /\ UNCHANGED <<storeVars, conn, shown, requests, pc, app>>

ServerStarts(u) ==
  /\ u \notin up
  /\ up' = up \union {u}
  /\ UNCHANGED <<storeVars, conn, shown, requests, pc, app>>

(* A session is inactive while no request has it, until a request that     *)
(* fetched it saves it, and during a command that takes long.               *)
InactiveLabels == {"Idle", "UseSession", "Disconnect", "Delsid", "Params", "ChooseURI",
                   "DelSession", "Dispatch", "Reconnect", "Redispatch", "SaveEnd",
                   "Handler", "Done"}
ExpireSession(s) ==
  /\ Expiry
  /\ status[s] = "live"
  /\ \A w \in Workers : app[w].sid = s => pc[w] \in InactiveLabels
  /\ DeleteSession(s)
  /\ UNCHANGED <<up, shown, requests, pc, app>>

-----------------------------------------------------------------------------
(* run() up to the session.                                                 *)

Parse(w) ==
  /\ At(w, "Parse")
  /\ \/ /\ app[w].form.cmd = "invalid"
        /\ Answer(w, "redirect")
     \/ /\ app[w].form.cmd # "invalid"
        /\ app[w].form.input = "badform"
        /\ Raise(w, "FormException")
     \/ /\ app[w].form.cmd # "invalid"
        /\ app[w].form.input = "denied"
        /\ Raise(w, "ErrorExit")
     \/ /\ app[w].form.cmd = "connect"
        /\ app[w].form.input \in {"ok", "badparam"}
        /\ Answer(w, "connect")
     \/ /\ app[w].form.cmd \in {"disconnect", "use"}
        /\ app[w].form.input \in {"ok", "badparam"}
        /\ Goto(w, "GetSession")
  /\ UNCHANGED <<storeVars, conn, up, shown, requests>>

AfterSession(w) == IF app[w].form.cmd = "disconnect" THEN "Disconnect" ELSE "Delsid"

GetSession(w) ==
  /\ At(w, "GetSession")
  /\ \/ /\ app[w].sid = NoId
        /\ Goto(w, AfterSession(w))
        /\ UNCHANGED storeVars
     \/ /\ app[w].sid # NoId
        /\ ~Live(app[w].sid)
        /\ Raise(w, "SessionException")
        /\ UNCHANGED storeVars
     \/ /\ Live(app[w].sid)
        /\ Store!Fetch(w, app[w].sid)
        /\ Goto(w, "UseSession")
  /\ UNCHANGED <<conn, up, shown, requests>>

(* The cross-check of the environment or the session cookie may fail, after *)
(* which self.ls is set in the second case only; no handler looks at it.    *)
UseSession(w) ==
  /\ At(w, "UseSession")
  /\ \/ Raise(w, "SessionException")
     \/ /\ got[w] # Created
        /\ Move(w, AfterSession(w), [app[w] EXCEPT !.ls = got[w]])
  /\ UNCHANGED <<storeVars, conn, up, shown, requests>>

(* Without a session self.ls is None and has no attribute cookie. *)
Disconnect(w) ==
  /\ At(w, "Disconnect")
  /\ \/ /\ app[w].ls = NoId
        /\ Raise(w, "AttributeError")
        /\ UNCHANGED <<storeVars, conn>>
     \/ /\ app[w].ls # NoId
        /\ DeleteSession(app[w].sid)
        /\ Move(w, "Done", [app[w] EXCEPT !.sid = NoId, !.answer = "redirect"])
  /\ UNCHANGED <<up, shown, requests>>

(* Mutant: the old session is kept. *)
Delsid_Kept(w) ==
  /\ At(w, "Delsid")
  /\ Goto(w, "Params")
  /\ UNCHANGED <<storeVars, conn, up, shown, requests>>

Delsid(w) ==
  /\ At(w, "Delsid")
  /\ DeleteSession(app[w].delsid)
  /\ Goto(w, "Params")
  /\ UNCHANGED <<up, shown, requests>>

(* self.dn is assigned only when all parameters could be parsed. *)
Params(w) ==
  /\ At(w, "Params")
  /\ IF app[w].form.input = "badparam"
       THEN Raise(w, "ErrorExit")
       ELSE Move(w, "ChooseURI", [app[w] EXCEPT !.dn = TRUE])
  /\ UNCHANGED <<storeVars, conn, up, shown, requests>>

-----------------------------------------------------------------------------
(* The connection of the request.                                           *)

(* A new session is needed for a server other than the one connected to;   *)
(* the mutant keeps any connection there is.                                *)
NeedsNewSession_AnyServer(w, u) == u # NoURI /\ ~Connected(w)
NeedsNewSession(w, u) ==
  u # NoURI /\ (~Connected(w) \/ conn[app[w].ls] # u)

(* Mutant: the local variable holds what the form contains. *)
WithURI_Verbatim(w, u) ==
  Move(w, IF NeedsNewSession(w, u) THEN "DelSession" ELSE "CheckLs",
       [app[w] EXCEPT !.uri = app[w].form.url])

WithURI(w, u) ==
  Move(w, IF NeedsNewSession(w, u) THEN "DelSession" ELSE "CheckLs",
       [app[w] EXCEPT !.uri = u])

(* An LDAP URL without host: DNS SRV records name no server, one or several. *)
LookupSRV(w) ==
  /\ ~Connected(w)
  /\ \/ /\ DeleteSession(app[w].sid)
        /\ AnswerConnect(w)
     \/ /\ \E u \in URIs : WithURI(w, u)
        /\ UNCHANGED <<storeVars, conn>>
     \/ /\ Answer(w, "page")
        /\ UNCHANGED <<storeVars, conn>>

ChooseURI(w) ==
  /\ At(w, "ChooseURI")
  /\ \/ /\ app[w].form.url = "nohost"
        /\ LookupSRV(w)
     \/ /\ app[w].form.url = "nohost"
        /\ Connected(w)
        /\ WithURI(w, DefaultURI)
        /\ UNCHANGED <<storeVars, conn>>
     \/ /\ app[w].form.url = "none"
        /\ WithURI(w, NoURI)
        /\ UNCHANGED <<storeVars, conn>>
     \/ /\ app[w].form.url \in URIs
        /\ WithURI(w, app[w].form.url)
        /\ UNCHANGED <<storeVars, conn>>
  /\ UNCHANGED <<up, shown, requests>>

(* Mutant: the reference is dropped, the session is not deleted. *)
DelSession_Dropped(w) ==
  /\ At(w, "DelSession")
  /\ Move(w, "NewSession", [app[w] EXCEPT !.sid = NoId, !.ls = NoId])
  /\ UNCHANGED <<storeVars, conn, up, shown, requests>>

DelSession(w) ==
  /\ At(w, "DelSession")
  /\ DeleteSession(app[w].sid)
  /\ Move(w, "NewSession", [app[w] EXCEPT !.sid = NoId, !.ls = NoId])
  /\ UNCHANGED <<up, shown, requests>>

(* Sessions of other clients may have used up the limits. *)
NewSession(w) ==
  /\ At(w, "NewSession")
  /\ \/ /\ Raise(w, "MaxSessions")
        /\ UNCHANGED storeVars
     \/ \E s \in SessionIds :
          /\ Store!Create(s)
          /\ Move(w, "SaveNew", [app[w] EXCEPT !.sid = s, !.ls = s])
  /\ UNCHANGED <<conn, up, shown, requests>>

SaveNew(w) ==
  /\ At(w, "SaveNew")
  /\ SaveSession(w)
  /\ IF app[w].uri \in Allowed
       THEN Goto(w, "Open")
       ELSE Raise(w, "ErrorExit")
  /\ UNCHANGED <<conn, up, shown, requests>>

(* LDAPSession.open(): the server is down, or StartTLS is required and     *)
(* fails, and unbind() is called; or reading the rootDSE fails, and the    *)
(* connection stays open.                                                   *)
Open(w) ==
  /\ At(w, "Open")
  /\ \/ /\ app[w].uri \notin up
        /\ Raise(w, "SERVER_DOWN")
        /\ UNCHANGED conn
     \/ /\ app[w].uri \in up
        /\ Raise(w, "LDAPError")
        /\ UNCHANGED conn
     \/ /\ app[w].uri \in up
        /\ Raise(w, "LDAPError")
        /\ conn' = [conn EXCEPT ![app[w].ls] = app[w].uri]
     \/ /\ app[w].uri \in up
        /\ Goto(w, "SaveOpen")
        /\ conn' = [conn EXCEPT ![app[w].ls] = app[w].uri]
  /\ UNCHANGED <<storeVars, up, shown, requests>>

SaveOpen(w) ==
  /\ At(w, "SaveOpen")
  /\ SaveSession(w)
  /\ Goto(w, "CheckLs")
  /\ UNCHANGED <<conn, up, shown, requests>>

(* Mutant: a session that is not connected is used. *)
CheckLs_NoURI(w) ==
  /\ At(w, "CheckLs")
  /\ IF app[w].ls = NoId THEN Answer(w, "redirect") ELSE Goto(w, "Login")
  /\ SaveSession(w)
  /\ UNCHANGED <<conn, up, shown, requests>>

CheckLs(w) ==
  /\ At(w, "CheckLs")
  /\ \/ /\ app[w].ls = NoId
        /\ Answer(w, "redirect")
        /\ UNCHANGED <<storeVars, conn>>
     \/ /\ app[w].ls # NoId
        /\ ~Connected(w)
        /\ DeleteSession(app[w].sid)
        /\ AnswerConnect(w)
     \/ /\ Connected(w)
        /\ SaveSession(w)
        /\ Goto(w, "Login")
        /\ UNCHANGED conn
  /\ UNCHANGED <<up, shown, requests>>

-----------------------------------------------------------------------------
(* The identity of the request, and its command.                            *)

Login(w) ==
  /\ At(w, "Login")
  /\ \/ app[w].form.cred = "who"  /\ Answer(w, "login")
     \/ app[w].form.cred = "full" /\ Goto(w, "Bind")
     \/ app[w].form.cred = "none" /\ Goto(w, "RootDSE")
  /\ UNCHANGED <<storeVars, conn, up, shown, requests>>

(* An LDAP operation of the worker: the connection may have been unbound by *)
(* another thread; the server may be down, or answer.  ldap0 reconnects by  *)
(* itself to a server that is up again.                                      *)
Unbound(w) == ~Connected(w) /\ Raise(w, "AttributeError")
ServerDown(w) == Connected(w) /\ conn[app[w].ls] \notin up
ServerUp(w) == Connected(w) /\ conn[app[w].ls] \in up
Fails(w, xs) == ServerUp(w) /\ \E x \in xs : Raise(w, x)

(* NO_SUCH_OBJECT of bind() is caught in place. *)
Bind(w) ==
  /\ At(w, "Bind")
  /\ \/ Unbound(w)
     \/ ServerDown(w) /\ Raise(w, "SERVER_DOWN")
     \/ ServerUp(w) /\ Goto(w, "CheckConn")
     \/ ServerUp(w) /\ Answer(w, "login")
     \/ Fails(w, {"InvalidSimpleBindDN", "INVALID_CREDENTIALS", "PasswordPolicy", "LDAPError"})
  /\ UNCHANGED <<storeVars, conn, up, shown, requests>>

(* init_rootdse() *)
RootDSE(w) ==
  /\ At(w, "RootDSE")
  /\ \/ Unbound(w)
     \/ ServerDown(w) /\ Raise(w, "SERVER_DOWN")
     \/ ServerUp(w) /\ Goto(w, "CheckConn")
     \/ Fails(w, {"LDAPError"})
  /\ UNCHANGED <<storeVars, conn, up, shown, requests>>

CheckConn(w) ==
  /\ At(w, "CheckConn")
  /\ \/ /\ ~Connected(w)
        /\ Answer(w, "redirect")
        /\ UNCHANGED storeVars
     \/ /\ Connected(w)
        /\ SaveSession(w)
        /\ Goto(w, "Dispatch")
  /\ UNCHANGED <<conn, up, shown, requests>>

CommandErrors == {"NO_SUCH_OBJECT", "REFERRAL", "InvalidSimpleBindDN", "INVALID_CREDENTIALS",
                  "PasswordPolicy", "LDAPError", "ErrorExit"}

Dispatch(w) ==
  /\ At(w, "Dispatch")
  /\ \/ Unbound(w)
     \/ ServerDown(w) /\ Goto(w, "Reconnect")
     \/ ServerUp(w) /\ Goto(w, "SaveEnd")
     \/ Fails(w, CommandErrors)
  /\ UNCHANGED <<storeVars, conn, up, shown, requests>>

Reconnect(w) ==
  /\ At(w, "Reconnect")
  /\ \/ Unbound(w)
     \/ ServerDown(w) /\ Raise(w, "SERVER_DOWN")
     \/ ServerUp(w) /\ Goto(w, "Redispatch")
     \/ Fails(w, {"LDAPError"})
  /\ UNCHANGED <<storeVars, conn, up, shown, requests>>

(* Mutant: a server that is down again is reconnected to again. *)
Redispatch_Forever(w) ==
  /\ At(w, "Redispatch")
  /\ \/ Unbound(w)
     \/ ServerDown(w) /\ Goto(w, "Reconnect")
     \/ ServerUp(w) /\ Answer(w, "page")
     \/ Fails(w, CommandErrors)
  /\ UNCHANGED <<storeVars, conn, up, shown, requests>>

(* The command is executed once more; the session is not saved after it. *)
Redispatch(w) ==
  /\ At(w, "Redispatch")
  /\ \/ Unbound(w)
     \/ ServerDown(w) /\ Raise(w, "SERVER_DOWN")
     \/ ServerUp(w) /\ Answer(w, "page")
     \/ Fails(w, CommandErrors)
  /\ UNCHANGED <<storeVars, conn, up, shown, requests>>

SaveEnd(w) ==
  /\ At(w, "SaveEnd")
  /\ SaveSession(w)
  /\ Answer(w, "page")
  /\ UNCHANGED <<conn, up, shown, requests>>

-----------------------------------------------------------------------------
(* The exception handlers of run().  An exception raised in one of them     *)
(* leaves run(), and no caller catches it: the request is not answered.     *)

(* exception_message() shows the menu of the current DN if connected. *)
ShowMessage(w) ==
  IF Connected(w) /\ ~app[w].dn THEN Goto(w, "Escaped") ELSE Answer(w, "page")

(* Mutant: the page shown contains the session just deleted. *)
HandleServerDown_Page(w) == DeleteSession(app[w].sid) /\ Answer(w, "page")

HandleServerDown(w) == DeleteSession(app[w].sid) /\ AnswerConnect(w)

Handler(w) ==
  /\ At(w, "Handler")
  /\ \/ /\ app[w].exc \in {"FormException", "ErrorExit", "NO_SUCH_OBJECT", "LDAPError"}
        /\ ShowMessage(w)
        /\ UNCHANGED <<storeVars, conn>>
     \/ /\ app[w].exc = "SERVER_DOWN"
        /\ HandleServerDown(w)
     \/ /\ app[w].exc \in {"InvalidSimpleBindDN", "INVALID_CREDENTIALS"}
        /\ Answer(w, "login")
        /\ UNCHANGED <<storeVars, conn>>
     \/ \* w2l_chasereferral() fails on referral information without a URL
        /\ app[w].exc = "REFERRAL"
        /\ Answer(w, "page") \/ Goto(w, "Escaped")
        /\ UNCHANGED <<storeVars, conn>>
     \/ \* the handler asks the server who is bound before it shows the form
        /\ app[w].exc = "PasswordPolicy"
        /\ IF Connected(w) /\ conn[app[w].ls] \in up
             THEN Answer(w, "page")
             ELSE Goto(w, "Escaped")
        /\ UNCHANGED <<storeVars, conn>>
     \/ /\ app[w].exc \in {"MaxSessions", "AttributeError"}
        /\ Answer(w, "message")
        /\ UNCHANGED <<storeVars, conn>>
     \/ /\ app[w].exc = "SessionException"
        /\ Answer(w, "redirect")
        /\ UNCHANGED <<storeVars, conn>>
  /\ UNCHANGED <<up, shown, requests>>

(* The response is sent; a page and a login form contain the session ID. *)
EndRequest(w) ==
  /\ pc[w] \in {"Done", "Escaped"}
  /\ shown' = IF app[w].answer \in {"page", "login"}
                THEN shown \union ({app[w].sid} \ {NoId})
                ELSE shown
  /\ Store!Forget(w)
  /\ Move(w, "Idle", NoApp)
  /\ UNCHANGED <<conn, up, requests>>

-----------------------------------------------------------------------------
HandleRequest(w) ==
  \/ Parse(w) \/ GetSession(w) \/ UseSession(w) \/ Disconnect(w)
  \/ Delsid(w) \/ Params(w) \/ ChooseURI(w)
  \/ DelSession(w) \/ NewSession(w) \/ SaveNew(w) \/ Open(w) \/ SaveOpen(w)
  \/ CheckLs(w) \/ Login(w) \/ Bind(w) \/ RootDSE(w) \/ CheckConn(w)
  \/ Dispatch(w) \/ Reconnect(w) \/ Redispatch(w) \/ SaveEnd(w)
  \/ Handler(w) \/ EndRequest(w)

Environment ==
  \/ \E w \in Workers, f \in Forms, s, d \in SessionIds \union {NoId} : Receive(w, f, s, d)
  \/ \E u \in URIs : ServerStops(u) \/ ServerStarts(u)
  \/ \E s \in SessionIds : ExpireSession(s)

Next == Environment \/ \E w \in Workers : HandleRequest(w)

(* The operating system runs every thread; LDAP operations end, each has a  *)
(* timeout (OPT_TIMEOUT).                                                    *)
Fairness == \A w \in Workers : WF_vars(HandleRequest(w))

Spec == Init /\ [][Next]_vars
FairSpec == Spec /\ Fairness

-----------------------------------------------------------------------------
(* Properties.                                                              *)

AppHandlers ==
  [form : Forms \union {NoForm}, asked : SessionIds \union {NoId},
   delsid : SessionIds \union {NoId}, sid : SessionIds \union {NoId},
   ls : SessionIds \union {NoId}, dn : BOOLEAN, uri : URIs \union {NoURI},
   exc : Exceptions \union {"none"}, answer : Answers]

(* Every variable has its type. *)
TypeOK ==
  /\ status \in [SessionIds -> {"unborn", "live", "gone"}]
  /\ data \in [SessionIds -> SessionIds \union {Created}]
  /\ got \in [Workers -> SessionIds \union {Created, NoId}]
  /\ conn \in [SessionIds -> URIs \union {NoURI}]
  /\ up \subseteq URIs
  /\ shown \subseteq SessionIds
  /\ requests \in 0..MaxRequests
  /\ pc \in [Workers -> Labels]
  /\ app \in [Workers -> AppHandlers]

(* An LDAPSession is unbound when its session is removed, by whichever of  *)
(* the requests that share it, or by expiry: no connection stays open that *)
(* no session leads to (_del_session(), Session.delete()).                  *)
NoConnectionLeak ==
  \A s \in SessionIds : conn[s] # NoURI => status[s] = "live"

(* A command that names a server is executed on a connection to it, also   *)
(* when the session it came with is connected elsewhere, or is shared.      *)
CommandOnNamedServer ==
  \A w \in Workers :
    pc[w] \in {"Bind", "RootDSE", "Dispatch", "Redispatch"} /\ app[w].form.url \in URIs /\ Connected(w)
      => conn[app[w].ls] = app[w].form.url

(* A command starts on a connection; one that is missing afterwards was    *)
(* unbound because the session was removed meanwhile (the test of           *)
(* self.ls.uri before the command, handler.py:905).                         *)
ConnectionLostOnlyByRemoval ==
  \A w \in Workers :
    app[w].exc = "AttributeError" /\ app[w].ls # NoId => status[app[w].ls] = "gone"

(* With one worker and no expiry every page contains a session that can be *)
(* used in the next request, if the page was made after the session was     *)
(* fetched.                                                                  *)
PageSidLive ==
  \A w \in Workers :
    pc[w] = "Done" /\ app[w].answer \in {"page", "login"} /\ app[w].ls # NoId
      => Live(app[w].sid)

(* The landing page after an attempt to connect ends the session: neither  *)
(* the session the request came with nor the one it made is left.           *)
ConnectPageEndsSession ==
  \A w \in Workers :
    pc[w] = "Done" /\ app[w].answer = "connect" /\ app[w].ls # NoId
      => ~Live(app[w].asked) /\ ~Live(app[w].ls)

(* The login form replaces a session: when its request reached the LDAP     *)
(* parameters the old session is gone, however the request then ends.        *)
SupersededRemoved ==
  \A w \in Workers : app[w].dn => ~Live(app[w].delsid)

(* Every request ends, also when servers keep stopping and starting: the    *)
(* command is retried once (handler.py:997).                                 *)
RequestEnds == \A w \in Workers : pc[w] # "Idle" ~> pc[w] = "Idle"
=============================================================================
