---------------------------- MODULE SessionStore ----------------------------
(***************************************************************************)
(* The web session store of web2ldap: web/session.py (class WebSession)    *)
(* and app/session.py (class Session, class ExpiryThread).                 *)
(*                                                                         *)
(* Request threads and the ExpiryThread share one store.  Each action is   *)
(* one access of a thread to the shared dictionaries, so a thread can be   *)
(* overtaken between any two of them; a block under _session_lock is one   *)
(* step, or two steps with the lock held when it writes two keys, since    *)
(* the unlocked readers can run between them.                              *)
(*                                                                         *)
(* sessiondict of the code is two functions here: `sessiondict' holds the  *)
(* keys that are session IDs, `checkvars' the '__session_checkvars__' keys.*)
(* Calls between the methods are the control labels in pc; loc[t] holds    *)
(* the local variables of the methods thread t is in.                      *)
(***************************************************************************)
EXTENDS Integers, FiniteSets

CONSTANTS
  Workers,          \* threads of the WSGI server that run AppHandler.run()
  Expirer,          \* the ExpiryThread
  SessionIds,       \* values random_string() can return
  Envs,             \* request environments, records [check, ip]
  SessionTTL,       \* web2ldapcnf.session_remove
  MaxSessions,      \* web2ldapcnf.session_limit
  MaxSessionsPerIP, \* web2ldapcnf.session_per_ip_limit
  Paranoid,         \* web2ldapcnf.session_paranoid # 0: requests rename
  MaxTime,          \* bound of the clock, for model checking
  MaxRequests,      \* bound of the requests, for model checking
  NoThread, NoId, NoIP, Created

Threads == Workers \union {Expirer}
RemoteIPs == {e.ip : e \in Envs}

ASSUME ThreadAssumption ==
  /\ IsFiniteSet(Workers)
  /\ Expirer \notin Workers
  /\ NoThread \notin Workers \union {Expirer}
ASSUME IdAssumption ==
  /\ IsFiniteSet(SessionIds)
  /\ NoId \notin SessionIds
  /\ Created \notin SessionIds \union {NoId}
ASSUME LimitAssumption ==
  /\ SessionTTL \in Nat \ {0}
  /\ MaxSessions \in Nat \ {0}
  /\ MaxSessionsPerIP \in Nat \ {0}
  /\ MaxTime \in Nat
  /\ MaxRequests \in Nat
  /\ Paranoid \in BOOLEAN

VARIABLES
  now,                     \* time.time()
  requests,                \* requests so far, against the bound MaxRequests
  sessiondict,             \* session ID -> (timestamp, session data)
  checkvars,               \* session ID -> environment to cross-check
  lock,                    \* holder of _session_lock
  issued,                  \* IDs drawn so far
  session_ip_addr,         \* session ID -> remote IP
  remote_ip_sessions,      \* remote IP -> set of session IDs
  holding,                 \* threads with a reference to a set of that dictionary
  max_concurrent_sessions, \* statistics shown by the monitor page
  expired_counter,
  unbound,                 \* LDAPSession objects whose unbind() was called
  pc, loc                  \* control and locals of each thread

storeVars == <<sessiondict, checkvars, lock, issued>>
ipVars    == <<session_ip_addr, remote_ip_sessions, holding>>
statVars  == <<max_concurrent_sessions, expired_counter>>
shared == <<now, requests, storeVars, ipVars, statVars, unbound>>
vars == <<now, requests, storeVars, ipVars, statVars, unbound, pc, loc>>

-----------------------------------------------------------------------------
(* An LDAPSession object is named after the ID it was created for; Created *)
(* is the placeholder '_created_' of WebSession.new().                      *)
SessionData == SessionIds \union {Created}
Entry == [ts : Nat, data : SessionData]

RetrieveLabels == {"RetLookup", "RetRead", "RetCheck"}
NewLabels == {"NewPerIP", "NewLimit", "NewStore", "NewVars", "NewIPAddr", "NewIPAdd",
              "SaveNew"}
RenameLabels == {"RenDelEntry", "RenDelVars", "RenIPAddr"}
ExpireLabels == {"ExpNext"}
DeleteLabels == {"DelPeek", "DelEntry", "DelVars", "DelIPAssoc", "DelIPSet",
                 "DelIPEmpty", "DelIPDrop"}
Labels == {"Idle", "Work", "Crashed"} \union RetrieveLabels \union NewLabels
            \union RenameLabels \union ExpireLabels \union DeleteLabels

Ops == {"none", "new", "retrieve", "rename", "delete"}

NoLocals == [op |-> "none", sid |-> NoId, new |-> NoId, check |-> NoIP,
             ip |-> NoIP, ls |-> Created, ts |-> 0, stored |-> NoIP,
             cur |-> 0, todo |-> {}, expired |-> 0, del |-> NoId, delip |-> NoIP,
             after |-> "Idle"]

Init ==
  /\ now = 0
  /\ requests = 0
  /\ sessiondict = [s \in {} |-> 0]
  /\ checkvars = [s \in {} |-> 0]
  /\ lock = NoThread
  /\ issued = {}
  /\ session_ip_addr = [s \in {} |-> 0]
  /\ remote_ip_sessions = [i \in {} |-> {}]
  /\ holding = {}
  /\ max_concurrent_sessions = 0
  /\ expired_counter = 0
  /\ unbound = {}
  /\ pc = [t \in Threads |-> "Idle"]
  /\ loc = [t \in Threads |-> NoLocals]

-----------------------------------------------------------------------------
(* Helpers: control flow, dictionary updates.                               *)

At(t, c) == pc[t] = c
Goto(t, c) == pc' = [pc EXCEPT ![t] = c] /\ UNCHANGED loc
Move(t, c, l) == pc' = [pc EXCEPT ![t] = c] /\ loc' = [loc EXCEPT ![t] = l]

(* The request ends: it is answered, or one of the exceptions of class     *)
(* SessionException leaves the store and AppHandler.run() shows a message.  *)
Finish(t) == Move(t, "Idle", NoLocals)

(* A KeyError leaves the method: no caller below run() expects it. *)
Crash(t) == Move(t, "Crashed", NoLocals)

Put(f, k, v) == [x \in DOMAIN f \union {k} |-> IF x = k THEN v ELSE f[x]]
(* Mutant: the lock is not released. *)
Release_Forgotten == UNCHANGED lock
Release == lock' = NoThread

SetDefault(f, k) == IF k \in DOMAIN f THEN f ELSE Put(f, k, {})
Drop(f, k) == [x \in DOMAIN f \ {k} |-> f[x]]

(* expire() first reads the time and copies the keys it loops over. *)
CallExpire(t, l) ==
  Move(t, "ExpNext", [l EXCEPT !.cur = now, !.todo = DOMAIN sessiondict])

LenSessiondict == Cardinality(DOMAIN sessiondict) + Cardinality(DOMAIN checkvars)
IsExpired(ts, time) == ts + SessionTTL < time

-----------------------------------------------------------------------------
(* The request threads: what AppHandler does with the store, and the clock. *)

Tick ==
  /\ now < MaxTime
  /\ now' = now + 1
  /\ UNCHANGED <<requests, storeVars, ipVars, statVars, unbound, pc, loc>>

BeginRequest ==
  /\ requests < MaxRequests
  /\ requests' = requests + 1

(* Session.new() begins with expire(). *)
StartNew(t, e) ==
  /\ At(t, "Idle")
  /\ BeginRequest
  /\ CallExpire(t, [NoLocals EXCEPT !.op = "new", !.check = e.check, !.ip = e.ip])
  /\ UNCHANGED <<now, storeVars, ipVars, statVars, unbound>>

StartRetrieve(t, s, e) ==
  /\ At(t, "Idle")
  /\ BeginRequest
  /\ Move(t, "RetLookup", [NoLocals EXCEPT !.op = "retrieve", !.sid = s,
                                           !.check = e.check, !.ip = e.ip])
  /\ UNCHANGED <<now, storeVars, ipVars, statVars, unbound>>

(* Form parameter delsid: any session of the client is removed. *)
StartDelete(t, s) ==
  /\ At(t, "Idle")
  /\ BeginRequest
  /\ Move(t, "DelPeek", [NoLocals EXCEPT !.op = "delete", !.del = s, !.after = "Idle"])
  /\ UNCHANGED <<now, storeVars, ipVars, statVars, unbound>>

(* web2ldapcnf.session_paranoid: after retrieve() the session is renamed.  *)
StartRename(t) ==
  /\ Paranoid
  /\ At(t, "Work")
  /\ loc[t].op = "retrieve"
  /\ Move(t, "RetLookup", [loc[t] EXCEPT !.op = "rename"])
  /\ UNCHANGED shared

(* Mutant: a late save() restores the cross-check data as well. *)
SaveSession_Revives(t) ==
  /\ At(t, "Work")
  /\ lock = NoThread
  /\ sessiondict' = Put(sessiondict, loc[t].sid, [ts |-> now, data |-> loc[t].ls])
  /\ checkvars' = Put(checkvars, loc[t].sid, loc[t].check)
  /\ UNCHANGED <<now, requests, lock, issued, ipVars, statVars, unbound, pc, loc>>

(* save() of the session the request holds. *)
SaveSession(t) ==
  /\ At(t, "Work")
  /\ lock = NoThread
  /\ sessiondict' = Put(sessiondict, loc[t].sid, [ts |-> now, data |-> loc[t].ls])
  /\ UNCHANGED <<now, requests, checkvars, lock, issued, ipVars, statVars, unbound, pc, loc>>

(* Command disconnect, _del_session() and the SERVER_DOWN handler. *)
DeleteOwn(t) ==
  /\ At(t, "Work")
  /\ Move(t, "DelPeek", [NoLocals EXCEPT !.op = "delete", !.del = loc[t].sid, !.after = "Idle"])
  /\ UNCHANGED shared

(* The except clause of ExpiryThread.run(), and of AppHandler.run(). *)
Recover(t) ==
  /\ At(t, "Crashed")
  /\ Goto(t, "Idle")
  /\ UNCHANGED <<now, requests, storeVars, ipVars, statVars, unbound>>

EndRequest(t) ==
  /\ At(t, "Work")
  /\ Finish(t)
  /\ UNCHANGED shared

-----------------------------------------------------------------------------
(* WebSession.retrieve()                                                    *)

(* The membership tests run without the lock. *)
RetLookup(t) ==
  /\ At(t, "RetLookup")
  /\ IF loc[t].sid \in DOMAIN sessiondict /\ loc[t].sid \in DOMAIN checkvars
       THEN Goto(t, "RetRead")
       ELSE Finish(t)
  /\ UNCHANGED shared

(* Both keys are read under the lock; the session may be gone by now. *)
RetRead(t) ==
  /\ At(t, "RetRead")
  /\ lock = NoThread
  /\ LET s == loc[t].sid IN
       IF s \in DOMAIN checkvars /\ s \in DOMAIN sessiondict
         THEN Move(t, "RetCheck", [loc[t] EXCEPT !.stored = checkvars[s],
                                                 !.ts = sessiondict[s].ts,
                                                 !.ls = sessiondict[s].data])
         ELSE Crash(t)
  /\ UNCHANGED shared

RetCheck(t) ==
  /\ At(t, "RetCheck")
  /\ IF IsExpired(loc[t].ts, now)
       THEN Move(t, "DelPeek", [loc[t] EXCEPT !.del = loc[t].sid, !.after = "RetInvalid"])
     ELSE IF loc[t].stored # loc[t].check
       THEN Finish(t)
     ELSE IF loc[t].op = "rename"
       THEN CallExpire(t, loc[t])
     ELSE IF loc[t].ls = Created
       THEN Finish(t)
     ELSE Goto(t, "Work")
  /\ UNCHANGED shared

-----------------------------------------------------------------------------
(* Session.new() after its expire(), with WebSession.new() inside.          *)

PerIPExceeded(ip) ==
  ip \in DOMAIN remote_ip_sessions /\ Cardinality(remote_ip_sessions[ip]) >= MaxSessionsPerIP

NewPerIP(t) ==
  /\ At(t, "NewPerIP")
  /\ IF PerIPExceeded(loc[t].ip)
       THEN Finish(t)
       ELSE Goto(t, "NewLimit")
  /\ UNCHANGED shared

(* len(sessiondict)/2+1 > max_sessions, read before the lock is taken; the *)
(* mutant does not count the session about to be created.                   *)
SessionsExceeded_OffByOne == LenSessiondict > 2 * MaxSessions
SessionsExceeded == LenSessiondict + 2 > 2 * MaxSessions

NewLimit(t) ==
  /\ At(t, "NewLimit")
  /\ IF SessionsExceeded
       THEN Finish(t)
       ELSE Goto(t, "NewStore")
  /\ UNCHANGED shared

(* _generateSessionID(maxtry=3) under the lock: three collisions with keys *)
(* of sessiondict raise, else an ID that was never drawn before is found.   *)
(* Mutant: None instead of an exception.                                    *)
NewIds_None == (SessionIds \ issued) \union {NoId}
NewIds == SessionIds \ issued

NewStore(t) ==
  /\ At(t, "NewStore")
  /\ lock = NoThread
  /\ \/ /\ DOMAIN sessiondict # {}
        /\ Finish(t)
        /\ UNCHANGED storeVars
     \/ \E s \in NewIds :
          /\ lock' = t
          /\ sessiondict' = Put(sessiondict, s, [ts |-> now, data |-> Created])
          /\ Move(t, "NewVars", [loc[t] EXCEPT !.new = s])
          /\ UNCHANGED <<checkvars, issued>>
  /\ UNCHANGED <<now, requests, ipVars, statVars, unbound>>

NewVars(t) ==
  /\ At(t, "NewVars")
  /\ checkvars' = Put(checkvars, loc[t].new, loc[t].check)
  /\ issued' = issued \union {loc[t].new}
  /\ Release
  /\ Goto(t, "NewIPAddr")
  /\ UNCHANGED <<now, requests, sessiondict, ipVars, statVars, unbound>>

(* The statistics and the two dictionaries of remote IPs are written with  *)
(* no lock: self.remote_ip_sessions[remote_ip] of the defaultdict ...       *)
NewIPAddr(t) ==
  /\ At(t, "NewIPAddr")
  /\ LET n == LenSessiondict \div 2 IN
       max_concurrent_sessions' =
         IF n > max_concurrent_sessions THEN n ELSE max_concurrent_sessions
  /\ session_ip_addr' = Put(session_ip_addr, loc[t].new, loc[t].ip)
  /\ remote_ip_sessions' = SetDefault(remote_ip_sessions, loc[t].ip)
  /\ holding' = holding \union {t}
  /\ Goto(t, "NewIPAdd")
  /\ UNCHANGED <<now, requests, storeVars, expired_counter, unbound>>

(* ... .add(session_id): into a set that is no longer in the dictionary if *)
(* another thread deleted the key in between.                               *)
NewIPAdd(t) ==
  /\ At(t, "NewIPAdd")
  /\ IF t \in holding
       THEN remote_ip_sessions' = [remote_ip_sessions EXCEPT ![loc[t].ip] = @ \union {loc[t].new}]
       ELSE UNCHANGED remote_ip_sessions
  /\ holding' = holding \ {t}
  /\ Goto(t, "SaveNew")
  /\ UNCHANGED <<now, requests, storeVars, session_ip_addr, statVars, unbound>>

(* The caller saves what the new session is for: rename() the data of the  *)
(* old session, _new_session() the LDAPSession it has made.                 *)
SaveNew(t) ==
  /\ At(t, "SaveNew")
  /\ lock = NoThread
  /\ IF loc[t].op = "rename"
       THEN /\ sessiondict' = Put(sessiondict, loc[t].new, [ts |-> now, data |-> loc[t].ls])
            /\ Goto(t, "RenDelEntry")
       ELSE /\ sessiondict' = Put(sessiondict, loc[t].new, [ts |-> now, data |-> loc[t].new])
            /\ Move(t, "Work", [loc[t] EXCEPT !.sid = loc[t].new, !.ls = loc[t].new])
  /\ UNCHANGED <<now, requests, checkvars, lock, issued, ipVars, statVars, unbound>>

-----------------------------------------------------------------------------
(* Session.rename() after its save(); WebSession.delete() of the old ID     *)
(* does not unbind, the LDAPSession lives on under the new ID.              *)

RenDelEntry(t) ==
  /\ At(t, "RenDelEntry")
  /\ lock = NoThread
  /\ lock' = t
  /\ sessiondict' = Drop(sessiondict, loc[t].sid)
  /\ Move(t, "RenDelVars", [loc[t] EXCEPT !.del = loc[t].sid])
  /\ UNCHANGED <<now, requests, checkvars, issued, ipVars, statVars, unbound>>

RenDelVars(t) ==
  /\ At(t, "RenDelVars")
  /\ checkvars' = Drop(checkvars, loc[t].del)
  /\ Release
  /\ Goto(t, "RenIPAddr")
  /\ UNCHANGED <<now, requests, sessiondict, issued, ipVars, statVars, unbound>>

RenIPAddr(t) ==
  /\ At(t, "RenIPAddr")
  /\ session_ip_addr' = Drop(Put(session_ip_addr, loc[t].new, loc[t].ip), loc[t].sid)
  /\ Move(t, "DelIPSet", [loc[t] EXCEPT !.delip = loc[t].ip, !.after = "Work",
                                         !.del = loc[t].sid])
  /\ UNCHANGED <<now, requests, storeVars, remote_ip_sessions, holding, statVars, unbound>>

-----------------------------------------------------------------------------
(* Session.expire(), called by the ExpiryThread and first of all by new(). *)

StartExpiry ==
  /\ At(Expirer, "Idle")
  /\ CallExpire(Expirer, NoLocals)
  /\ UNCHANGED shared

(* Mutant: the expiry skips entries without cross-check data. *)
ExpiryDue_OnlyLive(s, time) == s \in DOMAIN checkvars /\ IsExpired(sessiondict[s].ts, time)
ExpiryDue(s, time) == IsExpired(sessiondict[s].ts, time)

(* One key of the copy.  A key that was deleted since raises KeyError: the *)
(* handler around the read catches InvalidSessionId only.                   *)
ExpNext(t) ==
  /\ At(t, "ExpNext")
  /\ \E s \in loc[t].todo :
       IF s \notin DOMAIN sessiondict
         THEN Crash(t)
       ELSE IF ExpiryDue(s, loc[t].cur)
         THEN Move(t, "DelPeek", [loc[t] EXCEPT !.todo = loc[t].todo \ {s}, !.del = s,
                                                !.after = "ExpNext"])
       ELSE Move(t, "ExpNext", [loc[t] EXCEPT !.todo = loc[t].todo \ {s}])
  /\ UNCHANGED shared

(* The end of the loop: the ExpiryThread waits, new() goes on. *)
ExpDone(t) ==
  /\ At(t, "ExpNext")
  /\ loc[t].todo = {}
  /\ expired_counter' = expired_counter + loc[t].expired
  /\ IF t = Expirer
       THEN Finish(t)
       ELSE Move(t, "NewPerIP", [loc[t] EXCEPT !.expired = 0, !.cur = 0])
  /\ UNCHANGED <<now, requests, storeVars, ipVars, max_concurrent_sessions, unbound>>

-----------------------------------------------------------------------------
(* Session.delete() and _remove_ip_assoc(); loc[t].after is the caller.     *)

Return(t) ==
  \/ loc[t].after \in {"Idle", "RetInvalid"} /\ Finish(t)
  \/ /\ loc[t].after = "ExpNext"
     /\ Move(t, "ExpNext", [loc[t] EXCEPT !.expired = loc[t].expired + 1, !.del = NoId,
                                          !.delip = NoIP, !.after = "Idle"])
  \/ /\ loc[t].after = "Work"
     /\ Move(t, "Work", [loc[t] EXCEPT !.sid = loc[t].new, !.del = NoId,
                                       !.delip = NoIP, !.after = "Idle"])

(* Mutant: delete() returns after the unbind(). *)
DelPeek_KeepsEntry(t) ==
  /\ At(t, "DelPeek")
  /\ LET s == loc[t].del IN
       IF s \in DOMAIN sessiondict /\ sessiondict[s].data # Created
         THEN unbound' = unbound \union {sessiondict[s].data} /\ Return(t)
         ELSE UNCHANGED unbound /\ Goto(t, "DelEntry")
  /\ UNCHANGED <<now, requests, storeVars, ipVars, statVars>>

(* The LDAPSession is read without the lock, then unbound. *)
DelPeek(t) ==
  /\ At(t, "DelPeek")
  /\ LET s == loc[t].del IN
       IF s \in DOMAIN sessiondict /\ sessiondict[s].data # Created
         THEN unbound' = unbound \union {sessiondict[s].data}
         ELSE UNCHANGED unbound
  /\ Goto(t, "DelEntry")
  /\ UNCHANGED <<now, requests, storeVars, ipVars, statVars>>

DelEntry(t) ==
  /\ At(t, "DelEntry")
  /\ lock = NoThread
  /\ lock' = t
  /\ sessiondict' = Drop(sessiondict, loc[t].del)
  /\ Goto(t, "DelVars")
  /\ UNCHANGED <<now, requests, checkvars, issued, ipVars, statVars, unbound>>

(* Mutant: the cross-check data is forgotten. *)
WithoutVars_Kept(s) == checkvars
WithoutVars(s) == Drop(checkvars, s)

DelVars(t) ==
  /\ At(t, "DelVars")
  /\ checkvars' = WithoutVars(loc[t].del)
  /\ Release
  /\ Goto(t, "DelIPAssoc")
  /\ UNCHANGED <<now, requests, sessiondict, issued, ipVars, statVars, unbound>>

DelIPAssoc(t) ==
  /\ At(t, "DelIPAssoc")
  /\ session_ip_addr' = Drop(session_ip_addr, loc[t].del)
  /\ IF loc[t].del \in DOMAIN session_ip_addr
       THEN Move(t, "DelIPSet", [loc[t] EXCEPT !.delip = session_ip_addr[loc[t].del]])
       ELSE Return(t)
  /\ UNCHANGED <<now, requests, storeVars, remote_ip_sessions, holding, statVars, unbound>>

(* remove() of the set; without the sid it raises, and the defaultdict has *)
(* got an empty set for the IP all the same.                                *)
DelIPSet(t) ==
  /\ At(t, "DelIPSet")
  /\ LET ip == loc[t].delip
         sets == SetDefault(remote_ip_sessions, ip) IN
       /\ remote_ip_sessions' = [sets EXCEPT ![ip] = @ \ {loc[t].del}]
       /\ IF loc[t].del \in sets[ip]
            THEN Goto(t, "DelIPEmpty")
            ELSE Return(t)
  /\ UNCHANGED <<now, requests, storeVars, session_ip_addr, holding, statVars, unbound>>

DelIPEmpty(t) ==
  /\ At(t, "DelIPEmpty")
  /\ remote_ip_sessions' = SetDefault(remote_ip_sessions, loc[t].delip)
  /\ IF remote_ip_sessions'[loc[t].delip] # {}
       THEN Return(t)
       ELSE Goto(t, "DelIPDrop")
  /\ UNCHANGED <<now, requests, storeVars, session_ip_addr, holding, statVars, unbound>>

(* del of the key: a thread in front of NewIPAdd keeps the old set.       *)
DelIPDrop(t) ==
  /\ At(t, "DelIPDrop")
  /\ LET ip == loc[t].delip IN
       IF ip \in DOMAIN remote_ip_sessions
         THEN /\ remote_ip_sessions' = Drop(remote_ip_sessions, ip)
              /\ holding' = {u \in holding : loc[u].ip # ip}
              /\ Return(t)
         ELSE /\ UNCHANGED <<remote_ip_sessions, holding>>
              /\ Crash(t)
  /\ UNCHANGED <<now, requests, storeVars, session_ip_addr, statVars, unbound>>

-----------------------------------------------------------------------------
(* The ExpiryThread only ever starts expire().                              *)

Request(t) ==
  \/ \E e \in Envs : StartNew(t, e)
  \/ \E s \in issued, e \in Envs : StartRetrieve(t, s, e)
  \/ \E s \in issued : StartDelete(t, s)
  \/ StartRename(t) \/ SaveSession(t) \/ DeleteOwn(t) \/ EndRequest(t)

Retrieve(t) == RetLookup(t) \/ RetRead(t) \/ RetCheck(t)

New(t) ==
  \/ NewPerIP(t) \/ NewLimit(t) \/ NewStore(t) \/ NewVars(t)
  \/ NewIPAddr(t) \/ NewIPAdd(t) \/ SaveNew(t)

Rename(t) == RenDelEntry(t) \/ RenDelVars(t) \/ RenIPAddr(t)

Expire(t) == ExpNext(t) \/ ExpDone(t)

Delete(t) ==
  \/ DelPeek(t) \/ DelEntry(t) \/ DelVars(t) \/ DelIPAssoc(t)
  \/ DelIPSet(t) \/ DelIPEmpty(t) \/ DelIPDrop(t)

(* A step inside a method of the store: the thread scheduler owes those.   *)
StoreStep(t) == Retrieve(t) \/ New(t) \/ Rename(t) \/ Expire(t) \/ Delete(t) \/ Recover(t)

Next ==
  \/ Tick
  \/ StartExpiry
  \/ \E t \in Workers : Request(t)
  \/ \E t \in Threads : StoreStep(t)

Spec == Init /\ [][Next]_vars

(* Every thread inside a method keeps running, and the ExpiryThread keeps   *)
(* coming back from its wait().  Weak fairness of a thread is enough for    *)
(* the lock too: the other threads hold it for a bounded number of steps of *)
(* a bounded number of requests.                                            *)
Fairness ==
  /\ WF_vars(StartExpiry)
  /\ \A t \in Threads : WF_vars(StoreStep(t))

FairSpec == Spec /\ Fairness

-----------------------------------------------------------------------------
(* Properties.                                                              *)

Checks == {e.check : e \in Envs}
Locals ==
  [op : Ops, sid : SessionIds \union {NoId}, new : SessionIds \union {NoId},
   check : Checks \union {NoIP}, ip : RemoteIPs \union {NoIP},
   ls : SessionData, ts : Nat, stored : Checks \union {NoIP},
   cur : Nat, todo : SUBSET SessionIds, expired : Nat,
   del : SessionIds \union {NoId}, delip : RemoteIPs \union {NoIP},
   after : {"Idle", "Work", "RetInvalid", "ExpNext"}]

StoreTypeOK ==
  /\ now \in Nat
  /\ requests \in Nat
  /\ DOMAIN sessiondict \subseteq SessionIds
  /\ \A s \in DOMAIN sessiondict : sessiondict[s] \in Entry
  /\ DOMAIN checkvars \subseteq issued
  /\ \A s \in DOMAIN checkvars : checkvars[s] \in Checks
  /\ issued \subseteq SessionIds
  /\ lock \in Threads \union {NoThread}
  /\ DOMAIN session_ip_addr \subseteq SessionIds
  /\ \A s \in DOMAIN session_ip_addr : session_ip_addr[s] \in RemoteIPs
  /\ DOMAIN remote_ip_sessions \subseteq RemoteIPs
  /\ \A i \in DOMAIN remote_ip_sessions : remote_ip_sessions[i] \subseteq SessionIds
  /\ holding \subseteq Workers
  /\ max_concurrent_sessions \in Nat
  /\ expired_counter \in Nat
  /\ unbound \subseteq SessionIds

(* Types of the store and of the locals of its threads. *)
TypeOK ==
  /\ StoreTypeOK
  /\ pc \in [Threads -> Labels]
  /\ loc \in [Threads -> Locals]

(* The locals l a thread relies on at its control point c. *)
LocalsOK(t, c, l) ==
  /\ t = Expirer =>
       /\ c \in {"Idle", "Crashed", "ExpNext"} \union DeleteLabels
       /\ c \in DeleteLabels => l.after = "ExpNext"
  /\ l.op \in {"new", "retrieve", "rename"} => l.ip \in RemoteIPs /\ l.check \in Checks
  /\ l.op = "rename" \/ c \in RetrieveLabels \union {"Work"} => l.sid \in SessionIds
  /\ c \in NewLabels => l.op \in {"new", "rename"}
  /\ c \in RenameLabels => l.op = "rename"
  /\ c \in RetrieveLabels => l.op \in {"retrieve", "rename"}
  /\ (c = "ExpNext" \/ (c \in DeleteLabels /\ l.after = "ExpNext")) =>
       t = Expirer \/ l.op \in {"new", "rename"}
  /\ c \in {"NewVars", "NewIPAddr", "NewIPAdd", "SaveNew"} \union RenameLabels => l.new \in SessionIds
  /\ c \in DeleteLabels \union {"RenDelVars"} => l.del \in SessionIds
  /\ c \in DeleteLabels /\ l.after = "Work" => l.new \in SessionIds /\ l.op = "rename"
  /\ c \in {"DelIPSet", "DelIPEmpty", "DelIPDrop"} => l.delip \in RemoteIPs

Live == DOMAIN sessiondict \intersect DOMAIN checkvars

(* The cross-check data of a session never outlives the session's entry:   *)
(* whenever no thread is inside a locked block, every                       *)
(* '__session_checkvars__' key of sessiondict belongs to a session ID that  *)
(* is there too, so the two keys that new() adds under the lock are removed *)
(* together by delete(), rename() and every expiry, in all interleavings.   *)
NoOrphanCheckvars == lock = NoThread => DOMAIN checkvars \subseteq DOMAIN sessiondict

(* new() tests max_sessions before it takes the lock, so concurrent        *)
(* requests can pass the test together; the limit is overshot by at most    *)
(* one session for each further request thread, never without bound.        *)
SessionLimitOvershoot ==
  Cardinality(DOMAIN checkvars) <= MaxSessions + Cardinality(Workers) - 1

(* web2ldapcnf: "Maximum number of concurrent web sessions stored". *)
SessionLimit == Cardinality(DOMAIN checkvars) <= MaxSessions

(* The comment in WebSession.expire(): "Avoid race condition. The session  *)
(* might have been deleted in the meantime."  No expiry run ends in an      *)
(* exception.                                                               *)
ExpiryNeverFails == pc[Expirer] # "Crashed"

(* A session that can be retrieved has a bound connection: its LDAPSession *)
(* is unbound only by a delete() of that session that is still under way,   *)
(* never by the expiry of an entry that shares the LDAPSession.             *)
UnboundOnlyIfRemoved ==
  \A s \in Live :
    sessiondict[s].data \in unbound
      => \E t \in Threads : pc[t] \in {"DelEntry", "DelVars"} /\ loc[t].del = s

(* Every entry that is expired is removed or refreshed sooner or later,    *)
(* also entries a late save() left without their cross-check data.          *)
ExpiredEntry(s) == s \in DOMAIN sessiondict /\ IsExpired(sessiondict[s].ts, now)
ExpiredIsRemoved == \A s \in SessionIds : ExpiredEntry(s) ~> ~ExpiredEntry(s)

(* A method of the store always returns or raises: no thread waits forever *)
(* for the lock, also after an exception inside a locked block.             *)
StoreCallReturns ==
  \A t \in Threads : pc[t] \notin {"Idle", "Work"} ~> pc[t] \in {"Idle", "Work"}

-----------------------------------------------------------------------------
(* The store implements SessionRegistry: a session is live while both its  *)
(* keys are in sessiondict, and retrieve() fetches at its locked read.      *)

Registry == INSTANCE SessionRegistry WITH
  Threads <- Threads,
  Data <- SessionIds,
  Nothing <- NoId,
  status <- [s \in SessionIds |-> IF s \in Live THEN "live"
                                  ELSE IF s \in issued THEN "gone" ELSE "unborn"],
  data <- [s \in SessionIds |-> IF s \in Live THEN sessiondict[s].data ELSE Created],
  got <- [t \in Threads |-> IF pc[t] = "RetCheck" THEN loc[t].ls ELSE NoId]

(* A session that was deleted, expired or renamed is never retrieved again, *)
(* whatever late save() and whatever interleaving; a live session never     *)
(* changes from one LDAPSession to another; retrieve() returns the data of  *)
(* the session at the moment of its locked read.                            *)
ImplementsRegistry == Registry!Spec
=============================================================================
