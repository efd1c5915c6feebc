------------------------- MODULE SessionStoreProofs -------------------------
(***************************************************************************)
(* Theorems about SessionStore for every set of request threads, session   *)
(* IDs and environments and every limit.                                    *)
(*                                                                         *)
(* The proof is in three layers, each an invariant that uses the layers    *)
(* below it: ControlOK and StoreTypeOK type every variable and say which    *)
(* locals a thread can rely on at its control point; LockOK and VarsOK say *)
(* who holds the lock and where the two keys of a session may differ;       *)
(* Overshoot counts the threads that have passed the test of max_sessions.  *)
(***************************************************************************)
EXTENDS SessionStore, FiniteSetTheorems, TLAPS

ControlOK ==
  /\ pc \in [Threads -> Labels]
  /\ loc \in [Threads -> Locals]
  /\ \A t \in Threads : LocalsOK(t, pc[t], loc[t])

TInv == StoreTypeOK /\ ControlOK

-----------------------------------------------------------------------------
(* Control: a step of a thread moves that thread only.                      *)

USE DEF Labels, RetrieveLabels, NewLabels, RenameLabels, ExpireLabels, DeleteLabels

(* A thread that moves to a control point with locals fit for it keeps the *)
(* invariant.                                                               *)
LEMMA Moved ==
  ASSUME ControlOK, NEW t \in Threads, NEW c \in Labels, NEW l \in Locals,
         LocalsOK(t, c, l), Move(t, c, l)
  PROVE  ControlOK'
<1>1. pc' \in [Threads -> Labels] /\ loc' \in [Threads -> Locals]
  BY DEF ControlOK, Move
<1>2. ASSUME NEW u \in Threads PROVE LocalsOK(u, pc'[u], loc'[u])
  <2>1. CASE u = t
    BY <2>1 DEF ControlOK, Move
  <2>2. CASE u # t
    BY <2>2 DEF ControlOK, Move
  <2>3. QED BY <2>1, <2>2
<1>3. QED BY <1>1, <1>2 DEF ControlOK, LocalsOK

(* The same for a step that leaves the locals alone. *)
LEMMA Gone ==
  ASSUME ControlOK, NEW t \in Threads, NEW c \in Labels, LocalsOK(t, c, loc[t]), Goto(t, c)
  PROVE  ControlOK'
<1>1. loc[t] \in Locals
  BY DEF ControlOK
<1>2. Move(t, c, loc[t])
  BY DEF ControlOK, Goto, Move
<1>3. QED BY <1>1, <1>2, Moved

(* The locals of a thread without a request. *)
LEMMA NoLocalsType == NoLocals \in Locals
BY DEF NoLocals, Locals, Ops, SessionData

(* The end of a request and a KeyError leave no locals behind. *)
LEMMA Finished ==
  ASSUME ControlOK, NEW t \in Threads, Finish(t) \/ Crash(t)
  PROVE  ControlOK'
<1>1. \A c \in {"Idle", "Crashed"} : c \in Labels /\ LocalsOK(t, c, NoLocals)
  BY DEF LocalsOK, NoLocals
<1>2. QED BY <1>1, NoLocalsType, Moved DEF Finish, Crash

(* The caller of delete() finds its locals as it left them. *)
LEMMA Returned ==
  ASSUME ControlOK, NEW t \in Threads, pc[t] \in DeleteLabels, Return(t)
  PROVE  ControlOK'
<1>1. loc[t] \in Locals /\ LocalsOK(t, pc[t], loc[t])
  BY DEF ControlOK
<1>2. CASE Finish(t)
  BY <1>2, Finished
<1>3. CASE loc[t].after = "ExpNext"
  <2> DEFINE l(n) == [loc[t] EXCEPT !.expired = n, !.del = NoId, !.delip = NoIP,
                                    !.after = "Idle"]
  <2>1. loc[t].expired + 1 \in Nat
    BY <1>1 DEF Locals
  <2>2. \A n \in Nat : l(n) \in Locals
    BY <1>1 DEF Locals
  <2>3. \A n \in Nat : LocalsOK(t, "ExpNext", l(n))
    BY <1>3, <1>1 DEF LocalsOK, Locals
  <2>4. Move(t, "ExpNext", l(loc[t].expired + 1)) \/ Finish(t)
    BY <1>3 DEF Return
  <2> HIDE DEF l
  <2>5. QED BY <2>1, <2>2, <2>3, <2>4, Moved, Finished
<1>4. CASE loc[t].after = "Work"
  <2> DEFINE l == [loc[t] EXCEPT !.sid = loc[t].new, !.del = NoId, !.delip = NoIP,
                                 !.after = "Idle"]
  <2>1. Move(t, "Work", l)
    BY <1>4 DEF Return
  <2>2. l \in Locals
    BY <1>1 DEF Locals
  <2>3. LocalsOK(t, "Work", l)
    BY <1>4, <1>1 DEF LocalsOK, Locals
  <2>4. QED BY <2>1, <2>2, <2>3, Moved
<1>5. QED BY <1>1, <1>2, <1>3, <1>4 DEF Return

(* expire() is entered with the request's locals, or with none. *)
LEMMA CalledExpire ==
  ASSUME TInv, NEW t \in Threads, NEW l \in Locals, LocalsOK(t, "Idle", l),
         t = Expirer \/ l.op \in {"new", "rename"}, CallExpire(t, l)
  PROVE  ControlOK'
<1> DEFINE m == [l EXCEPT !.cur = now, !.todo = DOMAIN sessiondict]
<1>1. m \in Locals
  BY DEF TInv, StoreTypeOK, Locals
<1>2. LocalsOK(t, "ExpNext", m)
  BY DEF LocalsOK, Locals
<1>3. QED BY <1>1, <1>2, Moved DEF CallExpire, TInv

(* The steps in front of the store. *)
LEMMA RequestControl ==
  ASSUME TInv, NEW t \in Workers, Request(t)
  PROVE  ControlOK'
<1> USE DEF TInv
<1>1. t \in Threads /\ t # Expirer
  BY ThreadAssumption DEF Threads
<1>2. loc[t] \in Locals /\ LocalsOK(t, pc[t], loc[t])
  BY <1>1 DEF ControlOK
<1>3. ASSUME NEW e \in Envs, StartNew(t, e) PROVE ControlOK'
  <2> DEFINE l == [NoLocals EXCEPT !.op = "new", !.check = e.check, !.ip = e.ip]
  <2>1. l \in Locals /\ l.op = "new"
    BY NoLocalsType DEF Locals, NoLocals, Ops, Checks, RemoteIPs
  <2>2. LocalsOK(t, "Idle", l)
    BY <1>1 DEF LocalsOK, NoLocals, Checks, RemoteIPs
  <2>3. CallExpire(t, l)
    BY <1>3 DEF StartNew
  <2> HIDE DEF l
  <2>4. QED BY <1>1, <2>1, <2>2, <2>3, CalledExpire
<1>4. ASSUME NEW s \in issued, NEW e \in Envs, StartRetrieve(t, s, e) PROVE ControlOK'
  <2> DEFINE l == [NoLocals EXCEPT !.op = "retrieve", !.sid = s, !.check = e.check, !.ip = e.ip]
  <2>1. l \in Locals
    BY NoLocalsType DEF Locals, NoLocals, Ops, Checks, RemoteIPs, StoreTypeOK
  <2>2. LocalsOK(t, "RetLookup", l)
    BY <1>1 DEF LocalsOK, NoLocals, Checks, RemoteIPs, StoreTypeOK
  <2>3. Move(t, "RetLookup", l)
    BY <1>4 DEF StartRetrieve
  <2>4. QED BY <1>1, <2>1, <2>2, <2>3, Moved
<1>5. ASSUME NEW s \in issued \union {loc[t].sid}, s \in SessionIds,
             Move(t, "DelPeek", [NoLocals EXCEPT !.op = "delete", !.del = s, !.after = "Idle"])
      PROVE  ControlOK'
  <2> DEFINE l == [NoLocals EXCEPT !.op = "delete", !.del = s, !.after = "Idle"]
  <2>1. l \in Locals
    BY <1>5, NoLocalsType DEF Locals, NoLocals, Ops
  <2>2. LocalsOK(t, "DelPeek", l)
    BY <1>1, <1>5 DEF LocalsOK, NoLocals
  <2>3. QED BY <1>1, <1>5, <2>1, <2>2, Moved
<1>6. ASSUME NEW s \in issued, StartDelete(t, s) PROVE ControlOK'
  BY <1>5, <1>6 DEF StartDelete, StoreTypeOK
<1>7. CASE DeleteOwn(t)
  BY <1>2, <1>5, <1>7 DEF DeleteOwn, At, LocalsOK
<1>8. CASE StartRename(t)
  <2> DEFINE l == [loc[t] EXCEPT !.op = "rename"]
  <2>1. l \in Locals
    BY <1>2 DEF Locals, Ops
  <2>2. LocalsOK(t, "RetLookup", l)
    BY <1>1, <1>2, <1>8 DEF LocalsOK, StartRename, At, Locals
  <2>3. QED BY <1>1, <1>8, <2>1, <2>2, Moved DEF StartRename
<1>9. CASE SaveSession(t)
  BY <1>9 DEF SaveSession, ControlOK, LocalsOK
<1>10. CASE EndRequest(t)
  BY <1>1, <1>10, Finished DEF EndRequest
<1>11. QED BY <1>3, <1>4, <1>6, <1>7, <1>8, <1>9, <1>10 DEF Request

(* retrieve() *)
LEMMA RetrieveControl ==
  ASSUME TInv, NEW t \in Threads, Retrieve(t)
  PROVE  ControlOK'
<1> USE DEF TInv
<1>1. loc[t] \in Locals /\ LocalsOK(t, pc[t], loc[t])
  BY DEF ControlOK
<1>2. CASE RetLookup(t)
  <2>1. LocalsOK(t, "RetRead", loc[t])
    BY <1>1, <1>2 DEF RetLookup, At, LocalsOK
  <2>2. QED BY <1>2, <2>1, Gone, Finished DEF RetLookup
<1>3. CASE RetRead(t)
  <2>1. CASE Crash(t)
    BY <2>1, Finished
  <2>2. CASE ~Crash(t)
    <3> DEFINE s == loc[t].sid
               l == [loc[t] EXCEPT !.stored = checkvars[s], !.ts = sessiondict[s].ts,
                                   !.ls = sessiondict[s].data]
    <3>1. Move(t, "RetCheck", l) /\ s \in DOMAIN checkvars /\ s \in DOMAIN sessiondict
      BY <1>3, <2>2 DEF RetRead
    <3>2. checkvars[s] \in Checks /\ sessiondict[s].ts \in Nat /\ sessiondict[s].data \in SessionData
      BY <3>1 DEF StoreTypeOK, Entry
    <3>3. l \in Locals
      BY <1>1, <3>2 DEF Locals
    <3>4. LocalsOK(t, "RetCheck", l)
      BY <1>1, <1>3 DEF LocalsOK, Locals, RetRead, At
    <3>5. QED BY <3>1, <3>3, <3>4, Moved
  <2>3. QED BY <2>1, <2>2
<1>4. CASE RetCheck(t)
  <2>1. CASE Finish(t)
    BY <2>1, Finished
  <2>2. CASE Goto(t, "Work") /\ loc[t].op # "rename"
    <3>1. LocalsOK(t, "Work", loc[t])
      BY <1>1, <1>4 DEF LocalsOK, RetCheck, At
    <3>2. QED BY <2>2, <3>1, Gone
  <2>3. CASE CallExpire(t, loc[t]) /\ loc[t].op = "rename"
    <3>1. LocalsOK(t, "Idle", loc[t])
      BY <1>1, <1>4 DEF LocalsOK, RetCheck, At
    <3>2. QED BY <1>1, <2>3, <3>1, CalledExpire
  <2> DEFINE l == [loc[t] EXCEPT !.del = loc[t].sid, !.after = "RetInvalid"]
  <2>4. CASE Move(t, "DelPeek", l)
    <3>1. l \in Locals
      BY <1>1 DEF Locals
    <3>2. LocalsOK(t, "DelPeek", l)
      BY <1>1, <1>4 DEF LocalsOK, Locals, RetCheck, At
    <3>3. QED BY <2>4, <3>1, <3>2, Moved
  <2>5. QED BY <1>4, <2>1, <2>2, <2>3, <2>4 DEF RetCheck
<1>5. QED BY <1>2, <1>3, <1>4 DEF Retrieve

(* new() *)
LEMMA NewControl ==
  ASSUME TInv, NEW t \in Threads, New(t)
  PROVE  ControlOK'
<1> USE DEF TInv, At
<1>1. loc[t] \in Locals /\ LocalsOK(t, pc[t], loc[t])
  BY DEF ControlOK
<1>2. CASE NewPerIP(t)
  <2>1. LocalsOK(t, "NewLimit", loc[t])
    BY <1>1, <1>2 DEF NewPerIP, LocalsOK
  <2>2. QED BY <1>2, <2>1, Gone, Finished DEF NewPerIP
<1>3. CASE NewLimit(t)
  <2>1. LocalsOK(t, "NewStore", loc[t])
    BY <1>1, <1>3 DEF NewLimit, LocalsOK
  <2>2. QED BY <1>3, <2>1, Gone, Finished DEF NewLimit
<1>4. CASE NewStore(t)
  <2>1. CASE Finish(t)
    BY <2>1, Finished
  <2>2. CASE \E s \in NewIds : Move(t, "NewVars", [loc[t] EXCEPT !.new = s])
    <3>1. PICK s \in SessionIds : Move(t, "NewVars", [loc[t] EXCEPT !.new = s])
      BY <2>2 DEF NewIds
    <3>2. [loc[t] EXCEPT !.new = s] \in Locals
      BY <1>1 DEF Locals
    <3>3. LocalsOK(t, "NewVars", [loc[t] EXCEPT !.new = s])
      BY <1>1, <1>4 DEF NewStore, LocalsOK, Locals
    <3>4. QED BY <3>1, <3>2, <3>3, Moved
  <2>3. QED BY <1>4, <2>1, <2>2 DEF NewStore
<1>5. CASE NewVars(t)
  <2>1. LocalsOK(t, "NewIPAddr", loc[t])
    BY <1>1, <1>5 DEF NewVars, LocalsOK
  <2>2. QED BY <1>5, <2>1, Gone DEF NewVars
<1>6. CASE NewIPAddr(t)
  <2>1. LocalsOK(t, "NewIPAdd", loc[t])
    BY <1>1, <1>6 DEF NewIPAddr, LocalsOK
  <2>2. QED BY <1>6, <2>1, Gone DEF NewIPAddr
<1>7. CASE NewIPAdd(t)
  <2>1. LocalsOK(t, "SaveNew", loc[t])
    BY <1>1, <1>7 DEF NewIPAdd, LocalsOK
  <2>2. QED BY <1>7, <2>1, Gone DEF NewIPAdd
<1>8. CASE SaveNew(t)
  <2>1. CASE loc[t].op = "rename"
    <3>1. LocalsOK(t, "RenDelEntry", loc[t])
      BY <1>1, <1>8, <2>1 DEF SaveNew, LocalsOK
    <3>2. QED BY <1>8, <2>1, <3>1, Gone DEF SaveNew
  <2>2. CASE loc[t].op # "rename"
    <3> DEFINE l == [loc[t] EXCEPT !.sid = loc[t].new, !.ls = loc[t].new]
    <3>1. loc[t].new \in SessionIds /\ Move(t, "Work", l)
      BY <1>1, <1>8, <2>2 DEF SaveNew, LocalsOK
    <3>2. l \in Locals
      BY <1>1, <3>1 DEF Locals, SessionData
    <3>3. LocalsOK(t, "Work", l)
      BY <1>1, <1>8, <3>1 DEF SaveNew, LocalsOK, Locals
    <3>4. QED BY <3>1, <3>2, <3>3, Moved
  <2>3. QED BY <2>1, <2>2
<1>9. QED BY <1>2, <1>3, <1>4, <1>5, <1>6, <1>7, <1>8 DEF New

(* rename() *)
LEMMA RenameControl ==
  ASSUME TInv, NEW t \in Threads, Rename(t)
  PROVE  ControlOK'
<1> USE DEF TInv, At
<1>1. loc[t] \in Locals /\ LocalsOK(t, pc[t], loc[t])
  BY DEF ControlOK
<1>2. CASE RenDelEntry(t)
  <2> DEFINE l == [loc[t] EXCEPT !.del = loc[t].sid]
  <2>1. l \in Locals
    BY <1>1 DEF Locals
  <2>2. LocalsOK(t, "RenDelVars", l)
    BY <1>1, <1>2 DEF RenDelEntry, LocalsOK, Locals
  <2>3. QED BY <1>2, <2>1, <2>2, Moved DEF RenDelEntry
<1>3. CASE RenDelVars(t)
  <2>1. LocalsOK(t, "RenIPAddr", loc[t])
    BY <1>1, <1>3 DEF RenDelVars, LocalsOK
  <2>2. QED BY <1>3, <2>1, Gone DEF RenDelVars
<1>4. CASE RenIPAddr(t)
  <2> DEFINE l == [loc[t] EXCEPT !.delip = loc[t].ip, !.after = "Work", !.del = loc[t].sid]
  <2>1. l \in Locals
    BY <1>1 DEF Locals
  <2>2. LocalsOK(t, "DelIPSet", l)
    BY <1>1, <1>4 DEF RenIPAddr, LocalsOK, Locals
  <2>3. QED BY <1>4, <2>1, <2>2, Moved DEF RenIPAddr
<1>5. QED BY <1>2, <1>3, <1>4 DEF Rename

(* expire() *)
LEMMA ExpireControl ==
  ASSUME TInv, NEW t \in Threads, Expire(t)
  PROVE  ControlOK'
<1> USE DEF TInv, At
<1>1. loc[t] \in Locals /\ LocalsOK(t, pc[t], loc[t])
  BY DEF ControlOK
<1>2. CASE ExpNext(t)
  <2>1. PICK s \in loc[t].todo :
          \/ Crash(t)
          \/ Move(t, "DelPeek", [loc[t] EXCEPT !.todo = loc[t].todo \ {s}, !.del = s,
                                               !.after = "ExpNext"])
          \/ Move(t, "ExpNext", [loc[t] EXCEPT !.todo = loc[t].todo \ {s}])
    BY <1>2 DEF ExpNext
  <2>2. s \in SessionIds /\ loc[t].todo \ {s} \in SUBSET SessionIds
    BY <1>1 DEF Locals
  <2> DEFINE l == [loc[t] EXCEPT !.todo = loc[t].todo \ {s}, !.del = s, !.after = "ExpNext"]
             m == [loc[t] EXCEPT !.todo = loc[t].todo \ {s}]
  <2>3. l \in Locals /\ m \in Locals
    BY <1>1, <2>2 DEF Locals
  <2>4. LocalsOK(t, "DelPeek", l)
    BY <1>1, <1>2, <2>2 DEF ExpNext, LocalsOK, Locals
  <2>5. LocalsOK(t, "ExpNext", m)
    BY <1>1, <1>2, <2>2 DEF ExpNext, LocalsOK, Locals
  <2>6. QED BY <2>1, <2>3, <2>4, <2>5, Moved, Finished
<1>3. CASE ExpDone(t)
  <2> DEFINE l == [loc[t] EXCEPT !.expired = 0, !.cur = 0]
  <2>1. l \in Locals
    BY <1>1 DEF Locals
  <2>2. CASE t # Expirer
    <3>1. LocalsOK(t, "NewPerIP", l)
      BY <1>1, <1>3, <2>2 DEF ExpDone, LocalsOK, Locals
    <3>2. QED BY <1>3, <2>1, <2>2, <3>1, Moved DEF ExpDone
  <2>3. QED BY <1>3, <2>2, Finished DEF ExpDone
<1>4. QED BY <1>2, <1>3 DEF Expire

(* delete() *)
LEMMA DeleteControl ==
  ASSUME TInv, NEW t \in Threads, Delete(t)
  PROVE  ControlOK'
<1> USE DEF TInv, At
<1>1. loc[t] \in Locals /\ LocalsOK(t, pc[t], loc[t])
  BY DEF ControlOK
<1>2. CASE DelPeek(t)
  <2>1. LocalsOK(t, "DelEntry", loc[t])
    BY <1>1, <1>2 DEF DelPeek, LocalsOK
  <2>2. QED BY <1>2, <2>1, Gone DEF DelPeek
<1>3. CASE DelEntry(t)
  <2>1. LocalsOK(t, "DelVars", loc[t])
    BY <1>1, <1>3 DEF DelEntry, LocalsOK
  <2>2. QED BY <1>3, <2>1, Gone DEF DelEntry
<1>4. CASE DelVars(t)
  <2>1. LocalsOK(t, "DelIPAssoc", loc[t])
    BY <1>1, <1>4 DEF DelVars, LocalsOK
  <2>2. QED BY <1>4, <2>1, Gone DEF DelVars
<1>5. CASE DelIPAssoc(t)
  <2>1. CASE Return(t)
    BY <1>5, <2>1, Returned DEF DelIPAssoc
  <2>2. CASE ~Return(t)
    <3> DEFINE i == session_ip_addr[loc[t].del]
               l == [loc[t] EXCEPT !.delip = i]
    <3>1. i \in RemoteIPs /\ Move(t, "DelIPSet", l)
      BY <1>5, <2>2 DEF DelIPAssoc, StoreTypeOK
    <3>2. l \in Locals
      BY <1>1, <3>1 DEF Locals
    <3>3. LocalsOK(t, "DelIPSet", l)
      BY <1>1, <1>5, <3>1 DEF DelIPAssoc, LocalsOK, Locals
    <3>4. QED BY <3>1, <3>2, <3>3, Moved
  <2>3. QED BY <2>1, <2>2
<1>6. CASE DelIPSet(t)
  <2>1. LocalsOK(t, "DelIPEmpty", loc[t])
    BY <1>1, <1>6 DEF DelIPSet, LocalsOK
  <2>2. QED BY <1>6, <2>1, Gone, Returned DEF DelIPSet
<1>7. CASE DelIPEmpty(t)
  <2>1. LocalsOK(t, "DelIPDrop", loc[t])
    BY <1>1, <1>7 DEF DelIPEmpty, LocalsOK
  <2>2. QED BY <1>7, <2>1, Gone, Returned DEF DelIPEmpty
<1>8. CASE DelIPDrop(t)
  BY <1>8, Returned, Finished DEF DelIPDrop
<1>9. QED BY <1>2, <1>3, <1>4, <1>5, <1>6, <1>7, <1>8 DEF Delete

(* run() of ExpiryThread going on after an exception. *)
LEMMA RecoverControl ==
  ASSUME TInv, NEW t \in Threads, Recover(t)
  PROVE  ControlOK'
<1>1. loc[t] \in Locals /\ LocalsOK(t, pc[t], loc[t]) /\ At(t, "Crashed") /\ Goto(t, "Idle")
  BY DEF TInv, ControlOK, Recover
<1>2. LocalsOK(t, "Idle", loc[t])
  BY <1>1 DEF LocalsOK, At
<1>3. QED BY <1>1, <1>2, Gone DEF TInv

(* Every step keeps the control part of the type invariant. *)
LEMMA ControlStep ==
  ASSUME TInv, [Next]_vars
  PROVE  ControlOK'
<1>1. CASE Tick \/ UNCHANGED vars
  BY <1>1 DEF Tick, vars, TInv, ControlOK, LocalsOK
<1>2. CASE StartExpiry
  <2>1. Expirer \in Threads /\ LocalsOK(Expirer, "Idle", NoLocals)
    BY DEF Threads, LocalsOK, NoLocals
  <2>2. QED BY <1>2, <2>1, NoLocalsType, CalledExpire DEF StartExpiry
<1>3. ASSUME NEW t \in Workers, Request(t) PROVE ControlOK'
  BY <1>3, RequestControl
<1>4. ASSUME NEW t \in Threads, StoreStep(t) PROVE ControlOK'
  BY <1>4, RetrieveControl, NewControl, RenameControl, ExpireControl, DeleteControl,
     RecoverControl DEF StoreStep
<1>5. QED BY <1>1, <1>2, <1>3, <1>4 DEF Next

-----------------------------------------------------------------------------
(* The dictionaries keep their types.                                       *)

(* len(sessiondict) is a number. *)
LEMMA LenType ==
  ASSUME StoreTypeOK
  PROVE  /\ IsFiniteSet(DOMAIN sessiondict) /\ IsFiniteSet(DOMAIN checkvars)
         /\ LenSessiondict \in Nat
<1>1. IsFiniteSet(DOMAIN sessiondict) /\ IsFiniteSet(DOMAIN checkvars)
  BY IdAssumption, FS_Subset DEF StoreTypeOK
<1>2. QED BY <1>1, FS_CardinalityType DEF LenSessiondict

(* A save() by a thread leaves a well-typed sessiondict. *)
LEMMA PutEntry ==
  ASSUME StoreTypeOK, NEW s \in SessionIds, NEW d \in SessionData,
         sessiondict' = Put(sessiondict, s, [ts |-> now, data |-> d])
  PROVE  /\ DOMAIN sessiondict' \subseteq SessionIds
         /\ \A x \in DOMAIN sessiondict' : sessiondict'[x] \in Entry
BY DEF Put, StoreTypeOK, Entry

(* The steps in front of the store keep the types of the store. *)
LEMMA RequestTypes ==
  ASSUME TInv, NEW t \in Workers, Request(t)
  PROVE  StoreTypeOK'
<1>1. t \in Threads
  BY DEF Threads
<1>2. loc[t] \in Locals /\ LocalsOK(t, pc[t], loc[t]) /\ StoreTypeOK
  BY <1>1 DEF TInv, ControlOK
<1>3. CASE SaveSession(t)
  <2>1. loc[t].sid \in SessionIds /\ loc[t].ls \in SessionData
    BY <1>2, <1>3 DEF SaveSession, At, LocalsOK, Locals
  <2>2. /\ DOMAIN sessiondict' \subseteq SessionIds
        /\ \A x \in DOMAIN sessiondict' : sessiondict'[x] \in Entry
    BY <1>2, <1>3, <2>1, PutEntry DEF SaveSession
  <2>3. QED BY <1>2, <1>3, <2>2 DEF SaveSession, StoreTypeOK, ipVars, statVars
<1>4. ASSUME UNCHANGED <<now, storeVars, ipVars, statVars, unbound>>,
             requests' = requests \/ BeginRequest
      PROVE  StoreTypeOK'
  BY <1>2, <1>4 DEF StoreTypeOK, storeVars, ipVars, statVars, BeginRequest
<1>5. QED
  BY <1>3, <1>4 DEF Request, StartNew, StartRetrieve, StartDelete, StartRename, DeleteOwn,
     EndRequest, shared

(* retrieve() only reads. *)
LEMMA RetrieveTypes ==
  ASSUME TInv, NEW t \in Threads, Retrieve(t)
  PROVE  StoreTypeOK'
BY DEF TInv, StoreTypeOK, Retrieve, RetLookup, RetRead, RetCheck, shared, storeVars, ipVars,
   statVars

(* new() keeps the types of the store. *)
LEMMA NewTypes ==
  ASSUME TInv, NEW t \in Threads, New(t)
  PROVE  StoreTypeOK'
<1> USE DEF At, ipVars, statVars
<1>1. loc[t] \in Locals /\ LocalsOK(t, pc[t], loc[t]) /\ StoreTypeOK
  BY DEF TInv, ControlOK
<1>2. CASE NewPerIP(t) \/ NewLimit(t)
  BY <1>1, <1>2 DEF NewPerIP, NewLimit, shared, storeVars, StoreTypeOK
<1>3. CASE NewStore(t)
  <2>1. CASE UNCHANGED storeVars
    BY <1>1, <1>3, <2>1 DEF NewStore, storeVars, StoreTypeOK
  <2>2. CASE ~UNCHANGED storeVars
    <3>1. PICK s \in SessionIds : /\ lock' = t
                                  /\ sessiondict' = Put(sessiondict, s, [ts |-> now, data |-> Created])
                                  /\ UNCHANGED <<checkvars, issued>>
      BY <1>3, <2>2 DEF NewStore, NewIds
    <3>2. /\ DOMAIN sessiondict' \subseteq SessionIds
          /\ \A x \in DOMAIN sessiondict' : sessiondict'[x] \in Entry
      BY <1>1, <3>1, PutEntry DEF SessionData
    <3>3. QED BY <1>1, <1>3, <3>1, <3>2 DEF NewStore, StoreTypeOK
  <2>3. QED BY <2>1, <2>2
<1>4. CASE NewVars(t)
  <2>1. loc[t].new \in SessionIds /\ loc[t].check \in Checks
    BY <1>1, <1>4 DEF NewVars, LocalsOK
  <2>2. /\ DOMAIN checkvars' \subseteq issued' /\ issued' \subseteq SessionIds
        /\ \A s \in DOMAIN checkvars' : checkvars'[s] \in Checks
    BY <1>1, <1>4, <2>1 DEF NewVars, Put, StoreTypeOK
  <2>3. QED BY <1>1, <1>4, <2>2 DEF NewVars, Release, StoreTypeOK
<1>5. CASE NewIPAddr(t)
  <2>1. loc[t].new \in SessionIds /\ loc[t].ip \in RemoteIPs /\ t # Expirer
    BY <1>1, <1>5 DEF NewIPAddr, LocalsOK
  <2>2. max_concurrent_sessions' \in Nat
    BY <1>1, <1>5, LenType DEF NewIPAddr, StoreTypeOK
  <2>3. /\ DOMAIN session_ip_addr' \subseteq SessionIds
        /\ \A s \in DOMAIN session_ip_addr' : session_ip_addr'[s] \in RemoteIPs
    BY <1>1, <1>5, <2>1 DEF NewIPAddr, Put, StoreTypeOK
  <2>4. /\ DOMAIN remote_ip_sessions' \subseteq RemoteIPs
        /\ \A i \in DOMAIN remote_ip_sessions' : remote_ip_sessions'[i] \subseteq SessionIds
    BY <1>1, <1>5, <2>1 DEF NewIPAddr, Put, SetDefault, StoreTypeOK
  <2>5. holding' \subseteq Workers
    BY <1>1, <1>5, <2>1 DEF NewIPAddr, StoreTypeOK, Threads
  <2>6. QED
    BY <1>1, <1>5, <2>2, <2>3, <2>4, <2>5 DEF NewIPAddr, storeVars, StoreTypeOK
<1>6. CASE NewIPAdd(t)
  <2>1. loc[t].new \in SessionIds
    BY <1>1, <1>6 DEF NewIPAdd, LocalsOK
  <2>2. /\ DOMAIN remote_ip_sessions' \subseteq RemoteIPs
        /\ \A i \in DOMAIN remote_ip_sessions' : remote_ip_sessions'[i] \subseteq SessionIds
    BY <1>1, <1>6, <2>1 DEF NewIPAdd, StoreTypeOK
  <2>3. holding' \subseteq Workers
    BY <1>1, <1>6 DEF NewIPAdd, StoreTypeOK
  <2>4. QED BY <1>1, <1>6, <2>2, <2>3 DEF NewIPAdd, storeVars, StoreTypeOK
<1>7. CASE SaveNew(t)
  <2>1. loc[t].new \in SessionIds /\ loc[t].ls \in SessionData
    BY <1>1, <1>7 DEF SaveNew, LocalsOK, Locals
  <2>2. \E d \in SessionData : sessiondict' = Put(sessiondict, loc[t].new, [ts |-> now, data |-> d])
    BY <1>7, <2>1 DEF SaveNew, SessionData
  <2>3. /\ DOMAIN sessiondict' \subseteq SessionIds
        /\ \A x \in DOMAIN sessiondict' : sessiondict'[x] \in Entry
    BY <1>1, <2>1, <2>2, PutEntry
  <2>4. QED BY <1>1, <1>7, <2>3 DEF SaveNew, StoreTypeOK
<1>8. QED BY <1>2, <1>3, <1>4, <1>5, <1>6, <1>7 DEF New

(* rename() keeps the types of the store. *)
LEMMA RenameTypes ==
  ASSUME TInv, NEW t \in Threads, Rename(t)
  PROVE  StoreTypeOK'
<1> USE DEF At, ipVars, statVars, Drop
<1>1. loc[t] \in Locals /\ LocalsOK(t, pc[t], loc[t]) /\ StoreTypeOK
  BY DEF TInv, ControlOK
<1>2. CASE RenDelEntry(t)
  BY <1>1, <1>2 DEF RenDelEntry, StoreTypeOK
<1>3. CASE RenDelVars(t)
  BY <1>1, <1>3 DEF RenDelVars, Release, StoreTypeOK
<1>4. CASE RenIPAddr(t)
  <2>1. loc[t].new \in SessionIds /\ loc[t].ip \in RemoteIPs
    BY <1>1, <1>4 DEF RenIPAddr, LocalsOK
  <2>2. /\ DOMAIN session_ip_addr' \subseteq SessionIds
        /\ \A s \in DOMAIN session_ip_addr' : session_ip_addr'[s] \in RemoteIPs
    BY <1>1, <1>4, <2>1 DEF RenIPAddr, Put, StoreTypeOK
  <2>3. QED BY <1>1, <1>4, <2>2 DEF RenIPAddr, storeVars, StoreTypeOK
<1>5. QED BY <1>2, <1>3, <1>4 DEF Rename

(* expire() keeps the types of the store. *)
LEMMA ExpireTypes ==
  ASSUME TInv, NEW t \in Threads, Expire(t)
  PROVE  StoreTypeOK'
<1>1. loc[t] \in Locals /\ StoreTypeOK
  BY DEF TInv, ControlOK
<1>2. CASE ExpNext(t)
  BY <1>1, <1>2 DEF ExpNext, shared, storeVars, ipVars, statVars, StoreTypeOK
<1>3. CASE ExpDone(t)
  <2>1. expired_counter' \in Nat
    BY <1>1, <1>3 DEF ExpDone, StoreTypeOK, Locals
  <2>2. QED BY <1>1, <1>3, <2>1 DEF ExpDone, storeVars, ipVars, StoreTypeOK
<1>4. QED BY <1>2, <1>3 DEF Expire

(* delete() keeps the types of the store. *)
LEMMA DeleteTypes ==
  ASSUME TInv, NEW t \in Threads, Delete(t)
  PROVE  StoreTypeOK'
<1> USE DEF At, ipVars, statVars, storeVars, Drop, SetDefault, Put
<1>1. loc[t] \in Locals /\ LocalsOK(t, pc[t], loc[t]) /\ StoreTypeOK
  BY DEF TInv, ControlOK
<1>2. CASE DelPeek(t)
  <2>1. unbound' \subseteq SessionIds
    BY <1>1, <1>2 DEF DelPeek, StoreTypeOK, Entry, SessionData
  <2>2. QED BY <1>1, <1>2, <2>1 DEF DelPeek, StoreTypeOK
<1>3. CASE DelEntry(t)
  BY <1>1, <1>3 DEF DelEntry, StoreTypeOK
<1>4. CASE DelVars(t)
  BY <1>1, <1>4 DEF DelVars, WithoutVars, Release, StoreTypeOK
<1>5. CASE DelIPAssoc(t)
  BY <1>1, <1>5 DEF DelIPAssoc, StoreTypeOK
<1>6. CASE DelIPSet(t)
  <2>1. loc[t].delip \in RemoteIPs
    BY <1>1, <1>6 DEF DelIPSet, LocalsOK
  <2>2. /\ DOMAIN remote_ip_sessions' \subseteq RemoteIPs
        /\ \A i \in DOMAIN remote_ip_sessions' : remote_ip_sessions'[i] \subseteq SessionIds
    BY <1>1, <1>6, <2>1 DEF DelIPSet, StoreTypeOK
  <2>3. QED BY <1>1, <1>6, <2>2 DEF DelIPSet, StoreTypeOK
<1>7. CASE DelIPEmpty(t)
  <2>1. loc[t].delip \in RemoteIPs
    BY <1>1, <1>7 DEF DelIPEmpty, LocalsOK
  <2>2. /\ DOMAIN remote_ip_sessions' \subseteq RemoteIPs
        /\ \A i \in DOMAIN remote_ip_sessions' : remote_ip_sessions'[i] \subseteq SessionIds
    BY <1>1, <1>7, <2>1 DEF DelIPEmpty, StoreTypeOK
  <2>3. QED BY <1>1, <1>7, <2>2 DEF DelIPEmpty, StoreTypeOK
<1>8. CASE DelIPDrop(t)
  <2>1. /\ DOMAIN remote_ip_sessions' \subseteq RemoteIPs
        /\ \A i \in DOMAIN remote_ip_sessions' : remote_ip_sessions'[i] \subseteq SessionIds
        /\ holding' \subseteq Workers
    BY <1>1, <1>8 DEF DelIPDrop, StoreTypeOK
  <2>2. QED BY <1>1, <1>8, <2>1 DEF DelIPDrop, StoreTypeOK
<1>9. QED BY <1>2, <1>3, <1>4, <1>5, <1>6, <1>7, <1>8 DEF Delete

(* Every step keeps the whole type invariant. *)
LEMMA TypeStep ==
  ASSUME TInv, [Next]_vars
  PROVE  StoreTypeOK'
<1>1. CASE Tick
  BY <1>1 DEF Tick, TInv, StoreTypeOK, storeVars, ipVars, statVars
<1>2. CASE StartExpiry \/ UNCHANGED vars
  BY <1>2 DEF StartExpiry, shared, vars, TInv, StoreTypeOK, storeVars, ipVars, statVars
<1>3. ASSUME NEW t \in Workers, Request(t) PROVE StoreTypeOK'
  BY <1>3, RequestTypes
<1>4. ASSUME NEW t \in Threads, StoreStep(t) PROVE StoreTypeOK'
  <2>1. CASE Recover(t)
    BY <2>1 DEF Recover, TInv, StoreTypeOK, storeVars, ipVars, statVars
  <2>2. QED
    BY <1>4, <2>1, RetrieveTypes, NewTypes, RenameTypes, ExpireTypes, DeleteTypes DEF StoreStep
<1>5. QED BY <1>1, <1>2, <1>3, <1>4 DEF Next

(* An empty store has its types. *)
LEMMA TypeInit == Init => TInv
<1> SUFFICES ASSUME Init PROVE TInv
  OBVIOUS
<1>1. StoreTypeOK
  BY DEF Init, StoreTypeOK
<1>2. ControlOK
  BY NoLocalsType DEF Init, ControlOK, LocalsOK, NoLocals
<1>3. QED BY <1>1, <1>2 DEF TInv

(* The type invariant holds always. *)
LEMMA TypeInvariance == Spec => []TInv
<1>1. TInv /\ [Next]_vars => TInv'
  BY ControlStep, TypeStep DEF TInv
<1>2. QED BY <1>1, TypeInit, PTL DEF Spec

(* Every variable keeps its type and every thread its locals: whatever the *)
(* interleaving, no method works with a local it has not set.               *)
THEOREM TypeCorrect == Spec => []TypeOK
<1>1. TInv => TypeOK
  BY DEF TInv, ControlOK, TypeOK
<1>2. QED BY <1>1, TypeInvariance, PTL

-----------------------------------------------------------------------------
(* The lock and the two keys of a session.                                  *)

Locked == {"NewVars", "RenDelVars", "DelVars"}

(* A thread holds the lock exactly between the two writes of a block. *)
LockOK == \A t \in Threads : pc[t] \in Locked <=> lock = t

(* A session has cross-check data but no entry only while delete() is      *)
(* between its two keys, and new() finds the entry it has just stored.      *)
VarsOK ==
  /\ \A s \in DOMAIN checkvars :
       \/ s \in DOMAIN sessiondict
       \/ \E t \in Threads : pc[t] \in {"RenDelVars", "DelVars"} /\ loc[t].del = s
  /\ \A t \in Threads : pc[t] = "NewVars" => loc[t].new \in DOMAIN sessiondict

SInv == TInv /\ LockOK /\ VarsOK

(* Thread t goes to c, with any locals; the others stay where they are. *)
Moves(t, c) == pc' = [pc EXCEPT ![t] = c] /\ \A u \in Threads \ {t} : loc'[u] = loc[u]

(* Goto and Move are such steps. *)
LEMMA MovesWithLocals ==
  ASSUME TInv, NEW t \in Threads, NEW c,
         Goto(t, c) \/ \E l : Move(t, c, l)
  PROVE  Moves(t, c)
BY DEF TInv, ControlOK, Goto, Move, Moves

(* A step outside of the locked blocks that removes nothing. *)
LEMMA Unlocked ==
  ASSUME SInv, NEW t \in Threads, pc[t] \notin Locked, NEW c, c \notin Locked, Moves(t, c),
         UNCHANGED <<lock, checkvars>>, DOMAIN sessiondict \subseteq DOMAIN sessiondict'
  PROVE  LockOK' /\ VarsOK'
<1> USE DEF SInv, TInv, ControlOK
<1>1. ASSUME NEW u \in Threads PROVE pc'[u] \in Locked <=> lock' = u
  BY <1>1 DEF LockOK, Moves
<1>2. ASSUME NEW s \in DOMAIN checkvars'
      PROVE  \/ s \in DOMAIN sessiondict'
             \/ \E u \in Threads : pc'[u] \in {"RenDelVars", "DelVars"} /\ loc'[u].del = s
  <2>1. CASE s \in DOMAIN sessiondict
    BY <2>1
  <2>2. CASE s \notin DOMAIN sessiondict
    <3>1. PICK u \in Threads : pc[u] \in {"RenDelVars", "DelVars"} /\ loc[u].del = s
      BY <1>2, <2>2 DEF VarsOK
    <3>2. u # t
      BY <3>1 DEF Locked
    <3>3. QED BY <3>1, <3>2 DEF Moves
  <2>3. QED BY <2>1, <2>2
<1>3. ASSUME NEW u \in Threads, pc'[u] = "NewVars" PROVE loc'[u].new \in DOMAIN sessiondict'
  BY <1>3 DEF VarsOK, Moves, Locked
<1>4. QED BY <1>1, <1>2, <1>3 DEF LockOK, VarsOK

(* The first write of delete(): the thread takes the lock, del is its key. *)
LEMMA TakesLock ==
  ASSUME SInv, NEW t \in Threads, lock = NoThread, lock' = t, UNCHANGED checkvars,
         NEW c \in {"RenDelVars", "DelVars"}, Moves(t, c),
         sessiondict' = Drop(sessiondict, loc'[t].del)
  PROVE  LockOK' /\ VarsOK'
<1> USE DEF SInv, TInv, ControlOK
<1>1. \A u \in Threads : u # NoThread
  BY ThreadAssumption DEF Threads
<1>2. \A u \in Threads : pc[u] \notin Locked
  BY <1>1 DEF LockOK
<1>3. ASSUME NEW u \in Threads PROVE pc'[u] \in Locked <=> lock' = u
  BY <1>2 DEF Moves, Locked
<1>4. \A s \in DOMAIN checkvars : s \in DOMAIN sessiondict
  BY <1>2 DEF VarsOK, Locked
<1>5. pc'[t] = c /\ \A u \in Threads : pc'[u] # "NewVars"
  BY <1>2 DEF Moves, Locked
<1>6. ASSUME NEW s \in DOMAIN checkvars', s \notin DOMAIN sessiondict'
      PROVE  \E u \in Threads : pc'[u] \in {"RenDelVars", "DelVars"} /\ loc'[u].del = s
  BY <1>4, <1>5, <1>6 DEF Drop
<1>7. QED BY <1>3, <1>5, <1>6 DEF LockOK, VarsOK

(* The second write of a block: the lock is free again. *)
LEMMA ReleasesLock ==
  ASSUME SInv, NEW t \in Threads, pc[t] \in Locked, Release, UNCHANGED sessiondict,
         NEW c, c \notin Locked, Moves(t, c),
         \A s \in DOMAIN checkvars' :
           \/ s \in DOMAIN sessiondict
           \/ s \in DOMAIN checkvars /\ (pc[t] = "NewVars" \/ s # loc[t].del)
  PROVE  LockOK' /\ VarsOK'
<1> USE DEF SInv, TInv, ControlOK
<1>1. \A u \in Threads : u # NoThread
  BY ThreadAssumption DEF Threads
<1>2. \A u \in Threads : u # t => pc[u] \notin Locked
  BY DEF LockOK
<1>3. \A u \in Threads : pc'[u] \notin Locked
  BY <1>2 DEF Moves
<1>4. \A s \in DOMAIN checkvars' : s \in DOMAIN sessiondict'
  BY <1>2 DEF VarsOK, Locked
<1>5. QED BY <1>1, <1>3, <1>4 DEF LockOK, VarsOK, Release, Locked

(* Every step keeps LockOK and VarsOK. *)
LEMMA LockStep ==
  ASSUME SInv, [Next]_vars
  PROVE  LockOK' /\ VarsOK'
<1> USE DEF At
<1>0. TInv
  BY DEF SInv
<1>1. CASE Tick \/ UNCHANGED vars
  BY <1>1 DEF Tick, vars, storeVars, SInv, LockOK, VarsOK
<1>2. CASE StartExpiry
  <2>1. Expirer \in Threads /\ pc[Expirer] \notin Locked /\ Moves(Expirer, "ExpNext")
    BY <1>0, <1>2, MovesWithLocals DEF Threads, StartExpiry, CallExpire, Locked
  <2>2. QED BY <1>2, <2>1, Unlocked DEF StartExpiry, shared, storeVars, Locked
<1>3. ASSUME NEW t \in Workers, Request(t) PROVE LockOK' /\ VarsOK'
  <2>1. t \in Threads
    BY DEF Threads
  <2>2. CASE SaveSession(t)
    <3>1. DOMAIN sessiondict \subseteq DOMAIN sessiondict'
      BY <2>2 DEF SaveSession, Put
    <3>2. pc[t] \notin Locked /\ Moves(t, "Work")
      BY <1>0, <2>1, <2>2 DEF SaveSession, Locked, Moves, TInv, ControlOK
    <3>3. QED BY <2>1, <2>2, <3>1, <3>2, Unlocked DEF SaveSession, Locked
  <2>3. CASE ~SaveSession(t)
    <3>1. pc[t] \notin Locked /\ UNCHANGED storeVars
      BY <1>3, <2>3 DEF Request, StartNew, StartRetrieve, StartDelete, StartRename, DeleteOwn,
         EndRequest, Locked, shared
    <3>2. \E c \in {"ExpNext", "RetLookup", "DelPeek", "Idle"} : Moves(t, c)
      BY <1>0, <1>3, <2>1, <2>3, MovesWithLocals DEF Request, StartNew, StartRetrieve, StartDelete,
         StartRename, DeleteOwn, EndRequest, CallExpire, Finish
    <3>3. QED BY <2>1, <3>1, <3>2, Unlocked DEF Locked, storeVars
  <2>4. QED BY <2>2, <2>3
<1>4. ASSUME NEW t \in Threads, StoreStep(t) PROVE LockOK' /\ VarsOK'
  <2>1. CASE Retrieve(t) \/ Expire(t) \/ Recover(t)
    <3>1. pc[t] \notin Locked /\ UNCHANGED storeVars
      BY <2>1 DEF Retrieve, RetLookup, RetRead, RetCheck, Expire, ExpNext, ExpDone, Recover,
         Locked, shared
    <3>2. \E c \in {"RetRead", "RetCheck", "Work", "ExpNext", "DelPeek", "NewPerIP", "Idle",
                    "Crashed"} : Moves(t, c)
      BY <1>0, <2>1, MovesWithLocals DEF Retrieve, RetLookup, RetRead, RetCheck, Expire, ExpNext,
         ExpDone, Recover, CallExpire, Finish, Crash
    <3>3. QED BY <3>1, <3>2, Unlocked DEF Locked, storeVars
  <2>2. CASE \/ NewPerIP(t) \/ NewLimit(t) \/ NewIPAddr(t) \/ NewIPAdd(t)
             \/ NewStore(t) /\ UNCHANGED storeVars
    <3>1. pc[t] \notin Locked /\ UNCHANGED storeVars
      BY <2>2 DEF NewPerIP, NewLimit, NewStore, NewIPAddr, NewIPAdd, Locked, shared
    <3>2. CASE NewStore(t) /\ UNCHANGED storeVars
      <4>1. Finish(t)
        BY <3>2, ThreadAssumption DEF NewStore, storeVars, Threads
      <4>2. QED BY <1>0, <3>1, <4>1, MovesWithLocals, Unlocked DEF Finish, Locked, storeVars
    <3>3. CASE ~(NewStore(t) /\ UNCHANGED storeVars)
      <4>1. \E c \in {"NewLimit", "NewStore", "NewIPAdd", "SaveNew", "Idle"} : Moves(t, c)
        BY <1>0, <2>2, <3>3, MovesWithLocals DEF NewPerIP, NewLimit, NewIPAddr, NewIPAdd, Finish
      <4>2. QED BY <3>1, <4>1, Unlocked DEF Locked, storeVars
    <3>4. QED BY <2>2, <3>2, <3>3
  <2>3. CASE NewStore(t) /\ ~UNCHANGED storeVars
    <3>1. PICK s \in NewIds : /\ sessiondict' = Put(sessiondict, s, [ts |-> now, data |-> Created])
                              /\ Move(t, "NewVars", [loc[t] EXCEPT !.new = s])
      BY <2>3 DEF NewStore
    <3>2. /\ pc[t] = "NewStore" /\ lock = NoThread /\ lock' = t /\ UNCHANGED checkvars
          /\ Moves(t, "NewVars")
      BY <1>0, <2>3, <3>1, MovesWithLocals DEF NewStore
    <3>3. loc'[t].new = s /\ DOMAIN sessiondict' = DOMAIN sessiondict \union {s}
      BY <1>0, <3>1 DEF Move, Put, TInv, ControlOK, Locals
    <3>4. \A u \in Threads : u # NoThread /\ pc[u] \notin Locked
      BY <3>2, ThreadAssumption DEF Threads, SInv, LockOK
    <3>5. \A u \in Threads : pc'[u] \in Locked <=> u = t
      BY <1>0, <3>2, <3>4 DEF Moves, TInv, ControlOK, Locked
    <3>6. \A x \in DOMAIN checkvars' : x \in DOMAIN sessiondict'
      BY <3>2, <3>3, <3>4 DEF SInv, VarsOK, Locked
    <3>7. QED BY <3>2, <3>3, <3>5, <3>6 DEF LockOK, VarsOK, Locked
  <2>4. CASE NewVars(t)
    <3>1. pc[t] = "NewVars" /\ Moves(t, "NewIPAddr") /\ Release /\ UNCHANGED sessiondict
      BY <1>0, <2>4, MovesWithLocals DEF NewVars
    <3>2. \A s \in DOMAIN checkvars' : s \in DOMAIN sessiondict \/ s \in DOMAIN checkvars
      BY <2>4, <3>1 DEF NewVars, Put, SInv, VarsOK
    <3>3. QED BY <3>1, <3>2, ReleasesLock DEF Locked
  <2>5. CASE SaveNew(t)
    <3>1. DOMAIN sessiondict \subseteq DOMAIN sessiondict'
      BY <2>5 DEF SaveNew, Put
    <3>2. \E c \in {"RenDelEntry", "Work"} : Moves(t, c)
      BY <1>0, <2>5, MovesWithLocals DEF SaveNew
    <3>3. QED BY <2>5, <3>1, <3>2, Unlocked DEF SaveNew, Locked
  <2>6. CASE RenDelEntry(t) \/ DelEntry(t)
    <3>1. /\ lock = NoThread /\ lock' = t /\ UNCHANGED checkvars
          /\ \E c \in {"RenDelVars", "DelVars"} : Moves(t, c)
      BY <1>0, <2>6, MovesWithLocals DEF RenDelEntry, DelEntry
    <3>2. sessiondict' = Drop(sessiondict, loc'[t].del)
      BY <1>0, <2>6 DEF RenDelEntry, DelEntry, Move, Goto, TInv, ControlOK, Locals
    <3>3. QED BY <3>1, <3>2, TakesLock
  <2>7. CASE RenDelVars(t) \/ DelVars(t)
    <3>1. /\ pc[t] \in {"RenDelVars", "DelVars"} /\ Release /\ UNCHANGED sessiondict
          /\ checkvars' = Drop(checkvars, loc[t].del)
          /\ \E c \in {"RenIPAddr", "DelIPAssoc"} : Moves(t, c)
      BY <1>0, <2>7, MovesWithLocals DEF RenDelVars, DelVars, WithoutVars
    <3>2. \A s \in DOMAIN checkvars' : s \in DOMAIN checkvars /\ s # loc[t].del
      BY <3>1 DEF Drop
    <3>3. QED BY <3>1, <3>2, ReleasesLock DEF Locked
  <2>8. CASE RenIPAddr(t) \/ DelPeek(t) \/ DelIPAssoc(t) \/ DelIPSet(t) \/ DelIPEmpty(t)
             \/ DelIPDrop(t)
    <3>1. pc[t] \notin Locked /\ UNCHANGED storeVars
      BY <2>8 DEF RenIPAddr, DelPeek, DelIPAssoc, DelIPSet, DelIPEmpty, DelIPDrop, Locked
    <3>2. \E c \in {"DelEntry", "DelIPSet", "DelIPEmpty", "DelIPDrop", "Idle", "ExpNext", "Work",
                    "Crashed"} : Moves(t, c)
      BY <1>0, <2>8, MovesWithLocals DEF RenIPAddr, DelPeek, DelIPAssoc, DelIPSet, DelIPEmpty,
         DelIPDrop, Return, Finish, Crash
    <3>3. QED BY <3>1, <3>2, Unlocked DEF Locked, storeVars
  <2>9. QED
    BY <1>4, <2>1, <2>2, <2>3, <2>4, <2>5, <2>6, <2>7, <2>8 DEF StoreStep, New, Rename, Delete
<1>5. QED BY <1>1, <1>2, <1>3, <1>4 DEF Next

(* The invariant about the two dictionaries holds always. *)
LEMMA StoreInvariance == Spec => []SInv
<1>1. Init => SInv
  BY TypeInit, ThreadAssumption DEF SInv, Init, LockOK, VarsOK, Locked, Threads
<1>2. SInv /\ [Next]_vars => SInv'
  BY ControlStep, TypeStep, LockStep DEF SInv, TInv
<1>3. QED BY <1>1, <1>2, PTL DEF Spec

(* No interleaving of any number of threads leaves cross-check data behind *)
(* without the session's entry.                                             *)
THEOREM NoOrphans == Spec => []NoOrphanCheckvars
<1>1. SInv => NoOrphanCheckvars
  <2> SUFFICES ASSUME SInv, lock = NoThread, NEW s \in DOMAIN checkvars
               PROVE  s \in DOMAIN sessiondict
    BY DEF NoOrphanCheckvars
  <2>1. \A t \in Threads : pc[t] \notin Locked
    BY ThreadAssumption DEF SInv, LockOK, Threads
  <2>2. QED BY <2>1 DEF SInv, VarsOK, Locked
<1>2. QED BY <1>1, StoreInvariance, PTL

-----------------------------------------------------------------------------
(* Counting the sessions.                                                   *)

(* Threads that have passed the test of max_sessions and not yet stored.   *)
Passed == {t \in Workers : pc[t] \in {"NewStore", "NewVars"}}

Overshoot ==
  Cardinality(DOMAIN checkvars) + Cardinality(Passed) <= MaxSessions + Cardinality(Workers) - 1

CInv == SInv /\ Overshoot

(* The numbers in Overshoot are numbers. *)
LEMMA Counts ==
  ASSUME TInv
  PROVE  /\ IsFiniteSet(Workers) /\ Cardinality(Workers) \in Nat
         /\ IsFiniteSet(DOMAIN checkvars) /\ Cardinality(DOMAIN checkvars) \in Nat
         /\ IsFiniteSet(DOMAIN sessiondict) /\ Cardinality(DOMAIN sessiondict) \in Nat
         /\ IsFiniteSet(Passed) /\ Cardinality(Passed) \in Nat
         /\ Cardinality(Passed) <= Cardinality(Workers)
         /\ MaxSessions \in Nat
<1>1. IsFiniteSet(Workers) /\ Passed \subseteq Workers
  BY ThreadAssumption DEF Passed
<1>2. IsFiniteSet(Passed) /\ Cardinality(Passed) <= Cardinality(Workers)
  BY <1>1, FS_Subset
<1>3. IsFiniteSet(DOMAIN sessiondict) /\ IsFiniteSet(DOMAIN checkvars)
  BY LenType DEF TInv
<1>4. QED BY <1>1, <1>2, <1>3, FS_CardinalityType, LimitAssumption

(* Storing one key adds at most one. *)
LEMMA AddOne ==
  ASSUME NEW S, IsFiniteSet(S), NEW x
  PROVE  /\ IsFiniteSet(S \union {x}) /\ Cardinality(S \union {x}) \in Nat
         /\ Cardinality(S \union {x}) <= Cardinality(S) + 1
<1>1. /\ IsFiniteSet(S \union {x})
      /\ \/ Cardinality(S \union {x}) = Cardinality(S)
         \/ Cardinality(S \union {x}) = Cardinality(S) + 1
  BY FS_AddElement
<1>2. Cardinality(S) \in Nat /\ Cardinality(S \union {x}) \in Nat
  BY <1>1, FS_CardinalityType
<1>3. QED BY <1>1, <1>2

(* A step that neither passes the test nor stores cross-check data. *)
LEMMA NotCounted ==
  ASSUME TInv, Overshoot, DOMAIN checkvars' \subseteq DOMAIN checkvars, Passed' \subseteq Passed
  PROVE  Overshoot'
<1>1. Cardinality(DOMAIN checkvars') \in Nat
      /\ Cardinality(DOMAIN checkvars') <= Cardinality(DOMAIN checkvars)
  BY Counts, FS_Subset, FS_CardinalityType
<1>2. Cardinality(Passed') \in Nat /\ Cardinality(Passed') <= Cardinality(Passed)
  BY Counts, FS_Subset, FS_CardinalityType
<1>3. QED BY <1>1, <1>2, Counts DEF Overshoot

(* The test leaves room for the session of every thread: all keys with     *)
(* cross-check data but the one in a delete() are entries as well, so half  *)
(* of len(sessiondict) counts all of them.                                  *)
LEMMA PassesTest ==
  ASSUME SInv, NEW t \in Threads, NewLimit(t), ~SessionsExceeded
  PROVE  Cardinality(DOMAIN checkvars) + 1 <= MaxSessions
<1>1. \E d : DOMAIN checkvars \subseteq DOMAIN sessiondict \union {d}
  <2>1. CASE lock \in Threads
    <3>1. \A s \in DOMAIN checkvars : s \in DOMAIN sessiondict \union {loc[lock].del}
      BY <2>1 DEF SInv, VarsOK, LockOK, Locked
    <3>2. QED BY <3>1
  <2>2. CASE lock \notin Threads
    BY <2>2 DEF SInv, VarsOK, LockOK, Locked
  <2>3. QED BY <2>1, <2>2
<1>2. PICK d : DOMAIN checkvars \subseteq DOMAIN sessiondict \union {d}
  BY <1>1
<1>3. TInv
  BY DEF SInv
<1>4. /\ IsFiniteSet(DOMAIN sessiondict \union {d})
      /\ Cardinality(DOMAIN sessiondict \union {d}) \in Nat
      /\ Cardinality(DOMAIN sessiondict \union {d}) <= Cardinality(DOMAIN sessiondict) + 1
  BY <1>3, Counts, AddOne
<1>5. Cardinality(DOMAIN checkvars) <= Cardinality(DOMAIN sessiondict) + 1
  BY <1>2, <1>3, <1>4, Counts, FS_Subset
<1>6. QED BY <1>3, <1>5, Counts DEF SessionsExceeded, LenSessiondict

(* Every step keeps the count: a session is added by a thread counted before. *)
LEMMA CountStep ==
  ASSUME CInv, [Next]_vars
  PROVE  Overshoot'
<1> USE DEF At
<1>0. TInv /\ SInv /\ Overshoot
  BY DEF CInv, SInv
<1>1. ASSUME NEW t \in Threads, NEW c, Moves(t, c), c \notin {"NewStore", "NewVars"}
      PROVE  Passed' \subseteq Passed \ {t}
  BY <1>0, <1>1 DEF Moves, Passed, TInv, ControlOK
<1>2. CASE Tick \/ UNCHANGED vars
  BY <1>0, <1>2, NotCounted DEF Tick, vars, storeVars, Passed
<1>3. CASE StartExpiry
  <2>1. Expirer \in Threads /\ Moves(Expirer, "ExpNext")
    BY <1>0, <1>3, MovesWithLocals DEF Threads, StartExpiry, CallExpire
  <2>2. Passed' \subseteq Passed
    BY <1>1, <2>1
  <2>3. QED BY <1>0, <1>3, <2>2, NotCounted DEF StartExpiry, shared, storeVars
<1>4. ASSUME NEW t \in Workers, Request(t) PROVE Overshoot'
  <2>1. t \in Threads
    BY DEF Threads
  <2>2. \E c \in {"ExpNext", "RetLookup", "DelPeek", "Idle", "Work"} : Moves(t, c)
    <3>1. CASE SaveSession(t)
      BY <1>0, <2>1, <3>1 DEF SaveSession, Moves, TInv, ControlOK
    <3>2. CASE ~SaveSession(t)
      BY <1>0, <1>4, <2>1, <3>2, MovesWithLocals DEF Request, StartNew, StartRetrieve, StartDelete,
         StartRename, DeleteOwn, EndRequest, CallExpire, Finish
    <3>3. QED BY <3>1, <3>2
  <2>3. Passed' \subseteq Passed
    BY <1>1, <2>1, <2>2
  <2>4. UNCHANGED checkvars
    BY <1>4 DEF Request, StartNew, StartRetrieve, StartDelete, StartRename, SaveSession, DeleteOwn,
       EndRequest, shared, storeVars
  <2>5. QED BY <1>0, <2>3, <2>4, NotCounted
<1>5. ASSUME NEW t \in Threads, StoreStep(t) PROVE Overshoot'
  <2>1. CASE NewLimit(t)
    <3>1. UNCHANGED checkvars
      BY <2>1 DEF NewLimit, shared, storeVars
    <3>2. CASE SessionsExceeded
      <4>1. Moves(t, "Idle")
        BY <1>0, <2>1, <3>2, MovesWithLocals DEF NewLimit, Finish
      <4>2. Passed' \subseteq Passed
        BY <1>1, <4>1
      <4>3. QED BY <1>0, <3>1, <4>2, NotCounted
    <3>3. CASE ~SessionsExceeded
      <4>1. Passed' \subseteq Workers
        BY DEF Passed
      <4>2. Cardinality(Passed') \in Nat /\ Cardinality(Passed') <= Cardinality(Workers)
        BY <1>0, <4>1, Counts, FS_Subset, FS_CardinalityType
      <4>3. Cardinality(DOMAIN checkvars) + 1 <= MaxSessions
        BY <1>0, <2>1, <3>3, PassesTest
      <4>4. QED BY <1>0, <3>1, <4>2, <4>3, Counts DEF Overshoot
    <3>4. QED BY <3>2, <3>3
  <2>2. CASE NewStore(t)
    <3>1. UNCHANGED checkvars
      BY <2>2 DEF NewStore, storeVars
    <3>2. pc[t] = "NewStore" /\ \E c \in {"NewVars", "Idle"} : Moves(t, c)
      BY <1>0, <2>2, MovesWithLocals DEF NewStore, Finish
    <3>3. Passed' \subseteq Passed
      BY <1>0, <3>2 DEF Moves, Passed, TInv, ControlOK
    <3>4. QED BY <1>0, <3>1, <3>3, NotCounted
  <2>3. CASE NewVars(t)
    <3>1. pc[t] = "NewVars" /\ Moves(t, "NewIPAddr") /\ t \in Workers
      BY <1>0, <2>3, MovesWithLocals DEF NewVars, TInv, ControlOK, LocalsOK, Threads
    <3>2. t \in Passed /\ Passed' \subseteq Passed \ {t}
      BY <1>1, <3>1 DEF Passed
    <3>3. IsFiniteSet(Passed \ {t}) /\ Cardinality(Passed \ {t}) = Cardinality(Passed) - 1
      BY <1>0, <3>2, Counts, FS_RemoveElement
    <3>4. Cardinality(Passed') \in Nat /\ Cardinality(Passed') <= Cardinality(Passed) - 1
      BY <3>2, <3>3, FS_Subset, FS_CardinalityType
    <3>5. DOMAIN checkvars' = DOMAIN checkvars \union {loc[t].new}
      BY <2>3 DEF NewVars, Put
    <3>6. /\ Cardinality(DOMAIN checkvars') \in Nat
          /\ Cardinality(DOMAIN checkvars') <= Cardinality(DOMAIN checkvars) + 1
      BY <1>0, <3>5, Counts, AddOne
    <3>7. QED BY <1>0, <3>4, <3>6, Counts DEF Overshoot
  <2>4. CASE \/ Retrieve(t) \/ Expire(t) \/ Recover(t) \/ Rename(t) \/ Delete(t)
             \/ NewPerIP(t) \/ NewIPAddr(t) \/ NewIPAdd(t) \/ SaveNew(t)
    <3>1. DOMAIN checkvars' \subseteq DOMAIN checkvars
      BY <2>4 DEF Retrieve, RetLookup, RetRead, RetCheck, Expire, ExpNext, ExpDone, Recover, Rename,
         RenDelEntry, RenDelVars, RenIPAddr, Delete, DelPeek, DelEntry, DelVars, DelIPAssoc,
         DelIPSet, DelIPEmpty, DelIPDrop, NewPerIP, NewIPAddr, NewIPAdd, SaveNew,
         WithoutVars, Drop, shared, storeVars
    <3>2. \E c : c \notin {"NewStore", "NewVars"} /\ Moves(t, c)
      <4>1. CASE Retrieve(t) \/ Expire(t) \/ Recover(t)
        <5>1. \E c \in {"RetRead", "RetCheck", "Work", "ExpNext", "DelPeek", "NewPerIP", "Idle",
                        "Crashed"} : Moves(t, c)
          BY <1>0, <4>1, MovesWithLocals DEF Retrieve, RetLookup, RetRead, RetCheck, Expire,
             ExpNext, ExpDone, Recover, CallExpire, Finish, Crash
        <5>2. QED BY <5>1
      <4>2. CASE Rename(t) \/ Delete(t)
        <5>1. \E c \in {"RenDelVars", "RenIPAddr", "DelIPSet", "DelEntry", "DelVars", "DelIPAssoc",
                        "DelIPEmpty", "DelIPDrop", "Idle", "ExpNext", "Work", "Crashed"} : Moves(t, c)
          BY <1>0, <4>2, MovesWithLocals DEF Rename, RenDelEntry, RenDelVars, RenIPAddr, Delete,
             DelPeek, DelEntry, DelVars, DelIPAssoc, DelIPSet, DelIPEmpty, DelIPDrop, Return,
             Finish, Crash
        <5>2. QED BY <5>1
      <4>3. CASE NewPerIP(t) \/ NewIPAddr(t) \/ NewIPAdd(t) \/ SaveNew(t)
        <5>1. \E c \in {"NewLimit", "NewIPAdd", "SaveNew", "RenDelEntry", "Work", "Idle"} : Moves(t, c)
          BY <1>0, <4>3, MovesWithLocals DEF NewPerIP, NewIPAddr, NewIPAdd, SaveNew, Finish
        <5>2. QED BY <5>1
      <4>4. QED BY <2>4, <4>1, <4>2, <4>3
    <3>3. Passed' \subseteq Passed
      BY <1>1, <3>2
    <3>4. QED BY <1>0, <3>1, <3>3, NotCounted
  <2>5. QED BY <1>5, <2>1, <2>2, <2>3, <2>4 DEF StoreStep, New
<1>6. QED BY <1>2, <1>3, <1>4, <1>5 DEF Next

(* The count holds always. *)
LEMMA CountInvariance == Spec => []CInv
<1>1. Init => CInv
  <2> SUFFICES ASSUME Init PROVE CInv
    OBVIOUS
  <2>1. TInv
    BY TypeInit
  <2>2. LockOK /\ VarsOK
    BY ThreadAssumption DEF Init, LockOK, VarsOK, Locked, Threads
  <2>3. DOMAIN checkvars = {} /\ Passed = {}
    BY DEF Init, Passed, Threads
  <2>4. QED
    BY <2>1, <2>2, <2>3, Counts, FS_EmptySet, LimitAssumption DEF CInv, SInv, Overshoot
<1>2. CInv /\ [Next]_vars => CInv'
  BY ControlStep, TypeStep, LockStep, CountStep DEF CInv, SInv, TInv
<1>3. QED BY <1>1, <1>2, PTL DEF Spec

(* session_limit can be overshot by concurrent requests, for any number of *)
(* request threads by at most one session for each further thread.          *)
THEOREM OvershootBounded == Spec => []SessionLimitOvershoot
<1>1. CInv => SessionLimitOvershoot
  BY Counts DEF CInv, SInv, Overshoot, SessionLimitOvershoot
<1>2. QED BY <1>1, CountInvariance, PTL

(* With one request thread the limit is exact, whatever the ExpiryThread   *)
(* does meanwhile.                                                          *)
THEOREM LimitWithOneWorker ==
  ASSUME Cardinality(Workers) = 1
  PROVE  Spec => []SessionLimit
<1>1. CInv => SessionLimit
  BY Counts DEF CInv, SInv, Overshoot, SessionLimit
<1>2. QED BY <1>1, CountInvariance, PTL

-----------------------------------------------------------------------------
(***************************************************************************)
(* SessionStore implements SessionRegistry, for every set of request       *)
(* threads, session IDs and environments and every limit.                   *)
(*                                                                         *)
(* The store writes the data of a session in several places, long after it *)
(* was read: a late save() of a session that was deleted or renamed         *)
(* meanwhile, rename() under a new ID, new() after its statistics.  The     *)
(* invariant says what each thread knows of the data it is about to write:  *)
(* all threads that know the data of a session know the same, and the       *)
(* dictionary holds that or nothing yet.                                    *)
(*                                                                         *)
(* The second part is about who unbinds an LDAPSession: as shipped          *)
(* (session_paranoid is 0) each session keeps the one made for it, and a    *)
(* delete() that unbinds it goes on to remove the session.                  *)
(***************************************************************************)

(* The session a thread has read or renames: sid holds ls. *)
Holds(c, l) == l.ls # Created /\ (c \in {"Work", "RetCheck"} \/ l.op = "rename")

(* The session a thread has made: new holds the data of the old ID, or the *)
(* LDAPSession named after it.                                              *)
Made(l) == l.op \in {"new", "rename"} /\ l.new # NoId
MadeFor(l) == IF l.op = "rename" THEN l.ls ELSE l.new

Knows(c, l, s, d) ==
  \/ Holds(c, l) /\ s = l.sid /\ d = l.ls
  \/ Made(l) /\ s = l.new /\ d = MadeFor(l)

(* Between the placeholder that WebSession.new() stores and the save(). *)
Making == {"NewVars", "NewIPAddr", "NewIPAdd", "SaveNew"}
Pending(c, l, s) == c \in Making /\ s = l.new

(* A thread holds an LDAPSession while it works with a session or renames  *)
(* one, and only new() and rename() draw an ID.                             *)
DataOK ==
  \A t \in Threads :
    /\ pc[t] = "Work" \/ loc[t].op = "rename" => loc[t].ls # Created
    /\ loc[t].op \notin {"new", "rename"} => loc[t].new = NoId

(* No two threads know different data of one session. *)
Agree ==
  \A t, u \in Threads, s, d, e \in SessionIds :
    Knows(pc[t], loc[t], s, d) /\ Knows(pc[u], loc[u], s, e) => d = e

(* The dictionary holds the data a thread knows; the placeholder only while *)
(* the thread that made the session has not saved it.                       *)
Stored ==
  \A t \in Threads, s \in DOMAIN sessiondict, d \in SessionIds :
    Knows(pc[t], loc[t], s, d) =>
      \/ sessiondict[s].data = d
      \/ Pending(pc[t], loc[t], s) /\ sessiondict[s].data = Created

(* Every ID in use was issued before, but the one new() is storing, which   *)
(* holds the placeholder.                                                   *)
IssuedOK ==
  /\ \A s \in DOMAIN sessiondict :
       s \in issued \/ \E t \in Threads : pc[t] = "NewVars" /\ s = loc[t].new
  /\ \A t \in Threads, s, d \in SessionIds :
       Knows(pc[t], loc[t], s, d) => s \in issued \/ (pc[t] = "NewVars" /\ s = loc[t].new)
  /\ \A t \in Threads :
       pc[t] = "NewVars" =>
         /\ loc[t].new \notin issued
         /\ loc[t].new \in DOMAIN sessiondict => sessiondict[loc[t].new].data = Created

(* A locked block that has removed the entry finds it removed. *)
RemovedOK ==
  \A t \in Threads : pc[t] \in {"RenDelVars", "DelVars"} => loc[t].del \notin DOMAIN sessiondict

RInv == SInv /\ DataOK /\ Agree /\ Stored /\ IssuedOK /\ RemovedOK

USE DEF Labels, RetrieveLabels, NewLabels, RenameLabels, ExpireLabels, DeleteLabels

-----------------------------------------------------------------------------
(* How a step of one thread keeps what the threads know.                   *)

KnowledgeKept == DataOK' /\ Agree' /\ Stored' /\ IssuedOK' /\ RemovedOK'

(* The thread learns nothing new, and writes only what it knows. *)
LEMMA Kept ==
  ASSUME RInv, NEW t \in Threads, NEW c \in Labels, Moves(t, c), c # "NewVars",
         \A s, d \in SessionIds :
           Knows(c, loc'[t], s, d) =>
             /\ Knows(pc[t], loc[t], s, d)
             /\ \/ ~Pending(pc[t], loc[t], s)
                \/ Pending(c, loc'[t], s)
                \/ s \in DOMAIN sessiondict' => sessiondict'[s].data = d,
         \A s \in DOMAIN sessiondict' :
           \/ s \in DOMAIN sessiondict /\ sessiondict'[s].data = sessiondict[s].data
           \/ s \in SessionIds /\ sessiondict'[s].data \in SessionIds
              /\ Knows(pc[t], loc[t], s, sessiondict'[s].data),
         DOMAIN sessiondict' \subseteq DOMAIN sessiondict \/ lock = NoThread,
         \/ issued' = issued /\ pc[t] # "NewVars"
         \/ issued' = issued \union {loc[t].new} /\ pc[t] = "NewVars",
         c = "Work" \/ loc'[t].op = "rename" => loc'[t].ls # Created,
         loc'[t].op \notin {"new", "rename"} => loc'[t].new = NoId,
         c \in {"RenDelVars", "DelVars"} => loc'[t].del \notin DOMAIN sessiondict'
  PROVE  KnowledgeKept
<1>1. pc'[t] = c /\ \A u \in Threads : u # t => pc'[u] = pc[u] /\ loc'[u] = loc[u]
  BY DEF Moves, RInv, SInv, TInv, ControlOK
<1>2. \A u \in Threads, s, d \in SessionIds :
        Knows(pc'[u], loc'[u], s, d) => Knows(pc[u], loc[u], s, d)
  BY <1>1
<1>3. DOMAIN sessiondict \subseteq SessionIds
  BY DEF RInv, SInv, TInv, StoreTypeOK
<1>4. DataOK'
  BY <1>1 DEF DataOK, RInv
<1>5. Agree'
  BY <1>2 DEF Agree, RInv
<1>6. Stored'
  <2> SUFFICES ASSUME NEW u \in Threads, NEW s \in DOMAIN sessiondict', NEW d \in SessionIds,
                      Knows(pc'[u], loc'[u], s, d)
               PROVE  \/ sessiondict'[s].data = d
                      \/ Pending(pc'[u], loc'[u], s) /\ sessiondict'[s].data = Created
    BY DEF Stored
  <2>1. s \in SessionIds /\ Knows(pc[u], loc[u], s, d)
    BY <1>2, <1>3
  <2>2. CASE Knows(pc[t], loc[t], s, sessiondict'[s].data) /\ sessiondict'[s].data \in SessionIds
    BY <2>1, <2>2 DEF RInv, Agree
  <2>3. CASE s \in DOMAIN sessiondict /\ sessiondict'[s].data = sessiondict[s].data
    <3>1. sessiondict[s].data = d \/ (Pending(pc[u], loc[u], s) /\ sessiondict[s].data = Created)
      BY <2>1, <2>3 DEF RInv, Stored
    <3>2. CASE u = t
      BY <1>1, <2>1, <2>3, <3>1, <3>2
    <3>3. CASE u # t
      BY <1>1, <2>3, <3>1, <3>3
    <3>4. QED BY <3>2, <3>3
  <2>4. QED BY <2>2, <2>3
<1>7. \A u \in Threads : pc[u] = "NewVars" /\ pc[t] = "NewVars" => u = t
  BY DEF RInv, SInv, LockOK, Locked
<1>8. IssuedOK'
  <2>1. ASSUME NEW s \in DOMAIN sessiondict'
        PROVE  s \in issued' \/ \E u \in Threads : pc'[u] = "NewVars" /\ s = loc'[u].new
    <3>1. s \in issued \/ \E u \in Threads : pc[u] = "NewVars" /\ s = loc[u].new
      BY DEF RInv, IssuedOK
    <3>2. QED BY <1>1, <3>1
  <2>2. ASSUME NEW u \in Threads, NEW s \in SessionIds, NEW d \in SessionIds,
               Knows(pc'[u], loc'[u], s, d)
        PROVE  s \in issued' \/ (pc'[u] = "NewVars" /\ s = loc'[u].new)
    <3>1. s \in issued \/ (pc[u] = "NewVars" /\ s = loc[u].new)
      BY <1>2, <2>2 DEF RInv, IssuedOK
    <3>2. QED BY <1>1, <3>1
  <2>3. ASSUME NEW u \in Threads, pc'[u] = "NewVars"
        PROVE  /\ loc'[u].new \notin issued'
               /\ loc'[u].new \in DOMAIN sessiondict' => sessiondict'[loc'[u].new].data = Created
    <3>1. u # t /\ pc[u] = "NewVars" /\ loc'[u] = loc[u] /\ issued' = issued /\ pc[t] # "NewVars"
      BY <1>1, <1>7, <2>3
    <3>2. /\ loc[u].new \notin issued
          /\ loc[u].new \in DOMAIN sessiondict => sessiondict[loc[u].new].data = Created
      BY <3>1 DEF RInv, IssuedOK
    <3>3. \A s, d \in SessionIds : Knows(pc[t], loc[t], s, d) => s \in issued
      BY <3>1 DEF RInv, IssuedOK
    <3>4. QED BY <3>1, <3>2, <3>3
  <2>4. QED BY <2>1, <2>2, <2>3 DEF IssuedOK
<1>9. RemovedOK'
  <2> SUFFICES ASSUME NEW u \in Threads, pc'[u] \in {"RenDelVars", "DelVars"}
               PROVE  loc'[u].del \notin DOMAIN sessiondict'
    BY DEF RemovedOK
  <2>1. CASE u = t
    BY <1>1, <2>1
  <2>2. CASE u # t
    <3>1. pc[u] \in {"RenDelVars", "DelVars"} /\ loc'[u] = loc[u]
      BY <1>1, <2>2
    <3>2. lock # NoThread
      BY <3>1, ThreadAssumption DEF Threads, RInv, SInv, LockOK, Locked
    <3>3. QED BY <3>1, <3>2 DEF RInv, RemovedOK
  <2>3. QED BY <2>1, <2>2
<1>10. QED BY <1>4, <1>5, <1>6, <1>8, <1>9 DEF KnowledgeKept

(* The thread forgets its session: it ends or starts a request. *)
LEMMA Forgets ==
  ASSUME RInv, NEW t \in Threads, pc[t] # "NewVars",
         NEW c \in Labels \ {"Work", "RetCheck", "NewVars", "RenDelVars", "DelVars"}, Moves(t, c),
         loc'[t].op # "rename", loc'[t].new = NoId,
         UNCHANGED <<sessiondict, issued>>
  PROVE  KnowledgeKept
<1>1. \A s, d \in SessionIds : ~Knows(c, loc'[t], s, d)
  BY DEF Knows, Holds, Made
<1>2. QED BY <1>1, Kept

(* The thread goes on with the same session. *)
LEMMA GoesOn ==
  ASSUME RInv, NEW t \in Threads, pc[t] # "NewVars",
         NEW c \in Labels \ {"NewVars", "RenDelVars", "DelVars"}, Moves(t, c),
         loc'[t].op = loc[t].op, loc'[t].sid = loc[t].sid, loc'[t].new = loc[t].new,
         loc'[t].ls = loc[t].ls,
         c \in {"Work", "RetCheck"} => pc[t] \in {"Work", "RetCheck"},
         c = "Work" => loc[t].ls # Created,
         pc[t] \in Making => c \in Making,
         UNCHANGED <<sessiondict, issued>>
  PROVE  KnowledgeKept
<1>1. \A s, d \in SessionIds : Knows(c, loc'[t], s, d) => Knows(pc[t], loc[t], s, d)
  BY DEF Knows, Holds, Made, MadeFor
<1>2. \A s : Pending(pc[t], loc[t], s) => Pending(c, loc'[t], s)
  BY DEF Pending
<1>3. /\ c = "Work" \/ loc'[t].op = "rename" => loc'[t].ls # Created
      /\ loc'[t].op \notin {"new", "rename"} => loc'[t].new = NoId
  BY DEF RInv, DataOK
<1>4. QED BY <1>1, <1>2, <1>3, Kept

(* The locals a Move puts in place. *)
LEMMA NewLocals ==
  ASSUME TInv, NEW t \in Threads, NEW c, NEW l, Move(t, c, l)
  PROVE  Moves(t, c) /\ loc'[t] = l
<1>1. Moves(t, c)
  BY MovesWithLocals
<1>2. QED BY <1>1 DEF TInv, ControlOK, Move

(* The locals a Goto leaves in place. *)
LEMMA OldLocals ==
  ASSUME TInv, NEW t \in Threads, NEW c, Goto(t, c)
  PROVE  Moves(t, c) /\ loc'[t] = loc[t]
<1>1. Moves(t, c)
  BY MovesWithLocals
<1>2. QED BY <1>1 DEF TInv, ControlOK, Goto

(* The end of a request, with its answer or with a KeyError. *)
LEMMA Ends ==
  ASSUME RInv, NEW t \in Threads, pc[t] # "NewVars", Finish(t) \/ Crash(t),
         UNCHANGED <<sessiondict, issued>>
  PROVE  KnowledgeKept
<1>1. TInv
  BY DEF RInv, SInv
<1>2. PICK c \in {"Idle", "Crashed"} : Move(t, c, NoLocals)
  BY DEF Finish, Crash
<1>3. Moves(t, c) /\ loc'[t] = NoLocals
  BY <1>1, <1>2, NewLocals
<1>4. NoLocals.op = "none" /\ NoLocals.new = NoId
  BY DEF NoLocals
<1>5. QED BY <1>3, <1>4, Forgets

(* The steps in front of the store. *)
LEMMA RequestKnown ==
  ASSUME RInv, NEW t \in Workers, Request(t)
  PROVE  KnowledgeKept
<1> USE DEF At
<1>0. t \in Threads /\ TInv
  BY DEF Threads, RInv, SInv
<1>1. loc[t] \in Locals
  BY <1>0 DEF TInv, ControlOK
<1>2. CASE \/ \E e \in Envs : StartNew(t, e)
           \/ \E s \in issued, e \in Envs : StartRetrieve(t, s, e)
           \/ \E s \in issued : StartDelete(t, s)
           \/ DeleteOwn(t)
  <2>1. pc[t] # "NewVars" /\ UNCHANGED <<sessiondict, issued>>
    BY <1>2 DEF StartNew, StartRetrieve, StartDelete, DeleteOwn, storeVars, shared
  <2>2. ASSUME NEW c \in {"ExpNext", "RetLookup", "DelPeek"}, NEW l, Move(t, c, l),
               l.op # "rename", l.new = NoId
        PROVE  KnowledgeKept
    BY <1>0, <2>1, <2>2, NewLocals, Forgets
  <2>3. ASSUME NEW e \in Envs, StartNew(t, e) PROVE KnowledgeKept
    <3> DEFINE l == [NoLocals EXCEPT !.op = "new", !.check = e.check, !.ip = e.ip]
               m == [l EXCEPT !.cur = now, !.todo = DOMAIN sessiondict]
    <3>1. Move(t, "ExpNext", m) /\ m.op # "rename" /\ m.new = NoId
      BY <2>3 DEF StartNew, CallExpire, NoLocals
    <3>2. QED BY <2>2, <3>1
  <2>4. ASSUME NEW s \in issued, NEW e \in Envs, StartRetrieve(t, s, e) PROVE KnowledgeKept
    <3> DEFINE l == [NoLocals EXCEPT !.op = "retrieve", !.sid = s, !.check = e.check, !.ip = e.ip]
    <3>1. Move(t, "RetLookup", l) /\ l.op # "rename" /\ l.new = NoId
      BY <2>4 DEF StartRetrieve, NoLocals
    <3>2. QED BY <2>2, <3>1
  <2>5. ASSUME NEW s, Move(t, "DelPeek", [NoLocals EXCEPT !.op = "delete", !.del = s,
                                                          !.after = "Idle"])
        PROVE  KnowledgeKept
    <3> DEFINE l == [NoLocals EXCEPT !.op = "delete", !.del = s, !.after = "Idle"]
    <3>1. l.op # "rename" /\ l.new = NoId
      BY DEF NoLocals
    <3>2. QED BY <2>2, <2>5, <3>1
  <2>6. QED BY <1>2, <2>3, <2>4, <2>5 DEF StartDelete, DeleteOwn
<1>3. CASE EndRequest(t)
  BY <1>0, <1>3, Ends DEF EndRequest, shared, storeVars
<1>4. CASE StartRename(t)
  <2>1. /\ pc[t] = "Work" /\ loc[t].op = "retrieve" /\ UNCHANGED <<sessiondict, issued>>
        /\ Moves(t, "RetLookup") /\ loc'[t] = [loc[t] EXCEPT !.op = "rename"]
    BY <1>0, <1>4, NewLocals DEF StartRename, shared, storeVars
  <2>2. /\ loc'[t].op = "rename" /\ loc'[t].sid = loc[t].sid /\ loc'[t].ls = loc[t].ls
        /\ loc'[t].new = NoId /\ loc[t].ls # Created
    BY <1>0, <1>1, <2>1 DEF Locals, RInv, DataOK
  <2>3. \A s, d \in SessionIds :
          Knows("RetLookup", loc'[t], s, d) => Knows(pc[t], loc[t], s, d) /\ ~Pending(pc[t], loc[t], s)
    BY <2>1, <2>2 DEF Knows, Holds, Made, Pending, Making
  <2>4. QED BY <1>0, <2>1, <2>2, <2>3, Kept
<1>5. CASE SaveSession(t)
  <2>1. pc[t] = "Work" /\ lock = NoThread /\ UNCHANGED <<pc, loc, issued>>
        /\ sessiondict' = Put(sessiondict, loc[t].sid, [ts |-> now, data |-> loc[t].ls])
    BY <1>5 DEF SaveSession
  <2>2. loc[t].ls \in SessionIds /\ loc[t].sid \in SessionIds
    BY <1>0, <1>1, <2>1 DEF RInv, DataOK, Locals, SessionData, TInv, ControlOK, LocalsOK
  <2>3. Knows(pc[t], loc[t], loc[t].sid, loc[t].ls)
    BY <2>1, <2>2, IdAssumption DEF Knows, Holds
  <2>4. \A s \in DOMAIN sessiondict' :
          \/ s \in DOMAIN sessiondict /\ sessiondict'[s].data = sessiondict[s].data
          \/ s = loc[t].sid /\ sessiondict'[s].data = loc[t].ls
    BY <2>1 DEF Put
  <2>5. Moves(t, "Work") /\ loc'[t] = loc[t]
    BY <1>0, <2>1 DEF Moves, TInv, ControlOK
  <2>6. /\ loc[t].ls # Created
        /\ loc[t].op \notin {"new", "rename"} => loc[t].new = NoId
    BY <1>0, <2>1 DEF RInv, DataOK
  <2>7. \A s \in SessionIds : ~Pending(pc[t], loc[t], s)
    BY <2>1 DEF Pending, Making
  <2>8. QED BY <1>0, <2>1, <2>2, <2>3, <2>4, <2>5, <2>6, <2>7, Kept
<1>6. QED BY <1>2, <1>3, <1>4, <1>5 DEF Request

(* retrieve(): the locked read is where a thread learns the data. *)
LEMMA RetrieveKnown ==
  ASSUME RInv, NEW t \in Threads, Retrieve(t)
  PROVE  KnowledgeKept
<1> USE DEF At
<1>0. TInv /\ loc[t] \in Locals /\ LocalsOK(t, pc[t], loc[t])
  BY DEF RInv, SInv, TInv, ControlOK
<1>1. pc[t] # "NewVars" /\ UNCHANGED <<sessiondict, issued>>
  BY DEF Retrieve, RetLookup, RetRead, RetCheck, shared, storeVars
<1>2. CASE RetLookup(t)
  <2>1. CASE Goto(t, "RetRead")
    <3>1. pc[t] = "RetLookup" /\ Moves(t, "RetRead") /\ loc'[t] = loc[t]
      BY <1>0, <1>2, <2>1, OldLocals DEF RetLookup
    <3>2. QED BY <1>1, <3>1, GoesOn DEF Making
  <2>2. QED BY <1>1, <1>2, <2>1, Ends DEF RetLookup
<1>3. CASE RetRead(t)
  <2>1. CASE Crash(t)
    BY <1>1, <2>1, Ends
  <2>2. CASE ~Crash(t)
    <3> DEFINE x == loc[t].sid
    <3>1. /\ pc[t] = "RetRead" /\ lock = NoThread /\ x \in DOMAIN sessiondict
          /\ Move(t, "RetCheck", [loc[t] EXCEPT !.stored = checkvars[x], !.ts = sessiondict[x].ts,
                                                !.ls = sessiondict[x].data])
      BY <1>3, <2>2 DEF RetRead
    <3>2. Moves(t, "RetCheck")
          /\ loc'[t] = [loc[t] EXCEPT !.stored = checkvars[x], !.ts = sessiondict[x].ts,
                                      !.ls = sessiondict[x].data]
      BY <1>0, <3>1, NewLocals
    <3>3. /\ loc'[t].op = loc[t].op /\ loc'[t].sid = loc[t].sid /\ loc'[t].new = loc[t].new
          /\ loc'[t].ls = sessiondict[x].data
      BY <1>0, <3>2 DEF Locals
    <3>4. x \in SessionIds /\ sessiondict[x].data \in SessionData
      BY <1>0, <3>1 DEF TInv, StoreTypeOK, Entry, LocalsOK
    <3>5. \A u \in Threads : pc[u] # "NewVars"
      BY <3>1, ThreadAssumption DEF Threads, RInv, SInv, LockOK, Locked
    <3>6. loc[t].op = "rename" => loc[t].ls = sessiondict[x].data
      <4>1. ASSUME loc[t].op = "rename" PROVE loc[t].ls \in SessionIds
        BY <1>0, <4>1 DEF RInv, DataOK, Locals, SessionData
      <4>2. ASSUME loc[t].op = "rename" PROVE Knows(pc[t], loc[t], x, loc[t].ls)
        BY <4>2 DEF Knows, Holds, RInv, DataOK
      <4>3. ~Pending(pc[t], loc[t], x)
        BY <3>1 DEF Pending, Making
      <4>4. QED BY <3>1, <4>1, <4>2, <4>3 DEF RInv, Stored
    <3>7. CASE loc[t].op = "rename"
      <4>1. \A s, d \in SessionIds : Knows("RetCheck", loc'[t], s, d) => Knows(pc[t], loc[t], s, d)
        BY <3>3, <3>6, <3>7 DEF Knows, Holds, Made, MadeFor
      <4>2. \A s \in SessionIds : ~Pending(pc[t], loc[t], s)
        BY <3>1 DEF Pending, Making
      <4>3. loc'[t].ls # Created
        BY <3>3, <3>6, <3>7 DEF RInv, DataOK
      <4>4. QED BY <1>1, <3>2, <3>3, <3>7, <4>1, <4>2, <4>3, Kept
    <3>8. CASE loc[t].op # "rename"
      <4>1. pc'[t] = "RetCheck" /\ \A u \in Threads : u # t => pc'[u] = pc[u] /\ loc'[u] = loc[u]
        BY <1>0, <3>2 DEF Moves, TInv, ControlOK
      <4>2. loc[t].op = "retrieve"
        BY <1>0, <3>1, <3>8 DEF LocalsOK
      <4>3. \A s, d \in SessionIds :
              Knows(pc'[t], loc'[t], s, d) => s = x /\ d = sessiondict[x].data
        BY <3>3, <4>1, <4>2 DEF Knows, Holds, Made
      <4>4. \A u \in Threads, e \in SessionIds :
              Knows(pc[u], loc[u], x, e) /\ sessiondict[x].data \in SessionIds
                => e = sessiondict[x].data
        BY <3>1, <3>4, IdAssumption DEF RInv, Stored
      <4>5. Agree'
        BY <4>1, <4>3, <4>4 DEF RInv, Agree
      <4>6. Stored'
        <5>1. DOMAIN sessiondict \subseteq SessionIds
          BY <1>0 DEF TInv, StoreTypeOK
        <5>2. QED BY <1>1, <4>1, <4>3, <5>1 DEF RInv, Stored
      <4>7. x \in issued
        BY <3>1, <3>5 DEF RInv, IssuedOK
      <4>8. IssuedOK'
        BY <1>1, <3>5, <4>1, <4>3, <4>7 DEF RInv, IssuedOK
      <4>9. DataOK'
        BY <3>3, <4>1, <4>2 DEF RInv, DataOK
      <4>10. RemovedOK'
        BY <1>1, <4>1 DEF RInv, RemovedOK
      <4>11. QED BY <4>5, <4>6, <4>8, <4>9, <4>10 DEF KnowledgeKept
    <3>9. QED BY <3>7, <3>8
  <2>3. QED BY <2>1, <2>2
<1>4. CASE RetCheck(t)
  <2>1. CASE Finish(t)
    BY <1>1, <2>1, Ends
  <2>2. ASSUME NEW c \in {"Work", "ExpNext", "DelPeek"}, Moves(t, c),
               loc'[t].op = loc[t].op, loc'[t].sid = loc[t].sid, loc'[t].new = loc[t].new,
               loc'[t].ls = loc[t].ls, c = "Work" => loc[t].ls # Created
        PROVE  KnowledgeKept
    BY <1>1, <1>4, <2>2, GoesOn DEF Making, RetCheck
  <2>3. CASE Goto(t, "Work") /\ loc[t].ls # Created
    BY <1>0, <2>2, <2>3, OldLocals
  <2>4. CASE CallExpire(t, loc[t])
    <3> DEFINE l == [loc[t] EXCEPT !.cur = now, !.todo = DOMAIN sessiondict]
    <3>1. Moves(t, "ExpNext") /\ loc'[t] = l
      BY <1>0, <2>4, NewLocals DEF CallExpire
    <3>2. l.op = loc[t].op /\ l.sid = loc[t].sid /\ l.new = loc[t].new /\ l.ls = loc[t].ls
      BY <1>0 DEF Locals
    <3> HIDE DEF l
    <3>3. QED BY <2>2, <3>1, <3>2
  <2> DEFINE k == [loc[t] EXCEPT !.del = loc[t].sid, !.after = "RetInvalid"]
  <2>5. CASE Move(t, "DelPeek", k)
    <3>1. Moves(t, "DelPeek") /\ loc'[t] = k
      BY <1>0, <2>5, NewLocals
    <3>2. k.op = loc[t].op /\ k.sid = loc[t].sid /\ k.new = loc[t].new /\ k.ls = loc[t].ls
      BY <1>0 DEF Locals
    <3> HIDE DEF k
    <3>3. QED BY <2>2, <3>1, <3>2
  <2>6. QED BY <1>4, <2>1, <2>3, <2>4, <2>5 DEF RetCheck
<1>5. QED BY <1>2, <1>3, <1>4 DEF Retrieve

(* The four steps of new() between the placeholder and the save(). *)
LEMMA NewKnown ==
  ASSUME RInv, NEW t \in Threads, New(t)
  PROVE  KnowledgeKept
<1> USE DEF At
<1>0. TInv /\ loc[t] \in Locals /\ LocalsOK(t, pc[t], loc[t])
  BY DEF RInv, SInv, TInv, ControlOK
<1>1. CASE NewPerIP(t) \/ NewLimit(t) \/ NewIPAddr(t) \/ NewIPAdd(t)
  <2>1. pc[t] # "NewVars" /\ UNCHANGED <<sessiondict, issued>>
    BY <1>1 DEF NewPerIP, NewLimit, NewIPAddr, NewIPAdd, shared, storeVars
  <2>2. CASE Finish(t)
    BY <2>1, <2>2, Ends
  <2>3. ASSUME NEW c \in {"NewLimit", "NewStore", "NewIPAdd", "SaveNew"}, Goto(t, c),
               pc[t] \in Making => c \in Making
        PROVE  KnowledgeKept
    BY <1>0, <2>1, <2>3, OldLocals, GoesOn
  <2>4. QED BY <1>1, <2>2, <2>3 DEF NewPerIP, NewLimit, NewIPAddr, NewIPAdd, Making
<1>2. CASE NewStore(t)
  <2>1. CASE Finish(t)
    BY <1>2, <2>1, Ends DEF NewStore, storeVars, Finish, Move, RInv, SInv, TInv, ControlOK
  <2>2. CASE ~Finish(t)
    <3>1. PICK x \in NewIds :
            /\ sessiondict' = Put(sessiondict, x, [ts |-> now, data |-> Created])
            /\ Move(t, "NewVars", [loc[t] EXCEPT !.new = x])
      BY <1>2, <2>2 DEF NewStore
    <3>2. pc[t] = "NewStore" /\ lock = NoThread /\ UNCHANGED <<checkvars, issued>>
      BY <1>2, <2>2 DEF NewStore, storeVars
    <3>3. Moves(t, "NewVars") /\ loc'[t] = [loc[t] EXCEPT !.new = x]
      BY <1>0, <3>1, NewLocals
    <3>4. /\ loc'[t].op = loc[t].op /\ loc'[t].sid = loc[t].sid /\ loc'[t].new = x
          /\ loc'[t].ls = loc[t].ls
      BY <1>0, <3>3 DEF Locals
    <3>5. x \in SessionIds /\ x \notin issued
      BY <3>1 DEF NewIds
    <3>6. pc'[t] = "NewVars" /\ \A u \in Threads : u # t => pc'[u] = pc[u] /\ loc'[u] = loc[u]
      BY <1>0, <3>3 DEF Moves, TInv, ControlOK
    <3>7. \A u \in Threads : pc[u] \notin Locked
      BY <3>2, ThreadAssumption DEF Threads, RInv, SInv, LockOK
    <3>8. /\ x \notin DOMAIN sessiondict
          /\ \A u \in Threads, d \in SessionIds : ~Knows(pc[u], loc[u], x, d)
      BY <3>5, <3>7 DEF RInv, IssuedOK, Locked
    <3>9. \A s, d \in SessionIds :
            Knows(pc'[t], loc'[t], s, d) =>
              \/ s = x /\ d = MadeFor(loc'[t])
              \/ s # x /\ Knows(pc[t], loc[t], s, d)
      <4> SUFFICES ASSUME NEW s \in SessionIds, NEW d \in SessionIds, Knows(pc'[t], loc'[t], s, d)
                   PROVE  \/ s = x /\ d = MadeFor(loc'[t])
                          \/ s # x /\ Knows(pc[t], loc[t], s, d)
        OBVIOUS
      <4>1. CASE Made(loc'[t]) /\ s = loc'[t].new /\ d = MadeFor(loc'[t])
        BY <3>4, <4>1
      <4>2. CASE Holds(pc'[t], loc'[t]) /\ s = loc'[t].sid /\ d = loc'[t].ls
        <5>1. Knows(pc[t], loc[t], s, d)
          BY <3>4, <3>6, <4>2 DEF Knows, Holds
        <5>2. QED BY <3>8, <5>1
      <4>3. QED BY <4>1, <4>2 DEF Knows
    <3>10. \A s \in DOMAIN sessiondict' :
             \/ s # x /\ s \in DOMAIN sessiondict /\ sessiondict'[s] = sessiondict[s]
             \/ s = x /\ sessiondict'[s].data = Created
      BY <3>1 DEF Put
    <3>11. Agree'
      <4> SUFFICES ASSUME NEW u \in Threads, NEW v \in Threads, NEW s \in SessionIds,
                          NEW d \in SessionIds, NEW e \in SessionIds,
                          Knows(pc'[u], loc'[u], s, d), Knows(pc'[v], loc'[v], s, e)
                   PROVE  d = e
        BY DEF Agree
      <4>1. CASE s = x
        BY <3>6, <3>8, <3>9, <4>1
      <4>2. CASE s # x
        <5>1. Knows(pc[u], loc[u], s, d) /\ Knows(pc[v], loc[v], s, e)
          BY <3>6, <3>9, <4>2
        <5>2. QED BY <5>1 DEF RInv, Agree
      <4>3. QED BY <4>1, <4>2
    <3>12. Stored'
      <4> SUFFICES ASSUME NEW u \in Threads, NEW s \in DOMAIN sessiondict', NEW d \in SessionIds,
                          Knows(pc'[u], loc'[u], s, d)
                   PROVE  \/ sessiondict'[s].data = d
                          \/ Pending(pc'[u], loc'[u], s) /\ sessiondict'[s].data = Created
        BY DEF Stored
      <4>1. CASE s = x
        <5>1. u = t
          BY <3>6, <3>8, <4>1
        <5>2. QED BY <3>4, <3>6, <3>10, <4>1, <5>1 DEF Pending, Making
      <4>2. CASE s # x
        <5>1. s \in DOMAIN sessiondict /\ sessiondict'[s] = sessiondict[s] /\ s \in SessionIds
          BY <1>0, <3>10, <4>2 DEF TInv, StoreTypeOK
        <5>2. Knows(pc[u], loc[u], s, d)
          BY <3>6, <3>9, <4>2, <5>1
        <5>3. sessiondict[s].data = d \/ (Pending(pc[u], loc[u], s) /\ sessiondict[s].data = Created)
          BY <5>1, <5>2 DEF RInv, Stored
        <5>4. Pending(pc[u], loc[u], s) => u # t
          BY <3>2 DEF Pending, Making
        <5>5. QED BY <3>6, <5>1, <5>3, <5>4
      <4>3. QED BY <4>1, <4>2
    <3>13. IssuedOK'
      <4>1. \A s \in DOMAIN sessiondict' :
              s \in issued' \/ \E u \in Threads : pc'[u] = "NewVars" /\ s = loc'[u].new
        BY <3>2, <3>4, <3>6, <3>7, <3>10 DEF RInv, IssuedOK, Locked
      <4>2. ASSUME NEW u \in Threads, NEW s \in SessionIds, NEW d \in SessionIds,
                   Knows(pc'[u], loc'[u], s, d)
            PROVE  s \in issued' \/ (pc'[u] = "NewVars" /\ s = loc'[u].new)
        <5>1. CASE Knows(pc[u], loc[u], s, d)
          BY <3>2, <3>7, <5>1 DEF RInv, IssuedOK, Locked
        <5>2. CASE ~Knows(pc[u], loc[u], s, d)
          BY <3>4, <3>6, <3>9, <4>2, <5>2
        <5>3. QED BY <5>1, <5>2
      <4>3. ASSUME NEW u \in Threads, pc'[u] = "NewVars"
            PROVE  /\ loc'[u].new \notin issued'
                   /\ loc'[u].new \in DOMAIN sessiondict' => sessiondict'[loc'[u].new].data = Created
        BY <3>2, <3>4, <3>5, <3>6, <3>7, <3>10, <4>3 DEF Locked
      <4>4. QED BY <4>1, <4>2, <4>3 DEF IssuedOK
    <3>14. DataOK'
      BY <1>0, <3>2, <3>4, <3>6 DEF RInv, DataOK, LocalsOK
    <3>15. RemovedOK'
      BY <3>6, <3>7 DEF RemovedOK, Locked
    <3>16. QED BY <3>11, <3>12, <3>13, <3>14, <3>15 DEF KnowledgeKept
  <2>3. QED BY <2>1, <2>2
<1>3. CASE NewVars(t)
  <2>1. /\ pc[t] = "NewVars" /\ UNCHANGED sessiondict /\ issued' = issued \union {loc[t].new}
        /\ Moves(t, "NewIPAddr") /\ loc'[t] = loc[t]
    BY <1>0, <1>3, OldLocals DEF NewVars
  <2>2. \A s, d \in SessionIds :
          Knows("NewIPAddr", loc'[t], s, d) =>
            /\ Knows(pc[t], loc[t], s, d)
            /\ Pending(pc[t], loc[t], s) => Pending("NewIPAddr", loc'[t], s)
    BY <2>1 DEF Knows, Holds, Pending, Making
  <2>3. /\ loc'[t].op = "rename" => loc'[t].ls # Created
        /\ loc'[t].op \notin {"new", "rename"} => loc'[t].new = NoId
    BY <2>1 DEF RInv, DataOK
  <2>4. QED BY <2>1, <2>2, <2>3, Kept
<1>4. CASE SaveNew(t)
  <2>1. pc[t] = "SaveNew" /\ lock = NoThread /\ UNCHANGED issued
    BY <1>4 DEF SaveNew
  <2>2. loc[t].op \in {"new", "rename"} /\ loc[t].new \in SessionIds /\ loc[t].new # NoId
    BY <1>0, <2>1, IdAssumption DEF LocalsOK
  <2>3. MadeFor(loc[t]) \in SessionIds
    BY <1>0, <2>2 DEF MadeFor, RInv, DataOK, Locals, SessionData
  <2>4. Knows(pc[t], loc[t], loc[t].new, MadeFor(loc[t]))
    BY <2>2 DEF Knows, Made
  <2>5. sessiondict' = Put(sessiondict, loc[t].new, [ts |-> now, data |-> MadeFor(loc[t])])
    BY <1>4, <2>2 DEF SaveNew, MadeFor
  <2>6. /\ \A s \in DOMAIN sessiondict' :
             \/ s \in DOMAIN sessiondict /\ sessiondict'[s].data = sessiondict[s].data
             \/ s = loc[t].new /\ sessiondict'[s].data = MadeFor(loc[t])
        /\ sessiondict'[loc[t].new].data = MadeFor(loc[t])
    BY <2>5 DEF Put
  <2>7. \A s \in SessionIds : Pending(pc[t], loc[t], s) => s = loc[t].new
    BY DEF Pending
  <2>8. \A d \in SessionIds : Knows(pc[t], loc[t], loc[t].new, d) => d = MadeFor(loc[t])
    BY <2>2, <2>3, <2>4 DEF RInv, Agree
  <2>9. ASSUME NEW c \in {"RenDelEntry", "Work"}, Moves(t, c), loc'[t].op = loc[t].op,
               loc'[t].new = loc[t].new,
               \/ c = "RenDelEntry" /\ loc[t].op = "rename" /\ loc'[t] = loc[t]
               \/ c = "Work" /\ loc[t].op = "new" /\ loc'[t].sid = loc[t].new /\ loc'[t].ls = loc[t].new
        PROVE  KnowledgeKept
    <3>1. \A s, d \in SessionIds : Knows(c, loc'[t], s, d) => Knows(pc[t], loc[t], s, d)
      BY <2>2, <2>9 DEF Knows, Holds, Made, MadeFor
    <3>2. /\ c = "Work" \/ loc'[t].op = "rename" => loc'[t].ls # Created
          /\ loc'[t].op \notin {"new", "rename"} => loc'[t].new = NoId
      BY <2>2, <2>9, IdAssumption DEF RInv, DataOK
    <3>3. QED BY <2>1, <2>2, <2>3, <2>4, <2>6, <2>7, <2>8, <2>9, <3>1, <3>2, Kept
  <2>10. CASE loc[t].op = "rename"
    <3>1. Moves(t, "RenDelEntry") /\ loc'[t] = loc[t]
      BY <1>0, <1>4, <2>10, OldLocals DEF SaveNew
    <3>2. QED BY <2>9, <2>10, <3>1
  <2>11. CASE loc[t].op = "new"
    <3> DEFINE l == [loc[t] EXCEPT !.sid = loc[t].new, !.ls = loc[t].new]
    <3>1. Moves(t, "Work") /\ loc'[t] = l
      BY <1>0, <1>4, <2>11, NewLocals DEF SaveNew
    <3>2. l.op = loc[t].op /\ l.new = loc[t].new /\ l.sid = loc[t].new /\ l.ls = loc[t].new
      BY <1>0 DEF Locals
    <3> HIDE DEF l
    <3>3. QED BY <2>9, <2>11, <3>1, <3>2
  <2>12. QED BY <2>2, <2>10, <2>11
<1>5. QED BY <1>1, <1>2, <1>3, <1>4 DEF New

(* The caller of delete() goes on with what it had, rename() with the      *)
(* session it has made.                                                     *)
LEMMA ReturnKnown ==
  ASSUME RInv, NEW t \in Threads, pc[t] \in DeleteLabels, Return(t),
         UNCHANGED <<sessiondict, issued>>
  PROVE  KnowledgeKept
<1>0. TInv /\ loc[t] \in Locals /\ LocalsOK(t, pc[t], loc[t])
  BY DEF RInv, SInv, TInv, ControlOK
<1>1. CASE Finish(t)
  BY <1>1, Ends
<1>2. CASE loc[t].after = "ExpNext"
  <2> DEFINE l(n) == [loc[t] EXCEPT !.expired = n, !.del = NoId, !.delip = NoIP, !.after = "Idle"]
  <2>1. \A n : l(n).op = loc[t].op /\ l(n).sid = loc[t].sid /\ l(n).new = loc[t].new
               /\ l(n).ls = loc[t].ls
    BY <1>0 DEF Locals
  <2>2. Move(t, "ExpNext", l(loc[t].expired + 1)) \/ Finish(t)
    BY <1>2 DEF Return
  <2> HIDE DEF l
  <2>3. CASE Move(t, "ExpNext", l(loc[t].expired + 1))
    <3>1. Moves(t, "ExpNext") /\ loc'[t] = l(loc[t].expired + 1)
      BY <1>0, <2>3, NewLocals
    <3>2. QED BY <2>1, <3>1, GoesOn DEF Making
  <2>4. QED BY <2>2, <2>3, <1>1
<1>3. CASE loc[t].after = "Work"
  <2> DEFINE l == [loc[t] EXCEPT !.sid = loc[t].new, !.del = NoId, !.delip = NoIP,
                                 !.after = "Idle"]
  <2>1. l.op = loc[t].op /\ l.sid = loc[t].new /\ l.new = loc[t].new /\ l.ls = loc[t].ls
    BY <1>0 DEF Locals
  <2>2. Move(t, "Work", l)
    BY <1>3 DEF Return
  <2> HIDE DEF l
  <2>3. Moves(t, "Work") /\ loc'[t] = l
    BY <1>0, <2>2, NewLocals
  <2>4. loc[t].op = "rename" /\ loc[t].new \in SessionIds /\ loc[t].ls # Created
    BY <1>0, <1>3 DEF LocalsOK, RInv, DataOK
  <2>5. \A s, d \in SessionIds :
          Knows("Work", loc'[t], s, d) => Knows(pc[t], loc[t], s, d) /\ ~Pending(pc[t], loc[t], s)
    BY <2>1, <2>3, <2>4, IdAssumption DEF Knows, Holds, Made, MadeFor, Pending, Making
  <2>6. QED BY <2>1, <2>3, <2>4, <2>5, Kept
<1>4. QED BY <1>1, <1>2, <1>3 DEF Return

(* The first write of a locked block of delete() or rename(). *)
LEMMA EntryGone ==
  ASSUME RInv, NEW t \in Threads, lock = NoThread, UNCHANGED issued,
         pc[t] \in {"RenDelEntry", "DelEntry"}, NEW c \in {"RenDelVars", "DelVars"}, Moves(t, c),
         loc'[t].op = loc[t].op, loc'[t].sid = loc[t].sid, loc'[t].new = loc[t].new,
         loc'[t].ls = loc[t].ls, sessiondict' = Drop(sessiondict, loc'[t].del)
  PROVE  KnowledgeKept
<1>1. \A s, d \in SessionIds :
        Knows(c, loc'[t], s, d) => Knows(pc[t], loc[t], s, d) /\ ~Pending(pc[t], loc[t], s)
  BY DEF Knows, Holds, Made, MadeFor, Pending, Making
<1>2. /\ loc'[t].op = "rename" => loc'[t].ls # Created
      /\ loc'[t].op \notin {"new", "rename"} => loc'[t].new = NoId
  BY DEF RInv, DataOK
<1>3. /\ \A s \in DOMAIN sessiondict' : s \in DOMAIN sessiondict /\ sessiondict'[s] = sessiondict[s]
      /\ loc'[t].del \notin DOMAIN sessiondict'
  BY DEF Drop
<1>4. QED BY <1>1, <1>2, <1>3, Kept

(* rename() *)
LEMMA RenameKnown ==
  ASSUME RInv, NEW t \in Threads, Rename(t)
  PROVE  KnowledgeKept
<1> USE DEF At
<1>0. TInv /\ loc[t] \in Locals
  BY DEF RInv, SInv, TInv, ControlOK
<1>1. CASE RenDelEntry(t)
  <2> DEFINE l == [loc[t] EXCEPT !.del = loc[t].sid]
  <2>1. l.op = loc[t].op /\ l.sid = loc[t].sid /\ l.new = loc[t].new /\ l.ls = loc[t].ls
        /\ l.del = loc[t].sid
    BY <1>0 DEF Locals
  <2>2. Move(t, "RenDelVars", l) /\ pc[t] = "RenDelEntry" /\ lock = NoThread /\ UNCHANGED issued
        /\ sessiondict' = Drop(sessiondict, loc[t].sid)
    BY <1>1 DEF RenDelEntry
  <2> HIDE DEF l
  <2>3. Moves(t, "RenDelVars") /\ loc'[t] = l
    BY <1>0, <2>2, NewLocals
  <2>4. QED BY <2>1, <2>2, <2>3, EntryGone
<1>2. CASE RenDelVars(t)
  <2>1. /\ pc[t] = "RenDelVars" /\ UNCHANGED <<sessiondict, issued>>
        /\ Moves(t, "RenIPAddr") /\ loc'[t] = loc[t]
    BY <1>0, <1>2, OldLocals DEF RenDelVars
  <2>2. QED BY <2>1, GoesOn DEF Making
<1>3. CASE RenIPAddr(t)
  <2> DEFINE l == [loc[t] EXCEPT !.delip = loc[t].ip, !.after = "Work", !.del = loc[t].sid]
  <2>1. l.op = loc[t].op /\ l.sid = loc[t].sid /\ l.new = loc[t].new /\ l.ls = loc[t].ls
    BY <1>0 DEF Locals
  <2>2. Move(t, "DelIPSet", l) /\ pc[t] = "RenIPAddr" /\ UNCHANGED <<sessiondict, issued>>
    BY <1>3 DEF RenIPAddr, storeVars
  <2> HIDE DEF l
  <2>3. Moves(t, "DelIPSet") /\ loc'[t] = l
    BY <1>0, <2>2, NewLocals
  <2>4. QED BY <2>1, <2>2, <2>3, GoesOn DEF Making
<1>4. QED BY <1>1, <1>2, <1>3 DEF Rename

(* expire() *)
LEMMA ExpireKnown ==
  ASSUME RInv, NEW t \in Threads, Expire(t)
  PROVE  KnowledgeKept
<1> USE DEF At
<1>0. TInv /\ loc[t] \in Locals
  BY DEF RInv, SInv, TInv, ControlOK
<1>1. pc[t] = "ExpNext" /\ UNCHANGED <<sessiondict, issued>>
  BY DEF Expire, ExpNext, ExpDone, shared, storeVars
<1>2. CASE Finish(t) \/ Crash(t)
  BY <1>1, <1>2, Ends
<1>3. ASSUME NEW c \in {"DelPeek", "ExpNext", "NewPerIP"}, NEW l, Move(t, c, l),
             l.op = loc[t].op, l.sid = loc[t].sid, l.new = loc[t].new, l.ls = loc[t].ls
      PROVE  KnowledgeKept
  <2>1. Moves(t, c) /\ loc'[t] = l
    BY <1>0, <1>3, NewLocals
  <2>2. QED BY <1>1, <1>3, <2>1, GoesOn DEF Making
<1>4. CASE ExpNext(t)
  <2> DEFINE k(s) == [loc[t] EXCEPT !.todo = loc[t].todo \ {s}, !.del = s, !.after = "ExpNext"]
             m(s) == [loc[t] EXCEPT !.todo = loc[t].todo \ {s}]
  <2>1. PICK s : Crash(t) \/ Move(t, "DelPeek", k(s)) \/ Move(t, "ExpNext", m(s))
    BY <1>4 DEF ExpNext
  <2>2. /\ k(s).op = loc[t].op /\ k(s).sid = loc[t].sid /\ k(s).new = loc[t].new
           /\ k(s).ls = loc[t].ls
        /\ m(s).op = loc[t].op /\ m(s).sid = loc[t].sid /\ m(s).new = loc[t].new
           /\ m(s).ls = loc[t].ls
    BY <1>0 DEF Locals
  <2> HIDE DEF k, m
  <2>3. QED BY <1>2, <1>3, <2>1, <2>2
<1>5. CASE ExpDone(t)
  <2> DEFINE l == [loc[t] EXCEPT !.expired = 0, !.cur = 0]
  <2>1. Finish(t) \/ Move(t, "NewPerIP", l)
    BY <1>5 DEF ExpDone
  <2>2. l.op = loc[t].op /\ l.sid = loc[t].sid /\ l.new = loc[t].new /\ l.ls = loc[t].ls
    BY <1>0 DEF Locals
  <2> HIDE DEF l
  <2>3. QED BY <1>2, <1>3, <2>1, <2>2
<1>6. QED BY <1>4, <1>5 DEF Expire

(* delete() *)
LEMMA DeleteKnown ==
  ASSUME RInv, NEW t \in Threads, Delete(t)
  PROVE  KnowledgeKept
<1> USE DEF At
<1>0. TInv /\ loc[t] \in Locals /\ pc[t] \in DeleteLabels
  BY DEF RInv, SInv, TInv, ControlOK, Delete, DelPeek, DelEntry, DelVars, DelIPAssoc, DelIPSet,
     DelIPEmpty, DelIPDrop
<1>1. CASE DelEntry(t)
  <2>1. /\ pc[t] = "DelEntry" /\ lock = NoThread /\ UNCHANGED issued
        /\ Moves(t, "DelVars") /\ loc'[t] = loc[t]
        /\ sessiondict' = Drop(sessiondict, loc[t].del)
    BY <1>0, <1>1, OldLocals DEF DelEntry
  <2>2. QED BY <2>1, EntryGone
<1>2. CASE ~DelEntry(t)
  <2>1. UNCHANGED <<sessiondict, issued>>
    BY <1>2 DEF Delete, DelPeek, DelVars, DelIPAssoc, DelIPSet, DelIPEmpty, DelIPDrop, storeVars
  <2>2. CASE Return(t)
    BY <1>0, <2>1, <2>2, ReturnKnown
  <2>3. CASE Crash(t)
    BY <1>0, <2>1, <2>3, Ends
  <2>4. ASSUME NEW c \in {"DelEntry", "DelIPAssoc", "DelIPEmpty", "DelIPDrop"}, Goto(t, c)
        PROVE  KnowledgeKept
    <3>1. Moves(t, c) /\ loc'[t] = loc[t]
      BY <1>0, <2>4, OldLocals
    <3>2. QED BY <1>0, <2>1, <3>1, GoesOn DEF Making
  <2>5. CASE DelIPAssoc(t)
    <3> DEFINE l == [loc[t] EXCEPT !.delip = session_ip_addr[loc[t].del]]
    <3>1. Return(t) \/ Move(t, "DelIPSet", l)
      BY <2>5 DEF DelIPAssoc
    <3>2. l.op = loc[t].op /\ l.sid = loc[t].sid /\ l.new = loc[t].new /\ l.ls = loc[t].ls
      BY <1>0 DEF Locals
    <3> HIDE DEF l
    <3>3. CASE Move(t, "DelIPSet", l)
      <4>1. Moves(t, "DelIPSet") /\ loc'[t] = l
        BY <1>0, <3>3, NewLocals
      <4>2. QED BY <1>0, <2>1, <3>2, <4>1, GoesOn DEF Making
    <3>4. QED BY <2>2, <3>1, <3>3
  <2>6. QED
    BY <1>2, <2>2, <2>3, <2>4, <2>5 DEF Delete, DelPeek, DelVars, DelIPSet, DelIPEmpty, DelIPDrop
<1>3. QED BY <1>1, <1>2

(* Every step keeps what the threads know. *)
LEMMA KnowledgeStep ==
  ASSUME RInv, [Next]_vars
  PROVE  KnowledgeKept
<1>0. TInv
  BY DEF RInv, SInv
<1>1. CASE Tick \/ UNCHANGED vars
  BY <1>1 DEF Tick, vars, storeVars, KnowledgeKept, RInv, DataOK, Agree, Stored, IssuedOK, RemovedOK
<1>2. CASE StartExpiry
  <2> DEFINE l == [NoLocals EXCEPT !.cur = now, !.todo = DOMAIN sessiondict]
  <2>1. l.op # "rename" /\ l.new = NoId
    BY DEF NoLocals
  <2>2. /\ Expirer \in Threads /\ pc[Expirer] # "NewVars" /\ UNCHANGED <<sessiondict, issued>>
        /\ Move(Expirer, "ExpNext", l)
    BY <1>2 DEF Threads, StartExpiry, CallExpire, At, shared, storeVars
  <2> HIDE DEF l
  <2>3. Moves(Expirer, "ExpNext") /\ loc'[Expirer] = l
    BY <1>0, <2>2, NewLocals
  <2>4. QED BY <2>1, <2>2, <2>3, Forgets
<1>3. ASSUME NEW t \in Threads, Recover(t) PROVE KnowledgeKept
  <2>1. /\ pc[t] = "Crashed" /\ UNCHANGED <<sessiondict, issued>>
        /\ Moves(t, "Idle") /\ loc'[t] = loc[t]
    BY <1>0, <1>3, OldLocals DEF Recover, At, storeVars
  <2>2. QED BY <2>1, GoesOn DEF Making
<1>4. QED
  BY <1>1, <1>2, <1>3, RequestKnown, RetrieveKnown, NewKnown, RenameKnown, ExpireKnown, DeleteKnown
     DEF Next, StoreStep

(* What the threads know is right in every reachable state. *)
LEMMA KnowledgeInvariance == Spec => []RInv
<1>1. Init => RInv
  <2> SUFFICES ASSUME Init PROVE RInv
    OBVIOUS
  <2>1. SInv
    BY TypeInit, ThreadAssumption DEF SInv, Init, LockOK, VarsOK, Locked, Threads
  <2>2. /\ sessiondict = [s \in {} |-> 0]
        /\ \A t \in Threads : pc[t] = "Idle" /\ loc[t] = NoLocals
    BY DEF Init
  <2>3. NoLocals.op = "none" /\ NoLocals.new = NoId /\ NoLocals.ls = Created
    BY DEF NoLocals
  <2>4. \A t \in Threads, s, d \in SessionIds : ~Knows(pc[t], loc[t], s, d)
    BY <2>2, <2>3 DEF Knows, Holds, Made
  <2>5. QED BY <2>1, <2>2, <2>3, <2>4 DEF RInv, DataOK, Agree, Stored, IssuedOK, RemovedOK
<1>2. RInv /\ [Next]_vars => RInv'
  <2>1. RInv /\ [Next]_vars => SInv'
    BY ControlStep, TypeStep, LockStep DEF RInv, SInv, TInv
  <2>2. QED BY <2>1, KnowledgeStep DEF RInv, KnowledgeKept
<1>3. QED BY <1>1, <1>2, PTL DEF Spec

-----------------------------------------------------------------------------
(* The refinement mapping: what each kind of step is in SessionRegistry.   *)

(* The steps that neither make nor remove a session, change the data of a  *)
(* live one, or touch what a thread has fetched.                            *)
LEMMA Stutters ==
  ASSUME Live' = Live, issued' = issued,
         \A s \in Live : sessiondict'[s].data = sessiondict[s].data,
         \A t \in Threads : pc'[t] = "RetCheck" <=> pc[t] = "RetCheck",
         \A t \in Threads : pc[t] = "RetCheck" => loc'[t].ls = loc[t].ls
  PROVE  UNCHANGED Registry!registryVars
BY DEF Registry!registryVars

(* What new() has stored is a new session once its second key is there. *)
LEMMA Creates ==
  ASSUME NEW s \in SessionIds, s \notin issued, s \notin Live, Live' = Live \union {s},
         issued' = issued \union {s}, sessiondict' = sessiondict,
         sessiondict[s].data = Created,
         \A t \in Threads : pc'[t] = "RetCheck" <=> pc[t] = "RetCheck",
         \A t \in Threads : pc[t] = "RetCheck" => loc'[t].ls = loc[t].ls
  PROVE  Registry!Create(s)
BY DEF Registry!Create

(* save() of a session that still has both keys. *)
LEMMA Saves ==
  ASSUME NEW s \in Live, s \in SessionIds, NEW d \in SessionIds, sessiondict[s].data \in {Created, d},
         Live' = Live, issued' = issued, sessiondict'[s].data = d,
         \A x \in Live : x # s => sessiondict'[x].data = sessiondict[x].data,
         \A t \in Threads : pc'[t] = "RetCheck" <=> pc[t] = "RetCheck",
         \A t \in Threads : pc[t] = "RetCheck" => loc'[t].ls = loc[t].ls
  PROVE  Registry!Save(s, d)
BY DEF Registry!Save

(* The removal of the first of the two keys. *)
LEMMA Removes ==
  ASSUME NEW s \in Live, s \in SessionIds, s \in issued, Live' = Live \ {s}, issued' = issued,
         \A x \in Live : x # s => sessiondict'[x].data = sessiondict[x].data,
         \A t \in Threads : pc'[t] = "RetCheck" <=> pc[t] = "RetCheck",
         \A t \in Threads : pc[t] = "RetCheck" => loc'[t].ls = loc[t].ls
  PROVE  Registry!Remove(s)
BY DEF Registry!Remove

(* The locked read of retrieve(). *)
LEMMA Fetches ==
  ASSUME NEW u \in Threads, NEW s \in Live, s \in SessionIds, Live' = Live, issued' = issued,
         sessiondict' = sessiondict, pc'[u] = "RetCheck", loc'[u].ls = sessiondict[s].data,
         \A t \in Threads : t # u => (pc'[t] = "RetCheck" <=> pc[t] = "RetCheck"),
         \A t \in Threads : t # u /\ pc[t] = "RetCheck" => loc'[t].ls = loc[t].ls
  PROVE  Registry!Fetch(u, s)
BY DEF Registry!Fetch

(* retrieve() has used what it has read. *)
LEMMA Forgot ==
  ASSUME NEW u \in Threads, Live' = Live, issued' = issued, sessiondict' = sessiondict,
         pc'[u] # "RetCheck",
         \A t \in Threads : t # u => (pc'[t] = "RetCheck" <=> pc[t] = "RetCheck"),
         \A t \in Threads : t # u /\ pc[t] = "RetCheck" => loc'[t].ls = loc[t].ls
  PROVE  Registry!Forget(u)
BY DEF Registry!Forget

(* Steps that write neither the two dictionaries nor issued, by a thread   *)
(* that is not at the end of retrieve().                                    *)
LEMMA Elsewhere ==
  ASSUME TInv, NEW t \in Threads, pc[t] # "RetCheck", NEW c, c # "RetCheck", Moves(t, c)
  PROVE  /\ \A u \in Threads : pc'[u] = "RetCheck" <=> pc[u] = "RetCheck"
         /\ \A u \in Threads : pc[u] = "RetCheck" => loc'[u].ls = loc[u].ls
BY DEF Moves, TInv, ControlOK

(* A step that does not touch the data of sessions is a stutter of the registry. *)
LEMMA QuietStutters ==
  ASSUME TInv, NEW t \in Threads, pc[t] # "RetCheck", NEW c, c # "RetCheck", Moves(t, c),
         UNCHANGED <<sessiondict, checkvars, issued>>
  PROVE  UNCHANGED Registry!registryVars
<1>1. Live' = Live
  BY DEF Live
<1>2. QED BY <1>1, Elsewhere, Stutters

(* A save() of what the thread knows is a Save if the session is live, and *)
(* has no effect if it is gone.                                             *)
LEMMA SaveSteps ==
  ASSUME RInv, NEW t \in Threads, pc[t] # "RetCheck", NEW c, c # "RetCheck", Moves(t, c),
         lock = NoThread, UNCHANGED <<checkvars, issued>>,
         NEW s \in SessionIds, NEW d \in SessionIds, Knows(pc[t], loc[t], s, d),
         sessiondict' = Put(sessiondict, s, [ts |-> now, data |-> d])
  PROVE  [Registry!Next]_Registry!registryVars
<1>1. TInv
  BY DEF RInv, SInv
<1>2. DOMAIN checkvars \subseteq DOMAIN sessiondict
  <2>1. \A u \in Threads : pc[u] \notin Locked
    BY ThreadAssumption DEF RInv, SInv, LockOK, Threads
  <2>2. QED BY <2>1 DEF RInv, SInv, VarsOK, Locked
<1>3. /\ DOMAIN sessiondict' = DOMAIN sessiondict \union {s}
      /\ sessiondict'[s].data = d
      /\ \A x \in DOMAIN sessiondict : x # s => sessiondict'[x] = sessiondict[x]
  BY DEF Put
<1>4. Live' = Live
  BY <1>2, <1>3 DEF Live
<1>5. CASE s \in Live
  <2>1. sessiondict[s].data \in {Created, d}
    BY <1>5 DEF Live, RInv, Stored
  <2>2. \A x \in Live : x # s => sessiondict'[x].data = sessiondict[x].data
    BY <1>3 DEF Live
  <2>3. Registry!Save(s, d)
    BY <1>1, <1>3, <1>4, <1>5, <2>1, <2>2, Elsewhere, Saves
  <2>4. QED BY <2>3 DEF Registry!Next
<1>6. CASE s \notin Live
  <2>1. \A x \in Live : sessiondict'[x].data = sessiondict[x].data
    BY <1>3, <1>6 DEF Live
  <2>2. QED BY <1>1, <1>4, <2>1, Elsewhere, Stutters
<1>7. QED BY <1>5, <1>6

(* delete() takes the entry first: from then on the session is gone, and   *)
(* the deletion of one that is gone already has no effect.                  *)
LEMMA RemoveSteps ==
  ASSUME RInv, NEW t \in Threads, pc[t] # "RetCheck", NEW c, c # "RetCheck", Moves(t, c),
         UNCHANGED <<checkvars, issued>>, NEW s, sessiondict' = Drop(sessiondict, s)
  PROVE  [Registry!Next]_Registry!registryVars
<1>1. TInv
  BY DEF RInv, SInv
<1>2. /\ DOMAIN sessiondict' = DOMAIN sessiondict \ {s}
      /\ \A x \in DOMAIN sessiondict : x # s => sessiondict'[x] = sessiondict[x]
  BY DEF Drop
<1>3. /\ Live' = Live \ {s}
      /\ \A x \in Live : x # s => sessiondict'[x].data = sessiondict[x].data
  BY <1>2 DEF Live
<1>4. CASE s \in Live
  <2>1. s \in SessionIds /\ s \in issued
    BY <1>1, <1>4 DEF Live, TInv, StoreTypeOK
  <2>2. Registry!Remove(s)
    BY <1>1, <1>3, <1>4, <2>1, Elsewhere, Removes
  <2>3. QED BY <2>1, <2>2 DEF Registry!Next
<1>5. CASE s \notin Live
  <2>1. Live' = Live /\ \A x \in Live : sessiondict'[x].data = sessiondict[x].data
    BY <1>3, <1>5
  <2>2. QED BY <1>1, <2>1, Elsewhere, Stutters
<1>6. QED BY <1>4, <1>5

(* Every step of the store is a step of the registry, or none. *)
LEMMA RefinementStep ==
  ASSUME RInv, [Next]_vars
  PROVE  [Registry!Next]_Registry!registryVars
<1> USE DEF At
<1>0. TInv /\ \A t \in Threads : loc[t] \in Locals /\ LocalsOK(t, pc[t], loc[t])
  BY DEF RInv, SInv, TInv, ControlOK
<1>1. CASE Tick \/ UNCHANGED vars
  <2>1. UNCHANGED <<sessiondict, checkvars, issued, pc, loc>>
    BY <1>1 DEF Tick, vars, storeVars
  <2>2. QED BY <2>1, Stutters DEF Live
<1>2. CASE StartExpiry
  <2>1. /\ Expirer \in Threads /\ pc[Expirer] = "Idle" /\ Moves(Expirer, "ExpNext")
        /\ UNCHANGED <<sessiondict, checkvars, issued>>
    BY <1>0, <1>2, MovesWithLocals DEF Threads, StartExpiry, CallExpire, shared, storeVars
  <2>2. QED BY <1>0, <2>1, QuietStutters
<1>3. ASSUME NEW t \in Workers, Request(t) PROVE [Registry!Next]_Registry!registryVars
  <2>1. t \in Threads
    BY DEF Threads
  <2>2. CASE SaveSession(t)
    <3>1. /\ pc[t] = "Work" /\ lock = NoThread /\ UNCHANGED <<checkvars, issued>>
          /\ sessiondict' = Put(sessiondict, loc[t].sid, [ts |-> now, data |-> loc[t].ls])
          /\ Moves(t, "Work")
      BY <1>0, <2>1, <2>2 DEF SaveSession, Moves, TInv, ControlOK
    <3>2. loc[t].sid \in SessionIds /\ loc[t].ls \in SessionIds /\ loc[t].ls # Created
      BY <1>0, <2>1, <3>1 DEF RInv, DataOK, Locals, SessionData, LocalsOK
    <3>3. Knows(pc[t], loc[t], loc[t].sid, loc[t].ls)
      BY <3>1, <3>2 DEF Knows, Holds
    <3>4. QED BY <2>1, <3>1, <3>2, <3>3, SaveSteps
  <2>3. CASE ~SaveSession(t)
    <3>1. pc[t] \in {"Idle", "Work"} /\ UNCHANGED <<sessiondict, checkvars, issued>>
      BY <1>3, <2>3 DEF Request, StartNew, StartRetrieve, StartDelete, StartRename, DeleteOwn,
         EndRequest, shared, storeVars
    <3>2. PICK c \in {"ExpNext", "RetLookup", "DelPeek", "Idle"} : Moves(t, c)
      BY <1>0, <1>3, <2>1, <2>3, MovesWithLocals DEF Request, StartNew, StartRetrieve, StartDelete,
         StartRename, DeleteOwn, EndRequest, CallExpire, Finish
    <3>3. QED BY <1>0, <2>1, <3>1, <3>2, QuietStutters
  <2>4. QED BY <2>2, <2>3
<1>4. ASSUME NEW t \in Threads, StoreStep(t) PROVE [Registry!Next]_Registry!registryVars
  <2>1. CASE RetRead(t)
    <3>0. PICK x : x = loc[t].sid
      OBVIOUS
    <3>1. pc[t] = "RetRead" /\ UNCHANGED <<sessiondict, checkvars, issued>>
      BY <2>1 DEF RetRead, shared, storeVars
    <3>2. CASE Crash(t)
      BY <1>0, <3>1, <3>2, MovesWithLocals, QuietStutters DEF Crash
    <3>3. CASE ~Crash(t)
      <4>1. /\ x \in DOMAIN sessiondict /\ x \in DOMAIN checkvars
            /\ Move(t, "RetCheck", [loc[t] EXCEPT !.stored = checkvars[x], !.ts = sessiondict[x].ts,
                                                  !.ls = sessiondict[x].data])
        BY <2>1, <3>0, <3>3 DEF RetRead
      <4>2. Moves(t, "RetCheck")
            /\ loc'[t] = [loc[t] EXCEPT !.stored = checkvars[x], !.ts = sessiondict[x].ts,
                                        !.ls = sessiondict[x].data]
        BY <1>0, <4>1, NewLocals
      <4>3. /\ pc'[t] = "RetCheck" /\ loc'[t].ls = sessiondict[x].data
            /\ \A u \in Threads : u # t => (pc'[u] = "RetCheck" <=> pc[u] = "RetCheck")
            /\ \A u \in Threads : u # t /\ pc[u] = "RetCheck" => loc'[u].ls = loc[u].ls
        BY <1>0, <4>2 DEF Moves, TInv, ControlOK, Locals
      <4>4. x \in Live /\ x \in SessionIds /\ Live' = Live
        BY <1>0, <3>0, <3>1, <4>1 DEF Live, TInv, StoreTypeOK, LocalsOK
      <4>5. Registry!Fetch(t, x)
        BY <3>1, <4>3, <4>4, Fetches
      <4>6. QED BY <4>4, <4>5 DEF Registry!Next
    <3>4. QED BY <3>2, <3>3
  <2>2. CASE RetCheck(t)
    <3>1. UNCHANGED <<sessiondict, checkvars, issued>>
      BY <2>2 DEF RetCheck, shared, storeVars
    <3>2. PICK c \in {"Work", "ExpNext", "DelPeek", "Idle"} : Moves(t, c)
      BY <1>0, <2>2, MovesWithLocals DEF RetCheck, CallExpire, Finish
    <3>3. /\ pc'[t] # "RetCheck"
          /\ \A u \in Threads : u # t => (pc'[u] = "RetCheck" <=> pc[u] = "RetCheck")
          /\ \A u \in Threads : u # t /\ pc[u] = "RetCheck" => loc'[u].ls = loc[u].ls
      BY <1>0, <3>2 DEF Moves, TInv, ControlOK
    <3>4. Live' = Live
      BY <3>1 DEF Live
    <3>5. Registry!Forget(t)
      BY <3>1, <3>3, <3>4, Forgot
    <3>6. QED BY <3>5 DEF Registry!Next
  <2>3. CASE NewStore(t)
    <3>1. pc[t] = "NewStore" /\ lock = NoThread /\ UNCHANGED <<checkvars, issued>>
      BY <2>3 DEF NewStore, storeVars
    <3>2. CASE Finish(t)
      <4>1. Moves(t, "Idle") /\ UNCHANGED sessiondict
        BY <1>0, <2>3, <3>2, MovesWithLocals DEF NewStore, storeVars, Finish, Move, TInv, ControlOK
      <4>2. QED BY <1>0, <3>1, <4>1, QuietStutters
    <3>3. CASE ~Finish(t)
      <4>1. PICK s \in NewIds :
              /\ sessiondict' = Put(sessiondict, s, [ts |-> now, data |-> Created])
              /\ Move(t, "NewVars", [loc[t] EXCEPT !.new = s])
        BY <2>3, <3>3 DEF NewStore
      <4>2. Moves(t, "NewVars")
        BY <1>0, <4>1, MovesWithLocals
      <4>3. s \notin DOMAIN checkvars
        BY <1>0 DEF NewIds, TInv, StoreTypeOK
      <4>4. Live' = Live /\ \A x \in Live : sessiondict'[x].data = sessiondict[x].data
        BY <3>1, <4>1, <4>3 DEF Live, Put
      <4>5. QED BY <1>0, <3>1, <4>2, <4>4, Elsewhere, Stutters
    <3>4. QED BY <3>2, <3>3
  <2>4. CASE NewVars(t)
    <3>0. PICK s : s = loc[t].new
      OBVIOUS
    <3>1. /\ pc[t] = "NewVars" /\ Moves(t, "NewIPAddr") /\ sessiondict' = sessiondict
          /\ checkvars' = Put(checkvars, s, loc[t].check) /\ issued' = issued \union {s}
      BY <1>0, <2>4, <3>0, MovesWithLocals DEF NewVars
    <3>2. s \in SessionIds /\ s \in DOMAIN sessiondict
      BY <1>0, <3>0, <3>1 DEF LocalsOK, RInv, SInv, VarsOK
    <3>3. s \notin issued /\ sessiondict[s].data = Created
      BY <3>0, <3>1, <3>2 DEF RInv, IssuedOK
    <3>4. s \notin Live /\ Live' = Live \union {s}
      BY <1>0, <3>1, <3>2, <3>3 DEF Live, Put, TInv, StoreTypeOK
    <3>5. Registry!Create(s)
      BY <1>0, <3>1, <3>2, <3>3, <3>4, Elsewhere, Creates
    <3>6. QED BY <3>2, <3>5 DEF Registry!Next
  <2>5. CASE SaveNew(t)
    <3>1. pc[t] = "SaveNew" /\ lock = NoThread /\ UNCHANGED <<checkvars, issued>>
      BY <2>5 DEF SaveNew
    <3>2. PICK c \in {"RenDelEntry", "Work"} : Moves(t, c)
      BY <1>0, <2>5, MovesWithLocals DEF SaveNew
    <3>3. loc[t].op \in {"new", "rename"} /\ loc[t].new \in SessionIds /\ loc[t].new # NoId
      BY <1>0, <3>1, IdAssumption DEF LocalsOK
    <3>4. MadeFor(loc[t]) \in SessionIds
      BY <1>0, <3>3 DEF MadeFor, RInv, DataOK, Locals, SessionData
    <3>5. Knows(pc[t], loc[t], loc[t].new, MadeFor(loc[t]))
      BY <3>3 DEF Knows, Made
    <3>6. sessiondict' = Put(sessiondict, loc[t].new, [ts |-> now, data |-> MadeFor(loc[t])])
      BY <2>5, <3>3 DEF SaveNew, MadeFor
    <3>7. QED BY <3>1, <3>2, <3>3, <3>4, <3>5, <3>6, SaveSteps
  <2>6. CASE RenDelEntry(t) \/ DelEntry(t)
    <3>1. /\ pc[t] \in {"RenDelEntry", "DelEntry"} /\ UNCHANGED <<checkvars, issued>>
          /\ \E s : sessiondict' = Drop(sessiondict, s)
      BY <2>6 DEF RenDelEntry, DelEntry
    <3>2. PICK c \in {"RenDelVars", "DelVars"} : Moves(t, c)
      BY <1>0, <2>6, MovesWithLocals DEF RenDelEntry, DelEntry
    <3>3. QED BY <3>1, <3>2, RemoveSteps
  <2>7. CASE RenDelVars(t) \/ DelVars(t)
    <3>1. /\ pc[t] \in {"RenDelVars", "DelVars"} /\ UNCHANGED <<sessiondict, issued>>
          /\ checkvars' = Drop(checkvars, loc[t].del)
      BY <2>7 DEF RenDelVars, DelVars, WithoutVars
    <3>2. PICK c \in {"RenIPAddr", "DelIPAssoc"} : Moves(t, c)
      BY <1>0, <2>7, MovesWithLocals DEF RenDelVars, DelVars
    <3>3. Live' = Live
      BY <3>1 DEF Live, Drop, RInv, RemovedOK
    <3>4. QED BY <1>0, <3>1, <3>2, <3>3, Elsewhere, Stutters
  <2>8. CASE \/ RetLookup(t) \/ Expire(t) \/ Recover(t)
             \/ NewPerIP(t) \/ NewLimit(t) \/ NewIPAddr(t) \/ NewIPAdd(t)
    <3>1. pc[t] # "RetCheck" /\ UNCHANGED <<sessiondict, checkvars, issued>>
      BY <2>8 DEF RetLookup, Expire, ExpNext, ExpDone, Recover, NewPerIP, NewLimit, NewIPAddr,
         NewIPAdd, shared, storeVars
    <3>2. PICK c \in {"RetRead", "DelPeek", "ExpNext", "NewPerIP", "Idle", "Crashed", "NewLimit",
                      "NewStore", "NewIPAdd", "SaveNew"} : Moves(t, c)
      BY <1>0, <2>8, MovesWithLocals DEF RetLookup, Expire, ExpNext, ExpDone, Recover, NewPerIP,
         NewLimit, NewIPAddr, NewIPAdd, Finish, Crash
    <3>3. QED BY <1>0, <3>1, <3>2, QuietStutters
  <2>9. CASE RenIPAddr(t) \/ DelPeek(t) \/ DelIPAssoc(t) \/ DelIPSet(t) \/ DelIPEmpty(t)
             \/ DelIPDrop(t)
    <3>1. pc[t] # "RetCheck" /\ UNCHANGED <<sessiondict, checkvars, issued>>
      BY <2>9 DEF RenIPAddr, DelPeek, DelIPAssoc, DelIPSet, DelIPEmpty, DelIPDrop, storeVars
    <3>2. PICK c \in {"DelEntry", "DelIPSet", "DelIPEmpty", "DelIPDrop", "Idle", "ExpNext", "Work",
                      "Crashed"} : Moves(t, c)
      BY <1>0, <2>9, MovesWithLocals DEF RenIPAddr, DelPeek, DelIPAssoc, DelIPSet, DelIPEmpty,
         DelIPDrop, Return, Finish, Crash
    <3>3. QED BY <1>0, <3>1, <3>2, QuietStutters
  <2>10. QED
    BY <1>4, <2>1, <2>2, <2>3, <2>4, <2>5, <2>6, <2>7, <2>8, <2>9
       DEF StoreStep, Retrieve, New, Rename, Delete
<1>5. QED BY <1>1, <1>2, <1>3, <1>4 DEF Next

(* The empty store is the registry with every ID unborn. *)
LEMMA RefinementInit == Init => Registry!Init
<1> SUFFICES ASSUME Init PROVE Registry!Init
  OBVIOUS
<1>1. Live = {} /\ issued = {} /\ \A t \in Threads : pc[t] = "Idle"
  BY DEF Init, Live
<1>2. QED BY <1>1 DEF Registry!Init

(* With any number of threads and sessions, in every interleaving: a       *)
(* session that was deleted, expired or renamed never comes back, a live    *)
(* one never changes from one LDAPSession to another, and retrieve()        *)
(* returns the data the session has at its locked read.                     *)
THEOREM StoreImplementsRegistry == Spec => ImplementsRegistry
<1>1. Spec => Registry!Init /\ [][Registry!Next]_Registry!registryVars
  BY KnowledgeInvariance, RefinementInit, RefinementStep, PTL DEF Spec
<1>2. QED BY <1>1 DEF ImplementsRegistry, Registry!Spec

-----------------------------------------------------------------------------
(* Who unbinds a connection, while web2ldapcnf.session_paranoid is 0, as   *)
(* shipped: every session keeps the LDAPSession made for it.                *)

OwnDataOK ==
  /\ \A s \in DOMAIN sessiondict : sessiondict[s].data \in {Created, s}
  /\ \A t \in Threads :
       /\ loc[t].op # "rename" /\ loc[t].after # "Work"
       /\ pc[t] \in {"Work", "RetCheck"} => loc[t].ls \in {Created, loc[t].sid}

(* An LDAPSession was unbound by a delete() of its session that is still   *)
(* under way or has removed the cross-check data for good.                  *)
UnboundOK ==
  \A s \in unbound :
    /\ s \in issued
    /\ \/ s \notin DOMAIN checkvars
       \/ \E t \in Threads : pc[t] \in {"DelEntry", "DelVars"} /\ loc[t].del = s

UInv == RInv /\ OwnDataOK /\ UnboundOK

(* What a step of one thread owes to the two parts. *)
LEMMA UnboundKept ==
  ASSUME UInv, NEW t \in Threads, NEW c, Moves(t, c),
         loc'[t].op # "rename", loc'[t].after # "Work",
         c \in {"Work", "RetCheck"} => loc'[t].ls \in {Created, loc'[t].sid},
         \A s \in DOMAIN sessiondict' :
           \/ s \in DOMAIN sessiondict /\ sessiondict'[s].data = sessiondict[s].data
           \/ sessiondict'[s].data \in {Created, s},
         issued \subseteq issued',
         \A s \in DOMAIN checkvars' : s \in DOMAIN checkvars \/ s \notin issued,
         \A s \in unbound' : s \in unbound \/ (s \in issued /\ c = "DelEntry" /\ loc'[t].del = s),
         pc[t] \in {"DelEntry", "DelVars"} =>
           \/ c \in {"DelEntry", "DelVars"} /\ loc'[t].del = loc[t].del
           \/ loc[t].del \notin DOMAIN checkvars'
  PROVE  OwnDataOK' /\ UnboundOK'
<1>1. pc'[t] = c /\ \A u \in Threads : u # t => pc'[u] = pc[u] /\ loc'[u] = loc[u]
  BY DEF Moves, UInv, RInv, SInv, TInv, ControlOK
<1>2. OwnDataOK'
  BY <1>1 DEF UInv, OwnDataOK
<1>3. UnboundOK'
  <2> SUFFICES ASSUME NEW s \in unbound'
               PROVE  /\ s \in issued'
                      /\ \/ s \notin DOMAIN checkvars'
                         \/ \E u \in Threads : pc'[u] \in {"DelEntry", "DelVars"} /\ loc'[u].del = s
    BY DEF UnboundOK
  <2>1. CASE s \notin unbound
    BY <1>1, <2>1
  <2>2. CASE s \in unbound
    <3>1. s \in issued
      BY <2>2 DEF UInv, UnboundOK
    <3>2. CASE s \notin DOMAIN checkvars
      BY <3>1, <3>2
    <3>3. CASE s \in DOMAIN checkvars
      <4>1. PICK u \in Threads : pc[u] \in {"DelEntry", "DelVars"} /\ loc[u].del = s
        BY <2>2, <3>3 DEF UInv, UnboundOK
      <4>2. CASE u = t
        BY <1>1, <3>1, <4>1, <4>2
      <4>3. CASE u # t
        BY <1>1, <3>1, <4>1, <4>3
      <4>4. QED BY <4>2, <4>3
    <3>4. QED BY <3>2, <3>3
  <2>3. QED BY <2>1, <2>2
<1>4. QED BY <1>2, <1>3

(* A step with new locals l that leaves the store alone. *)
LEMMA UnboundQuiet ==
  ASSUME UInv, NEW t \in Threads, pc[t] \notin {"DelEntry", "DelVars"}, NEW c, NEW l, Move(t, c, l),
         l.op # "rename", l.after # "Work",
         c \in {"Work", "RetCheck"} => l.ls \in {Created, l.sid},
         UNCHANGED <<sessiondict, checkvars, issued, unbound>>
  PROVE  OwnDataOK' /\ UnboundOK'
<1>1. Moves(t, c) /\ loc'[t] = l
  BY NewLocals DEF UInv, RInv, SInv
<1>2. QED BY <1>1, UnboundKept

(* A thread that goes on in the same call. *)
LEMMA UnboundGoto ==
  ASSUME UInv, NEW t \in Threads, pc[t] \notin {"DelEntry", "DelVars"}, NEW c, Goto(t, c),
         c \in {"Work", "RetCheck"} => pc[t] \in {"Work", "RetCheck"},
         UNCHANGED <<sessiondict, checkvars, issued, unbound>>
  PROVE  OwnDataOK' /\ UnboundOK'
<1>1. Moves(t, c) /\ loc'[t] = loc[t]
  BY OldLocals DEF UInv, RInv, SInv
<1>2. QED BY <1>1, UnboundKept DEF UInv, OwnDataOK

(* A thread whose call ends. *)
LEMMA UnboundEnds ==
  ASSUME UInv, NEW t \in Threads, pc[t] \notin {"DelEntry", "DelVars"}, Finish(t) \/ Crash(t),
         UNCHANGED <<sessiondict, checkvars, issued, unbound>>
  PROVE  OwnDataOK' /\ UnboundOK'
<1>1. NoLocals.op # "rename" /\ NoLocals.after # "Work"
  BY DEF NoLocals
<1>2. PICK c \in {"Idle", "Crashed"} : Move(t, c, NoLocals)
  BY DEF Finish, Crash
<1>3. QED BY <1>1, <1>2, UnboundQuiet

(* The steps in front of the store. *)
LEMMA UnboundRequest ==
  ASSUME UInv, ~Paranoid, NEW t \in Workers, Request(t)
  PROVE  OwnDataOK' /\ UnboundOK'
<1> USE DEF At
<1>0. t \in Threads /\ TInv /\ loc[t] \in Locals
  BY DEF Threads, UInv, RInv, SInv, TInv, ControlOK
<1>1. CASE SaveSession(t)
  <2>1. /\ pc[t] = "Work" /\ UNCHANGED <<checkvars, issued, unbound>>
        /\ sessiondict' = Put(sessiondict, loc[t].sid, [ts |-> now, data |-> loc[t].ls])
        /\ Moves(t, "Work") /\ loc'[t] = loc[t]
    BY <1>0, <1>1 DEF SaveSession, Moves, TInv, ControlOK
  <2>2. loc[t].op # "rename" /\ loc[t].after # "Work" /\ loc[t].ls \in {Created, loc[t].sid}
    BY <1>0, <2>1 DEF UInv, OwnDataOK
  <2>3. \A s \in DOMAIN sessiondict' :
          \/ s \in DOMAIN sessiondict /\ sessiondict'[s].data = sessiondict[s].data
          \/ sessiondict'[s].data \in {Created, s}
    BY <2>1, <2>2 DEF Put
  <2>4. QED BY <1>0, <2>1, <2>2, <2>3, UnboundKept
<1>2. CASE ~SaveSession(t)
  <2>1. pc[t] \notin {"DelEntry", "DelVars"} /\ UNCHANGED <<sessiondict, checkvars, issued, unbound>>
    BY <1>2 DEF Request, StartNew, StartRetrieve, StartDelete, StartRename, DeleteOwn, EndRequest,
       shared, storeVars
  <2>2. CASE EndRequest(t)
    BY <1>0, <2>1, <2>2, UnboundEnds DEF EndRequest
  <2>3. ASSUME NEW e \in Envs, StartNew(t, e) PROVE OwnDataOK' /\ UnboundOK'
    <3> DEFINE l == [NoLocals EXCEPT !.op = "new", !.check = e.check, !.ip = e.ip]
               m == [l EXCEPT !.cur = now, !.todo = DOMAIN sessiondict]
    <3>1. Move(t, "ExpNext", m) /\ m.op # "rename" /\ m.after # "Work"
      BY <2>3 DEF StartNew, CallExpire, NoLocals
    <3> HIDE DEF m
    <3>2. QED BY <1>0, <2>1, <3>1, UnboundQuiet
  <2>4. ASSUME NEW s \in issued, NEW e \in Envs, StartRetrieve(t, s, e)
        PROVE  OwnDataOK' /\ UnboundOK'
    <3> DEFINE l == [NoLocals EXCEPT !.op = "retrieve", !.sid = s, !.check = e.check, !.ip = e.ip]
    <3>1. Move(t, "RetLookup", l) /\ l.op # "rename" /\ l.after # "Work"
      BY <2>4 DEF StartRetrieve, NoLocals
    <3> HIDE DEF l
    <3>2. QED BY <1>0, <2>1, <3>1, UnboundQuiet
  <2>5. ASSUME NEW s, Move(t, "DelPeek", [NoLocals EXCEPT !.op = "delete", !.del = s,
                                                          !.after = "Idle"])
        PROVE  OwnDataOK' /\ UnboundOK'
    <3> DEFINE l == [NoLocals EXCEPT !.op = "delete", !.del = s, !.after = "Idle"]
    <3>1. l.op # "rename" /\ l.after # "Work"
      BY DEF NoLocals
    <3> HIDE DEF l
    <3>2. QED BY <1>0, <2>1, <2>5, <3>1, UnboundQuiet DEF l
  <2>6. QED BY <1>2, <2>2, <2>3, <2>4, <2>5 DEF Request, StartDelete, DeleteOwn, StartRename
<1>3. QED BY <1>1, <1>2

(* retrieve() *)
LEMMA UnboundRetrieve ==
  ASSUME UInv, NEW t \in Threads, Retrieve(t)
  PROVE  OwnDataOK' /\ UnboundOK'
<1> USE DEF At
<1>0. TInv /\ loc[t] \in Locals
  BY DEF UInv, RInv, SInv, TInv, ControlOK
<1>1. /\ pc[t] \in RetrieveLabels /\ UNCHANGED <<sessiondict, checkvars, issued, unbound>>
      /\ loc[t].op # "rename" /\ loc[t].after # "Work"
  BY DEF Retrieve, RetLookup, RetRead, RetCheck, shared, storeVars, UInv, OwnDataOK
<1>2. CASE Finish(t) \/ Crash(t)
  BY <1>1, <1>2, UnboundEnds
<1>3. CASE Goto(t, "RetRead") \/ (Goto(t, "Work") /\ pc[t] = "RetCheck")
  BY <1>1, <1>3, UnboundGoto
<1>4. CASE RetRead(t) /\ ~Crash(t)
  <2>0. PICK x : x = loc[t].sid
    OBVIOUS
  <2> DEFINE l == [loc[t] EXCEPT !.stored = checkvars[x], !.ts = sessiondict[x].ts,
                                 !.ls = sessiondict[x].data]
  <2>1. x \in DOMAIN sessiondict /\ Move(t, "RetCheck", l)
    BY <1>4, <2>0 DEF RetRead
  <2>2. l.op # "rename" /\ l.after # "Work" /\ l.ls = sessiondict[x].data /\ l.sid = x
    BY <1>0, <1>1, <2>0 DEF Locals
  <2>3. sessiondict[x].data \in {Created, x}
    BY <2>1 DEF UInv, OwnDataOK
  <2> HIDE DEF l
  <2>4. QED BY <1>1, <2>1, <2>2, <2>3, UnboundQuiet
<1>5. CASE Move(t, "DelPeek", [loc[t] EXCEPT !.del = loc[t].sid, !.after = "RetInvalid"])
  <2> DEFINE l == [loc[t] EXCEPT !.del = loc[t].sid, !.after = "RetInvalid"]
  <2>1. l.op # "rename" /\ l.after # "Work"
    BY <1>0, <1>1 DEF Locals
  <2> HIDE DEF l
  <2>2. QED BY <1>1, <1>5, <2>1, UnboundQuiet DEF l
<1>6. QED BY <1>1, <1>2, <1>3, <1>4, <1>5 DEF Retrieve, RetLookup, RetCheck

(* new() *)
LEMMA UnboundNew ==
  ASSUME UInv, NEW t \in Threads, New(t)
  PROVE  OwnDataOK' /\ UnboundOK'
<1> USE DEF At
<1>0. TInv /\ loc[t] \in Locals /\ LocalsOK(t, pc[t], loc[t])
  BY DEF UInv, RInv, SInv, TInv, ControlOK
<1>1. pc[t] \in NewLabels /\ UNCHANGED unbound /\ loc[t].op # "rename" /\ loc[t].after # "Work"
  BY DEF New, NewPerIP, NewLimit, NewStore, NewVars, NewIPAddr, NewIPAdd, SaveNew, shared, UInv,
     OwnDataOK
<1>2. CASE NewPerIP(t) \/ NewLimit(t) \/ NewIPAddr(t) \/ NewIPAdd(t)
  <2>1. UNCHANGED <<sessiondict, checkvars, issued>>
    BY <1>2 DEF NewPerIP, NewLimit, NewIPAddr, NewIPAdd, shared, storeVars
  <2>2. Finish(t) \/ \E c \in {"NewLimit", "NewStore", "NewIPAdd", "SaveNew"} : Goto(t, c)
    BY <1>2 DEF NewPerIP, NewLimit, NewIPAddr, NewIPAdd
  <2>3. QED BY <1>1, <2>1, <2>2, UnboundEnds, UnboundGoto
<1>3. CASE NewStore(t)
  <2>1. CASE Finish(t)
    <3>1. UNCHANGED <<sessiondict, checkvars, issued>>
      BY <1>0, <1>3, <2>1 DEF NewStore, storeVars, Finish, Move, TInv, ControlOK
    <3>2. QED BY <1>1, <2>1, <3>1, UnboundEnds
  <2>2. CASE ~Finish(t)
    <3>1. PICK x \in NewIds :
            /\ sessiondict' = Put(sessiondict, x, [ts |-> now, data |-> Created])
            /\ Move(t, "NewVars", [loc[t] EXCEPT !.new = x]) /\ UNCHANGED <<checkvars, issued>>
      BY <1>3, <2>2 DEF NewStore
    <3> DEFINE l == [loc[t] EXCEPT !.new = x]
    <3>2. Moves(t, "NewVars") /\ loc'[t] = l
      BY <1>0, <3>1, NewLocals
    <3>3. l.op # "rename" /\ l.after # "Work"
      BY <1>0, <1>1 DEF Locals
    <3> HIDE DEF l
    <3>4. \A s \in DOMAIN sessiondict' :
            \/ s \in DOMAIN sessiondict /\ sessiondict'[s].data = sessiondict[s].data
            \/ sessiondict'[s].data \in {Created, s}
      BY <3>1 DEF Put
    <3>5. QED BY <1>1, <3>1, <3>2, <3>3, <3>4, UnboundKept
  <2>3. QED BY <2>1, <2>2
<1>4. CASE NewVars(t)
  <2>1. /\ pc[t] = "NewVars" /\ UNCHANGED sessiondict /\ issued' = issued \union {loc[t].new}
        /\ checkvars' = Put(checkvars, loc[t].new, loc[t].check)
        /\ Moves(t, "NewIPAddr") /\ loc'[t] = loc[t]
    BY <1>0, <1>4, OldLocals DEF NewVars
  <2>2. loc[t].new \notin issued
    BY <2>1 DEF UInv, RInv, IssuedOK
  <2>3. \A s \in DOMAIN checkvars' : s \in DOMAIN checkvars \/ s \notin issued
    BY <2>1, <2>2 DEF Put
  <2>4. QED BY <1>1, <2>1, <2>3, UnboundKept
<1>5. CASE SaveNew(t)
  <2> DEFINE l == [loc[t] EXCEPT !.sid = loc[t].new, !.ls = loc[t].new]
  <2>1. /\ UNCHANGED <<checkvars, issued>> /\ Move(t, "Work", l)
        /\ sessiondict' = Put(sessiondict, loc[t].new, [ts |-> now, data |-> loc[t].new])
    BY <1>1, <1>5 DEF SaveNew
  <2>2. l.op # "rename" /\ l.after # "Work" /\ l.ls = l.sid
    BY <1>0, <1>1 DEF Locals
  <2> HIDE DEF l
  <2>3. Moves(t, "Work") /\ loc'[t] = l
    BY <1>0, <2>1, NewLocals
  <2>4. \A s \in DOMAIN sessiondict' :
          \/ s \in DOMAIN sessiondict /\ sessiondict'[s].data = sessiondict[s].data
          \/ sessiondict'[s].data \in {Created, s}
    BY <2>1 DEF Put
  <2>5. QED BY <1>1, <2>1, <2>2, <2>3, <2>4, UnboundKept
<1>6. QED BY <1>2, <1>3, <1>4, <1>5 DEF New

(* expire() *)
LEMMA UnboundExpire ==
  ASSUME UInv, NEW t \in Threads, Expire(t)
  PROVE  OwnDataOK' /\ UnboundOK'
<1> USE DEF At
<1>0. TInv /\ loc[t] \in Locals
  BY DEF UInv, RInv, SInv, TInv, ControlOK
<1>1. /\ pc[t] = "ExpNext" /\ UNCHANGED <<sessiondict, checkvars, issued, unbound>>
      /\ loc[t].op # "rename" /\ loc[t].after # "Work"
  BY DEF Expire, ExpNext, ExpDone, shared, storeVars, UInv, OwnDataOK
<1>2. CASE Finish(t) \/ Crash(t)
  BY <1>1, <1>2, UnboundEnds
<1>3. CASE ExpNext(t)
  <2> DEFINE k(s) == [loc[t] EXCEPT !.todo = loc[t].todo \ {s}, !.del = s, !.after = "ExpNext"]
             m(s) == [loc[t] EXCEPT !.todo = loc[t].todo \ {s}]
  <2>1. PICK s : Crash(t) \/ Move(t, "DelPeek", k(s)) \/ Move(t, "ExpNext", m(s))
    BY <1>3 DEF ExpNext
  <2>2. /\ k(s).op # "rename" /\ k(s).after # "Work"
        /\ m(s).op # "rename" /\ m(s).after # "Work"
    BY <1>0, <1>1 DEF Locals
  <2> HIDE DEF k, m
  <2>3. QED BY <1>1, <1>2, <2>1, <2>2, UnboundQuiet
<1>4. CASE ExpDone(t)
  <2> DEFINE l == [loc[t] EXCEPT !.expired = 0, !.cur = 0]
  <2>1. Finish(t) \/ Move(t, "NewPerIP", l)
    BY <1>4 DEF ExpDone
  <2>2. l.op # "rename" /\ l.after # "Work"
    BY <1>0, <1>1 DEF Locals
  <2> HIDE DEF l
  <2>3. QED BY <1>1, <1>2, <2>1, <2>2, UnboundQuiet
<1>5. QED BY <1>3, <1>4 DEF Expire

(* delete(): the LDAPSession it unbinds is that of its own session. *)
LEMMA UnboundDelete ==
  ASSUME UInv, NEW t \in Threads, Delete(t)
  PROVE  OwnDataOK' /\ UnboundOK'
<1> USE DEF At
<1>0. TInv /\ loc[t] \in Locals /\ loc[t].op # "rename" /\ loc[t].after # "Work"
  BY DEF UInv, RInv, SInv, TInv, ControlOK, OwnDataOK
<1>1. CASE DelPeek(t)
  <2>1. /\ pc[t] = "DelPeek" /\ UNCHANGED <<sessiondict, checkvars, issued>>
        /\ Moves(t, "DelEntry") /\ loc'[t] = loc[t]
    BY <1>0, <1>1, OldLocals DEF DelPeek, storeVars
  <2>2. \A s \in unbound' : s \in unbound \/ (s \in issued /\ loc[t].del = s)
    <3> SUFFICES ASSUME NEW s \in unbound', s \notin unbound PROVE s \in issued /\ loc[t].del = s
      OBVIOUS
    <3>1. /\ loc[t].del \in DOMAIN sessiondict /\ sessiondict[loc[t].del].data # Created
          /\ s = sessiondict[loc[t].del].data
      BY <1>1 DEF DelPeek
    <3>2. s = loc[t].del
      BY <3>1 DEF UInv, OwnDataOK
    <3>3. s \in issued
      <4>1. s \in issued \/ \E u \in Threads : pc[u] = "NewVars" /\ s = loc[u].new
        BY <3>1, <3>2 DEF UInv, RInv, IssuedOK
      <4>2. \A u \in Threads : pc[u] = "NewVars" => s # loc[u].new
        BY <3>1, <3>2 DEF UInv, RInv, IssuedOK
      <4>3. QED BY <4>1, <4>2
    <3>4. QED BY <3>2, <3>3
  <2>3. QED BY <1>0, <2>1, <2>2, UnboundKept
<1>2. CASE DelEntry(t)
  <2>1. /\ UNCHANGED <<checkvars, issued, unbound>> /\ sessiondict' = Drop(sessiondict, loc[t].del)
        /\ Moves(t, "DelVars") /\ loc'[t] = loc[t]
    BY <1>0, <1>2, OldLocals DEF DelEntry
  <2>2. \A s \in DOMAIN sessiondict' : s \in DOMAIN sessiondict /\ sessiondict'[s] = sessiondict[s]
    BY <2>1 DEF Drop
  <2>3. QED BY <1>0, <2>1, <2>2, UnboundKept
<1>3. CASE DelVars(t)
  <2>1. /\ UNCHANGED <<sessiondict, issued, unbound>> /\ checkvars' = Drop(checkvars, loc[t].del)
        /\ Moves(t, "DelIPAssoc") /\ loc'[t] = loc[t]
    BY <1>0, <1>3, OldLocals DEF DelVars, WithoutVars
  <2>2. loc[t].del \notin DOMAIN checkvars' /\ DOMAIN checkvars' \subseteq DOMAIN checkvars
    BY <2>1 DEF Drop
  <2>3. QED BY <1>0, <2>1, <2>2, UnboundKept
<1>4. CASE DelIPAssoc(t) \/ DelIPSet(t) \/ DelIPEmpty(t) \/ DelIPDrop(t)
  <2>1. /\ pc[t] \notin {"DelEntry", "DelVars"}
        /\ UNCHANGED <<sessiondict, checkvars, issued, unbound>>
    BY <1>4 DEF DelIPAssoc, DelIPSet, DelIPEmpty, DelIPDrop, storeVars
  <2> DEFINE l(n) == [loc[t] EXCEPT !.expired = n, !.del = NoId, !.delip = NoIP, !.after = "Idle"]
             k == [loc[t] EXCEPT !.delip = session_ip_addr[loc[t].del]]
  <2>2. \/ Finish(t) \/ Crash(t) \/ Move(t, "ExpNext", l(loc[t].expired + 1))
        \/ Move(t, "DelIPSet", k) \/ Goto(t, "DelIPEmpty") \/ Goto(t, "DelIPDrop")
    BY <1>0, <1>4 DEF DelIPAssoc, DelIPSet, DelIPEmpty, DelIPDrop, Return
  <2>3. /\ \A n : l(n).op # "rename" /\ l(n).after # "Work"
        /\ k.op # "rename" /\ k.after # "Work"
    BY <1>0 DEF Locals
  <2> HIDE DEF l, k
  <2>4. QED BY <2>1, <2>2, <2>3, UnboundEnds, UnboundGoto, UnboundQuiet
<1>5. QED BY <1>1, <1>2, <1>3, <1>4 DEF Delete

(* Every step, while no request renames its session. *)
LEMMA UnboundStep ==
  ASSUME UInv, ~Paranoid, [Next]_vars
  PROVE  OwnDataOK' /\ UnboundOK'
<1>1. CASE Tick \/ UNCHANGED vars
  BY <1>1 DEF Tick, vars, storeVars, UInv, OwnDataOK, UnboundOK
<1>2. CASE StartExpiry
  <2> DEFINE l == [NoLocals EXCEPT !.cur = now, !.todo = DOMAIN sessiondict]
  <2>1. l.op # "rename" /\ l.after # "Work"
    BY DEF NoLocals
  <2>2. /\ Expirer \in Threads /\ pc[Expirer] \notin {"DelEntry", "DelVars"}
        /\ UNCHANGED <<sessiondict, checkvars, issued, unbound>> /\ Move(Expirer, "ExpNext", l)
    BY <1>2 DEF Threads, StartExpiry, CallExpire, At, shared, storeVars
  <2> HIDE DEF l
  <2>3. QED BY <2>1, <2>2, UnboundQuiet
<1>3. ASSUME NEW t \in Threads, Recover(t) PROVE OwnDataOK' /\ UnboundOK'
  BY <1>3, UnboundGoto DEF Recover, At, storeVars
<1>4. ASSUME NEW t \in Threads PROVE ~Rename(t)
  BY DEF Rename, RenDelEntry, RenDelVars, RenIPAddr, At, UInv, OwnDataOK, RInv, SInv, TInv,
     ControlOK, LocalsOK
<1>5. QED
  BY <1>1, <1>2, <1>3, <1>4, UnboundRequest, UnboundRetrieve, UnboundNew, UnboundExpire,
     UnboundDelete DEF Next, StoreStep

(* As shipped, with session_paranoid 0: the connection of a session that   *)
(* can be retrieved is never unbound, by whatever thread, but by a delete() *)
(* that is about to remove this very session.                               *)
THEOREM BoundWhileLive ==
  ASSUME ~Paranoid
  PROVE  Spec => []UnboundOnlyIfRemoved
<1>1. Init => OwnDataOK /\ UnboundOK
  <2>1. NoLocals.op = "none" /\ NoLocals.after = "Idle"
    BY DEF NoLocals
  <2>2. QED BY <2>1 DEF Init, OwnDataOK, UnboundOK
<1>2. UInv /\ [Next]_vars => OwnDataOK' /\ UnboundOK'
  BY UnboundStep
<1>3. Spec => []UInv
  BY <1>1, <1>2, KnowledgeInvariance, PTL DEF Spec, UInv
<1>4. UInv => UnboundOnlyIfRemoved
  <2> SUFFICES ASSUME UInv, NEW s \in Live, sessiondict[s].data \in unbound
               PROVE  \E t \in Threads : pc[t] \in {"DelEntry", "DelVars"} /\ loc[t].del = s
    BY DEF UnboundOnlyIfRemoved
  <2>1. unbound \subseteq SessionIds
    BY DEF UInv, RInv, SInv, TInv, StoreTypeOK
  <2>2. sessiondict[s].data = s
    BY <2>1, IdAssumption DEF Live, UInv, OwnDataOK
  <2>3. QED BY <2>2 DEF Live, UInv, UnboundOK
<1>5. QED BY <1>3, <1>4, PTL

=============================================================================
