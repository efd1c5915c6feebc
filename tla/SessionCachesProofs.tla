------------------------- MODULE SessionCachesProofs -------------------------
(***************************************************************************)
(* Theorems about SessionCaches for any number of threads, names, controls   *)
(* and requests: what the requests of a session may believe of what they       *)
(* share without a lock.                                                     *)
(***************************************************************************)
EXTENDS SessionCaches, TLAPS

-----------------------------------------------------------------------------
(* Types. *)

Labels == {"begin", "end", "KeyError", "test dn", "index dn", "search dn", "keep dn", "search root",
  "keep root", "store dn", "test schema", "index schema", "read schema", "keep schema", "store schema",
  "test audit", "index audit", "store audit", "flush dn", "flush schema", "flush audit", "flush results",
  "get", "set", "list", "send"}

Vals == {"absent", None, "subschema", "log"} \union Methods
Cells == [val : Vals, late : BOOLEAN]
Versions == 0..MaxVersion

Findings == {"subschema", None}
Results == {Absent} \union [val : Findings, late : BOOLEAN]
Answers == {NoAnswer} \union [val : Findings, version : Versions, late : BOOLEAN]

Dirs == [version : Versions, dns : [Dns -> Cells], audit : [Dns -> Cells],
         schema : [val : Versions, late : BOOLEAN], cached : BOOLEAN,
         results : [Dns \union {Root} -> Results], answer : Answers, ctrls : [Methods -> SUBSET Oids]]
Works == [val : Vals, late : BOOLEAN, version : Versions, todo : SUBSET Methods, lists : Seq(Methods),
          copy : SUBSET Oids]
Pasts == [flushed : Versions, denied : BOOLEAN, since : SUBSET Threads, wanted : SUBSET Oids,
          clean : BOOLEAN, menu : SUBSET Ops]

Typed ==
  /\ pc \in [Threads -> Labels] /\ form \in [Threads -> Ops] /\ DOMAIN report = Threads
  /\ dir \in Dirs /\ work \in [Threads -> Works] /\ past \in Pasts

(* Where a request can be, and its locals there. *)
PhaseOK(t) ==
  /\ pc[t] \in {"get", "set"} => Toggles(t) /\ work[t].todo \subseteq MethodsOf[form[t].arg]
  /\ pc[t] = "set" => work[t].val \in work[t].todo
  /\ (Busy(t) /\ Toggles(t)) => pc[t] \in {"get", "set"}
  /\ pc[t] \in {"list", "send"} => form[t].op = "send"
  /\ pc[t] = "list" => work[t].lists # <<>>
  /\ pc[t] \in {"test dn", "index dn", "search dn", "keep dn", "search root", "keep root", "store dn"}
       => form[t].op = "schema"
  /\ pc[t] \in {"test audit", "index audit", "store audit"} => form[t].op = "audit"
  /\ pc[t] \in {"keep dn", "keep root", "store dn", "keep schema", "store schema"} => work[t].val \in Findings

TInv == Typed /\ \A t \in Threads : PhaseOK(t)

(* What a request is for decides what its argument is. *)
LEMMA OpsArg ==
  ASSUME NEW f \in Ops
  PROVE  /\ f.op \in {"schema", "audit"} => f.arg \in Dns
         /\ f.op \in {"enable", "disable"} => f.arg \in Oids
         /\ f.op = "send" => f.arg \in Kinds
         /\ f.op \in {"schema", "audit", "enable", "disable", "send", "flush"}
BY DEF Ops

(* The lists of a request are lists of requests, and there are some. *)
LEMMA ListsType ==
  ASSUME NEW kind \in Kinds
  PROVE  Lists(kind) \in Seq(Methods) /\ Lists(kind) # <<>>
<1>1. "**all**" \in Methods /\ "**bind**" \in Methods /\ "**write**" \in Methods /\ "**read**" \in Methods
      /\ kind \in Methods
  BY DEF Methods
<1> DEFINE mid == CASE kind \in BindKinds -> <<"**bind**">> [] kind \in WriteKinds -> <<"**write**">>
                    [] kind \in ReadKinds -> <<"**read**">> [] OTHER -> <<>>
<1>2. mid \in Seq(Methods)
  BY <1>1
<1>3. Lists(kind) = <<"**all**">> \o mid \o <<kind>>
  BY DEF Lists
<1> HIDE DEF mid
<1>4. <<"**all**">> \in Seq(Methods) /\ <<kind>> \in Seq(Methods)
  BY <1>1
<1>5. <<"**all**">> \o mid \in Seq(Methods) /\ Len(<<"**all**">> \o mid) = 1 + Len(mid) /\ Len(mid) \in Nat
  BY <1>2, <1>4
<1> DEFINE front == <<"**all**">> \o mid
<1> HIDE DEF front
<1>6. front \o <<kind>> \in Seq(Methods) /\ Len(front \o <<kind>>) = Len(front) + 1
  BY <1>4, <1>5 DEF front
<1>7. front \o <<kind>> # <<>>
  BY <1>5, <1>6 DEF front
<1>8. QED BY <1>3, <1>6, <1>7 DEF front

(* The methods of a control are lists of requests. *)
LEMMA MethodsType ==
  ASSUME CachesAssumption, NEW c \in Oids
  PROVE  MethodsOf[c] \subseteq Methods
BY DEF CachesAssumption, MethodSets, Methods, Kinds, BindKinds, WriteKinds, ReadKinds

(* What the types say of one thread. *)
LEMMA ThreadTypes ==
  ASSUME TInv, NEW t \in Threads
  PROVE  /\ dir \in Dirs /\ past \in Pasts /\ form[t] \in Ops /\ work[t] \in Works /\ pc[t] \in Labels
         /\ PhaseOK(t)
BY DEF TInv, Typed

(* Everything is absent at first. *)
LEMMA TypeInit ==
  ASSUME CachesAssumption, Init
  PROVE  TInv
<1>1. 0 \in Versions
  BY DEF CachesAssumption, Versions
<1>2. Absent \in Cells /\ NoLocals \in Works
  <2>1. <<>> \in Seq(Methods)
    OBVIOUS
  <2>2. QED BY <1>1, <2>1 DEF Absent, Cells, Vals, NoLocals, Works
<1>3. dir \in Dirs
  <2>1. [d \in Dns |-> Absent] \in [Dns -> Cells] /\ [m \in Methods |-> {}] \in [Methods -> SUBSET Oids]
    BY <1>2
  <2>2. NoSchema \in [val : Versions, late : BOOLEAN]
    BY <1>1 DEF NoSchema
  <2>3. [d \in Dns \union {Root} |-> Absent] \in [Dns \union {Root} -> Results] /\ NoAnswer \in Answers
    BY DEF Results, Answers
  <2>4. QED BY <1>1, <2>1, <2>2, <2>3 DEF Init, Dirs
<1>4. PICK menu \in Menus : form \in [Threads -> menu] /\ past = [NoPast EXCEPT !.menu = menu]
  BY DEF Init
<1>5. menu \subseteq Ops
  BY DEF CachesAssumption
<1>6. past \in Pasts
  BY <1>1, <1>4, <1>5 DEF NoPast, Pasts
<1>7. form \in [Threads -> Ops]
  BY <1>4, <1>5
<1>8. Typed
  BY <1>2, <1>3, <1>6, <1>7 DEF Init, Typed, Labels
<1>9. \A t \in Threads : PhaseOK(t)
  BY DEF Init, PhaseOK, Busy
<1>10. QED BY <1>8, <1>9 DEF TInv

-----------------------------------------------------------------------------
(* Types, action by action.                                                 *)

(* Threads other than t, but for what they are told of flushes and toggles. *)
Same(u) ==
  /\ pc'[u] = pc[u] /\ form'[u] = form[u]
  /\ work'[u].val = work[u].val /\ work'[u].version = work[u].version /\ work'[u].todo = work[u].todo
  /\ work'[u].lists = work[u].lists /\ work'[u].copy = work[u].copy

(* They are where they were. *)
LEMMA SamePhase ==
  ASSUME NEW u \in Threads, PhaseOK(u), Same(u)
  PROVE  PhaseOK(u)'
BY DEF PhaseOK, Same, Busy, Toggles

(* The beginning of a request. *)
LEMMA BeginType ==
  ASSUME CachesAssumption, TInv, NEW t \in Threads, Begin(t)
  PROVE  Typed' /\ PhaseOK(t)' /\ \A u \in Threads \ {t} : Same(u)
<1> DEFINE alone == \A u \in Threads : ~(Busy(u) /\ Toggles(u))
           mine == [NoLocals EXCEPT
                      !.todo = IF Toggles(t) THEN MethodsOf[form[t].arg] ELSE {},
                      !.lists = IF form[t].op = "send" THEN Lists(form[t].arg) ELSE <<>>,
                      !.late = form[t].op = "send" /\ ~alone]
           marked(u) == work[u].late \/ (Toggles(t) /\ pc[u] \in {"list", "send"})
           clean == past.clean /\ (Toggles(t) => alone)
           label == CASE form[t].op = "schema" -> "test dn" [] form[t].op = "audit" -> "test audit"
               [] form[t].op = "flush" -> "flush dn" [] form[t].op = "send" -> "list" [] OTHER -> "get"
<1>1. dir \in Dirs /\ past \in Pasts /\ form[t] \in Ops /\ pc[t] = "begin"
  BY ThreadTypes DEF Begin
<1>2. /\ work' = [u \in Threads |-> IF u = t THEN mine ELSE [work[u] EXCEPT !.late = marked(u)]]
      /\ past' = [past EXCEPT !.since = past.since \ {t}, !.clean = clean]
      /\ pc' = [pc EXCEPT ![t] = label] /\ UNCHANGED <<form, dir, report>>
  BY Zenon DEF Begin, Goto
<1>3. mine \in Works
  <2>1. Toggles(t) => form[t].arg \in Oids /\ MethodsOf[form[t].arg] \subseteq Methods
    BY <1>1, OpsArg, MethodsType DEF Toggles
  <2>2. form[t].op = "send" => Lists(form[t].arg) \in Seq(Methods)
    BY <1>1, OpsArg, ListsType
  <2>3. <<>> \in Seq(Methods) /\ 0 \in Versions
    BY DEF CachesAssumption, Versions
  <2> DEFINE a == IF Toggles(t) THEN MethodsOf[form[t].arg] ELSE {}
             b == IF form[t].op = "send" THEN Lists(form[t].arg) ELSE <<>>
             c == form[t].op = "send" /\ ~alone
  <2>4. a \in SUBSET Methods /\ b \in Seq(Methods) /\ c \in BOOLEAN
    BY <2>1, <2>2, <2>3
  <2>5. mine = [NoLocals EXCEPT !.todo = a, !.lists = b, !.late = c]
    OBVIOUS
  <2> HIDE DEF a, b, c, mine
  <2>6. QED BY <2>3, <2>4, <2>5 DEF NoLocals, Works, Vals
<1>4. mine.todo = (IF Toggles(t) THEN MethodsOf[form[t].arg] ELSE {})
      /\ mine.lists = (IF form[t].op = "send" THEN Lists(form[t].arg) ELSE <<>>) /\ mine.val = None
  BY DEF NoLocals
<1>5. \A u \in Threads : marked(u) \in BOOLEAN
  BY DEF TInv, Typed, Works
<1>6. work \in [Threads -> Works]
  BY DEF TInv, Typed
<1>7. past' \in Pasts
  <2>1. clean \in BOOLEAN
    BY <1>1 DEF Pasts
  <2> HIDE DEF clean
  <2>2. QED BY <1>1, <1>2, <2>1 DEF Pasts
<1>8. label \in {"test dn", "test audit", "flush dn", "list", "get"}
      /\ (label = "get" => Toggles(t)) /\ (label = "list" => form[t].op = "send")
      /\ (label = "test dn" => form[t].op = "schema") /\ (label = "test audit" => form[t].op = "audit")
      /\ (Toggles(t) => label = "get")
  BY <1>1, OpsArg DEF Labels, Toggles
<1> HIDE DEF mine, marked, clean, label
<1>9. work' \in [Threads -> Works]
      /\ work'[t] = mine
      /\ \A u \in Threads \ {t} :
           /\ work'[u].val = work[u].val /\ work'[u].version = work[u].version /\ work'[u].todo = work[u].todo
           /\ work'[u].lists = work[u].lists /\ work'[u].copy = work[u].copy
  BY <1>2, <1>3, <1>5, <1>6 DEF Works
<1>10. pc' \in [Threads -> Labels] /\ pc'[t] = label /\ \A u \in Threads \ {t} : pc'[u] = pc[u]
  BY <1>2, <1>8 DEF TInv, Typed, Labels
<1>11. form[t].op = "send" => Lists(form[t].arg) # <<>>
  BY <1>1, OpsArg, ListsType
<1>12. Typed'
  BY <1>1, <1>2, <1>7, <1>9, <1>10 DEF Typed, TInv
<1>13. PhaseOK(t)'
  BY <1>2, <1>4, <1>8, <1>9, <1>10, <1>11 DEF PhaseOK, Busy, Toggles
<1>14. QED BY <1>2, <1>9, <1>10, <1>12, <1>13 DEF Same

(* The next request of a thread. *)
LEMMA AgainType ==
  ASSUME CachesAssumption, TInv, NEW t \in Threads, Again(t)
  PROVE  Typed' /\ PhaseOK(t)' /\ \A u \in Threads \ {t} : Same(u)
<1>1. dir \in Dirs /\ past \in Pasts /\ UNCHANGED <<dir, past>>
  BY ThreadTypes DEF Again
<1>2. past.menu \subseteq Ops
  BY <1>1 DEF Pasts
<1>3. NoLocals \in Works
  <2>1. <<>> \in Seq(Methods) /\ 0 \in Versions
    BY DEF CachesAssumption, Versions
  <2>2. QED BY <2>1 DEF NoLocals, Works, Vals
<1>4. /\ pc' = [pc EXCEPT ![t] = "begin"] /\ work' = [work EXCEPT ![t] = NoLocals]
      /\ DOMAIN report' = DOMAIN report /\ \E op \in past.menu : form' = [form EXCEPT ![t] = op]
  BY DEF Again, Goto
<1>5. Typed' /\ pc'[t] = "begin" /\ \A u \in Threads \ {t} : Same(u)
  BY <1>1, <1>2, <1>3, <1>4 DEF TInv, Typed, Labels, Same
<1>6. QED BY <1>5 DEF PhaseOK, Busy

(* The steps of one request that leave the other threads alone. *)
LEMMA OwnStep ==
  ASSUME TInv, NEW t \in Threads, NEW l \in Labels, NEW w \in Works,
         pc' = [pc EXCEPT ![t] = l], work' = [work EXCEPT ![t] = w],
         form' = form, DOMAIN report' = DOMAIN report, dir' \in Dirs, past' \in Pasts
  PROVE  /\ Typed' /\ pc'[t] = l /\ work'[t] = w
         /\ \A u \in Threads \ {t} : Same(u) /\ work'[u].late = work[u].late
BY DEF TInv, Typed, Same

(* What a search finds: it is kept from an earlier one or asked for, and "not *)
(* found" has a reason.                                                       *)
Finds(t, val, late, l, denied) ==
  /\ pc' = [pc EXCEPT ![t] = l]
  /\ work' = [work EXCEPT ![t] = [work[t] EXCEPT !.val = val, !.late = late]]
  /\ past' = [past EXCEPT !.denied = denied] /\ (past.denied => denied)
  /\ UNCHANGED <<form, dir, report>>
  /\ \/ val # None \/ denied
     \/ \E k \in Dns \union {Root} :
          dir.results[k].val = None /\ dir.results[k] # Absent /\ (dir.results[k].late \/ Flushing => late)

LEMMA SearchIs ==
  ASSUME TInv, NEW t \in Threads, SearchDn(t)
  PROVE  \E val \in Findings, late \in BOOLEAN, l \in {"keep dn", "keep root", "search root", "store dn"},
            denied \in BOOLEAN : Finds(t, val, late, l, denied)
<1> DEFINE k == Key(t)
           kept == dir.results[k]
<1>1. dir \in Dirs /\ past \in Pasts /\ form[t] \in Ops /\ work[t] \in Works /\ PhaseOK(t)
  BY ThreadTypes
<1>2. k \in Dns \union {Root}
  BY <1>1, OpsArg DEF Key, PhaseOK, SearchDn
<1>3. kept \in Results
  BY <1>1, <1>2 DEF Dirs
<1>4. past = [past EXCEPT !.denied = past.denied] /\ past.denied \in BOOLEAN
  BY <1>1 DEF Pasts
<1>5. UNCHANGED <<form, dir, report>>
  BY DEF SearchDn
<1>6. \A val : Found(t, val) => \E l \in {"search root", "store dn"} : pc' = [pc EXCEPT ![t] = l]
  BY DEF Found, Goto
<1>7. \/ /\ kept # Absent /\ Found(t, kept.val) /\ UNCHANGED past
         /\ work' = [work EXCEPT ![t].val = kept.val, ![t].late = kept.late \/ Flushing]
      \/ \E val \in Findings :
           /\ Goto(t, IF k = Root THEN "keep root" ELSE "keep dn") \/ Found(t, val)
           /\ work' = [work EXCEPT ![t].val = val, ![t].late = FALSE]
           /\ past' = [past EXCEPT !.denied = past.denied \/ val = None]
  BY DEF SearchDn, Deny, Findings
<1>8. CASE kept # Absent /\ Found(t, kept.val) /\ UNCHANGED past
           /\ work' = [work EXCEPT ![t].val = kept.val, ![t].late = kept.late \/ Flushing]
  <2> DEFINE late == kept.late \/ Flushing
  <2>1. kept.val \in Findings /\ late \in BOOLEAN
    BY <1>3, <1>8 DEF Results, Flushing
  <2>2. work' = [work EXCEPT ![t] = [work[t] EXCEPT !.val = kept.val, !.late = late]]
    BY <1>8
  <2>3. kept.late \/ Flushing => late
    OBVIOUS
  <2>4. PICK l \in {"search root", "store dn"} : pc' = [pc EXCEPT ![t] = l]
    BY <1>6, <1>8
  <2>5. past' = [past EXCEPT !.denied = past.denied]
    BY <1>4, <1>8
  <2> HIDE DEF late
  <2>6. Finds(t, kept.val, late, l, past.denied)
    BY <1>2, <1>5, <1>8, <2>2, <2>3, <2>4, <2>5 DEF Finds
  <2>7. QED BY <1>4, <2>1, <2>4, <2>6
<1>9. CASE \E val \in Findings :
           /\ Goto(t, IF k = Root THEN "keep root" ELSE "keep dn") \/ Found(t, val)
           /\ work' = [work EXCEPT ![t].val = val, ![t].late = FALSE]
           /\ past' = [past EXCEPT !.denied = past.denied \/ val = None]
  <2>1. PICK val \in Findings :
           /\ Goto(t, IF k = Root THEN "keep root" ELSE "keep dn") \/ Found(t, val)
           /\ work' = [work EXCEPT ![t].val = val, ![t].late = FALSE]
           /\ past' = [past EXCEPT !.denied = past.denied \/ val = None]
    BY <1>9
  <2> DEFINE denied == past.denied \/ val = None
  <2>2. denied \in BOOLEAN /\ (past.denied => denied) /\ (val # None \/ denied)
    BY <1>4
  <2>3. PICK l \in {"keep dn", "keep root", "search root", "store dn"} : pc' = [pc EXCEPT ![t] = l]
    BY <1>6, <2>1 DEF Goto
  <2>4. work' = [work EXCEPT ![t] = [work[t] EXCEPT !.val = val, !.late = FALSE]]
    BY <2>1
  <2>5. past' = [past EXCEPT !.denied = denied]
    BY <2>1
  <2> HIDE DEF denied
  <2>6. Finds(t, val, FALSE, l, denied)
    BY <1>5, <2>2, <2>3, <2>4, <2>5 DEF Finds
  <2>7. QED BY <2>2, <2>3, <2>6
<1>10. QED BY <1>7, <1>8, <1>9

(* The schema: its DN is looked up, or searched for. *)
LEMMA DnType ==
  ASSUME CachesAssumption, TInv, NEW t \in Threads,
         TestDn(t) \/ IndexDn(t) \/ SearchDn(t) \/ KeepDn(t) \/ StoreDn(t)
  PROVE  Typed' /\ PhaseOK(t)' /\ \A u \in Threads \ {t} : Same(u) /\ work'[u].late = work[u].late
<1>1. /\ dir \in Dirs /\ past \in Pasts /\ form[t] \in Ops /\ work[t] \in Works /\ PhaseOK(t)
      /\ work \in [Threads -> Works]
  BY ThreadTypes DEF TInv, Typed
<1>2. form[t].arg \in Dns /\ form[t].op = "schema"
  BY <1>1, OpsArg DEF PhaseOK, TestDn, IndexDn, SearchDn, KeepDn, StoreDn
<1>3. CASE TestDn(t)
  <2>1. \E l \in {"index dn", "search dn"} : pc' = [pc EXCEPT ![t] = l]
    BY <1>3 DEF TestDn, Goto
  <2>2. work' = [work EXCEPT ![t] = work[t]] /\ UNCHANGED <<form, report, dir, past>>
    BY <1>1, <1>3 DEF TestDn
  <2>3. /\ Typed' /\ pc'[t] \in {"index dn", "search dn"}
        /\ \A u \in Threads \ {t} : Same(u) /\ work'[u].late = work[u].late
    BY <1>1, <2>1, <2>2, OwnStep DEF Labels
  <2>4. QED BY <1>2, <2>2, <2>3 DEF PhaseOK, Busy, Toggles
<1>4. CASE IndexDn(t)
  <2> DEFINE c == dir.dns[form[t].arg]
             w == [work[t] EXCEPT !.val = c.val, !.late = c.late]
  <2>1. c \in Cells
    BY <1>1, <1>2 DEF Dirs
  <2>2. w \in Works /\ w.val = c.val
    BY <1>1, <2>1 DEF Works, Cells
  <2>3. UNCHANGED <<form, report, dir, past>>
    BY <1>4 DEF IndexDn
  <2>4. \/ c = Absent /\ pc' = [pc EXCEPT ![t] = "KeyError"] /\ work' = [work EXCEPT ![t] = work[t]]
        \/ c # Absent /\ pc' = [pc EXCEPT ![t] = "test schema"] /\ work' = [work EXCEPT ![t] = w]
    BY <1>1, <1>4 DEF IndexDn, Goto
  <2> HIDE DEF w
  <2>5. /\ Typed' /\ (pc'[t] = "KeyError" \/ (pc'[t] = "test schema" /\ work'[t] = w /\ c # Absent))
        /\ \A u \in Threads \ {t} : Same(u) /\ work'[u].late = work[u].late
    BY <1>1, <2>2, <2>3, <2>4, OwnStep DEF Labels
  <2>6. QED BY <1>2, <2>2, <2>3, <2>5 DEF PhaseOK, Busy, Toggles
<1>5. CASE SearchDn(t)
  <2>0. PICK val \in Findings, late \in BOOLEAN, l \in {"keep dn", "keep root", "search root", "store dn"},
             denied \in BOOLEAN : Finds(t, val, late, l, denied)
    BY <1>5, SearchIs
  <2>1. /\ pc' = [pc EXCEPT ![t] = l]
        /\ work' = [work EXCEPT ![t] = [work[t] EXCEPT !.val = val, !.late = late]]
        /\ past' = [past EXCEPT !.denied = denied]
        /\ UNCHANGED <<form, dir, report>>
    BY <2>0 DEF Finds
  <2> DEFINE w == [work[t] EXCEPT !.val = val, !.late = late]
  <2>2. w \in Works /\ w.val = val
    BY <1>1 DEF Works, Vals, Findings
  <2>3. past' \in Pasts
    BY <1>1, <2>1 DEF Pasts
  <2>4. work' = [work EXCEPT ![t] = w]
    BY <2>1
  <2> HIDE DEF w
  <2>5. l \in Labels /\ DOMAIN report' = DOMAIN report /\ dir' \in Dirs
    BY <1>1, <2>1 DEF Labels
  <2>6. /\ Typed' /\ pc'[t] = l /\ work'[t] = w
        /\ \A u \in Threads \ {t} : Same(u) /\ work'[u].late = work[u].late
    BY <2>1, <2>2, <2>3, <2>4, <2>5, OwnStep
  <2>7. QED BY <1>2, <2>1, <2>2, <2>6 DEF PhaseOK, Busy, Toggles
<1>8. CASE KeepDn(t)
  <2> DEFINE c == [val |-> work[t].val, late |-> work[t].late]
             d == [dir.results EXCEPT ![Key(t)] = c]
  <2>1. c \in Results
    BY <1>1, <1>8 DEF Works, Results, KeepDn, PhaseOK
  <2>2. d \in [Dns \union {Root} -> Results]
    BY <1>1, <2>1 DEF Dirs
  <2>3. dir' = [dir EXCEPT !.results = d]
    BY <1>8 DEF KeepDn
  <2> HIDE DEF d
  <2>4. dir' \in Dirs
    BY <1>1, <2>2, <2>3 DEF Dirs
  <2>5. UNCHANGED <<form, report, past>> /\ work' = [work EXCEPT ![t] = work[t]] /\ work[t].val \in Findings
    BY <1>1, <1>8 DEF KeepDn, PhaseOK
  <2>6. PICK l \in {"search root", "store dn"} : pc' = [pc EXCEPT ![t] = l]
    BY <1>8 DEF KeepDn, Found, Goto
  <2>7. /\ Typed' /\ pc'[t] = l /\ work'[t] = work[t]
        /\ \A u \in Threads \ {t} : Same(u) /\ work'[u].late = work[u].late
    BY <1>1, <2>4, <2>5, <2>6, OwnStep DEF Labels
  <2>8. QED BY <1>1, <1>2, <2>5, <2>7 DEF PhaseOK, Busy, Toggles
<1>6. CASE StoreDn(t)
  <2> DEFINE c == [val |-> work[t].val, late |-> work[t].late]
             d == [dir.dns EXCEPT ![form[t].arg] = c]
  <2>1. c \in Cells
    BY <1>1 DEF Works, Cells
  <2>2. d \in [Dns -> Cells]
    BY <1>1, <1>2, <2>1 DEF Dirs
  <2>3. dir' = [dir EXCEPT !.dns = d]
    BY <1>6 DEF StoreDn
  <2> HIDE DEF d
  <2>4. dir' \in Dirs
    BY <1>1, <2>2, <2>3 DEF Dirs
  <2>5. /\ UNCHANGED <<form, report, past>> /\ pc' = [pc EXCEPT ![t] = "test schema"]
        /\ work' = [work EXCEPT ![t] = work[t]] /\ pc[t] = "store dn"
    BY <1>1, <1>6 DEF StoreDn, Goto
  <2>6. /\ Typed' /\ pc'[t] = "test schema" /\ work'[t] = work[t]
        /\ \A u \in Threads \ {t} : Same(u) /\ work'[u].late = work[u].late
    BY <1>1, <2>4, <2>5, OwnStep DEF Labels
  <2>7. QED BY <1>1, <1>2, <2>5, <2>6 DEF PhaseOK, Busy, Toggles
<1>7. QED BY <1>3, <1>4, <1>5, <1>6, <1>8

(* What is read of the schema: it is kept from an earlier reading or asked    *)
(* for, and is not older than that, and its absence has a reason.              *)
Reads(t, val, version, late, l, denied) ==
  /\ pc' = [pc EXCEPT ![t] = l]
  /\ work' = [work EXCEPT ![t] = [work[t] EXCEPT !.val = val, !.version = version, !.late = late]]
  /\ \/ /\ dir.answer # NoAnswer /\ val = dir.answer.val /\ version = dir.answer.version
        /\ dir.answer.late \/ Flushing => late
     \/ val # None /\ version = dir.version
     \/ val = None /\ denied

LEMMA ReadIs ==
  ASSUME CachesAssumption, TInv, NEW t \in Threads, ReadSchema(t)
  PROVE  /\ UNCHANGED <<form, dir>> /\ DOMAIN report' = DOMAIN report
         /\ \E denied \in BOOLEAN :
              /\ past' = [past EXCEPT !.denied = denied] /\ (past.denied => denied)
              /\ \/ pc' = [pc EXCEPT ![t] = "end"] /\ work' = [work EXCEPT ![t] = NoLocals]
                 \/ \E val \in Findings, version \in Versions, late \in BOOLEAN, l \in {"keep schema", "store schema"} :
                      Reads(t, val, version, late, l, denied)
<1> DEFINE kept == dir.answer
<1>1. dir \in Dirs /\ past \in Pasts /\ work[t] \in Works
  BY ThreadTypes
<1>2. kept \in Answers /\ dir.version \in Versions /\ 0 \in Versions
  BY <1>1 DEF Dirs, Versions, CachesAssumption
<1>3. past = [past EXCEPT !.denied = past.denied] /\ past.denied \in BOOLEAN
  BY <1>1 DEF Pasts
<1>4. UNCHANGED <<form, dir>> /\ DOMAIN report' = DOMAIN report
  BY DEF ReadSchema, Finish, Return
<1>5. CASE /\ kept # NoAnswer /\ Goto(t, "store schema") /\ UNCHANGED past
           /\ work' = [work EXCEPT ![t].val = kept.val, ![t].version = kept.version, ![t].late = kept.late \/ Flushing]
  <2> DEFINE late == kept.late \/ Flushing
  <2>1. kept.val \in Findings /\ kept.version \in Versions /\ late \in BOOLEAN
    BY <1>2, <1>5 DEF Answers, Flushing
  <2>2. work' = [work EXCEPT ![t] = [work[t] EXCEPT !.val = kept.val, !.version = kept.version, !.late = late]]
    BY <1>5
  <2>3. kept.late \/ Flushing => late
    OBVIOUS
  <2>4. pc' = [pc EXCEPT ![t] = "store schema"] /\ past' = [past EXCEPT !.denied = past.denied]
    BY <1>3, <1>5 DEF Goto
  <2> HIDE DEF late
  <2>5. Reads(t, kept.val, kept.version, late, "store schema", past.denied)
    BY <1>5, <2>2, <2>3, <2>4 DEF Reads
  <2>6. QED BY <1>3, <1>4, <2>1, <2>4, <2>5
<1>6. CASE \E val \in Findings :
             /\ Goto(t, "keep schema")
             /\ work' = [work EXCEPT ![t].val = val, ![t].version = IF val = None THEN 0 ELSE dir.version, ![t].late = FALSE]
             /\ past' = [past EXCEPT !.denied = past.denied \/ val = None]
  <2>1. PICK val \in Findings :
             /\ Goto(t, "keep schema")
             /\ work' = [work EXCEPT ![t].val = val, ![t].version = IF val = None THEN 0 ELSE dir.version, ![t].late = FALSE]
             /\ past' = [past EXCEPT !.denied = past.denied \/ val = None]
    BY <1>6
  <2> DEFINE denied == past.denied \/ val = None
             version == IF val = None THEN 0 ELSE dir.version
  <2>2. denied \in BOOLEAN /\ (past.denied => denied) /\ (val = None => denied)
    BY <1>3
  <2>3. version \in Versions /\ (val # None => version = dir.version)
    BY <1>2
  <2>4. work' = [work EXCEPT ![t] = [work[t] EXCEPT !.val = val, !.version = version, !.late = FALSE]]
    BY <2>1
  <2>5. past' = [past EXCEPT !.denied = denied] /\ pc' = [pc EXCEPT ![t] = "keep schema"]
    BY <2>1 DEF Goto
  <2> HIDE DEF denied, version
  <2>6. Reads(t, val, version, FALSE, "keep schema", denied)
    BY <2>2, <2>3, <2>4, <2>5 DEF Reads
  <2>7. QED BY <1>4, <2>2, <2>3, <2>5, <2>6
<1>7. CASE Finish(t, "default") /\ past' = [past EXCEPT !.denied = TRUE]
  BY <1>4, <1>7 DEF Finish, Return, Goto
<1>8. QED
  <2>1. past.denied \/ TRUE
    OBVIOUS
  <2>2. past' = [past EXCEPT !.denied = past.denied \/ TRUE] => past' = [past EXCEPT !.denied = TRUE]
    BY Zenon
  <2>3. QED BY <1>5, <1>6, <1>7, <2>2 DEF ReadSchema, Deny, Findings

(* The schema itself, and the audit log. *)
LEMMA SchemaType ==
  ASSUME CachesAssumption, TInv, NEW t \in Threads,
         \/ TestSchema(t) \/ IndexSchema(t) \/ ReadSchema(t) \/ KeepSchema(t) \/ StoreSchema(t)
         \/ TestAudit(t) \/ IndexAudit(t) \/ StoreAudit(t)
  PROVE  Typed' /\ PhaseOK(t)' /\ \A u \in Threads \ {t} : Same(u) /\ work'[u].late = work[u].late
<1>1. /\ dir \in Dirs /\ past \in Pasts /\ form[t] \in Ops /\ work[t] \in Works /\ PhaseOK(t)
      /\ work \in [Threads -> Works] /\ pc[t] \in Labels /\ work = [work EXCEPT ![t] = work[t]]
  BY ThreadTypes DEF TInv, Typed
<1> DEFINE Quiet == {"end", "KeyError", "index schema", "read schema", "keep schema", "store schema"}
<1>0. NoLocals \in Works
  <2>1. <<>> \in Seq(Methods) /\ 0 \in Versions
    BY DEF CachesAssumption, Versions
  <2>2. QED BY <2>1 DEF NoLocals, Works, Vals
<1>2. ASSUME form' = form, DOMAIN report' = DOMAIN report, dir' \in Dirs, past' \in Pasts,
             NEW w \in Works, work' = [work EXCEPT ![t] = w], NEW l \in Quiet, pc' = [pc EXCEPT ![t] = l],
             l \in {"keep schema", "store schema"} => w.val \in Findings
      PROVE  Typed' /\ PhaseOK(t)' /\ \A u \in Threads \ {t} : Same(u) /\ work'[u].late = work[u].late
  <2>1. l \in Labels
    BY DEF Labels
  <2>2. Typed' /\ pc'[t] = l /\ work'[t] = w
        /\ \A u \in Threads \ {t} : Same(u) /\ work'[u].late = work[u].late
    BY <1>2, <2>1, OwnStep
  <2>3. Toggles(t) => pc[t] \in {"begin", "end", "KeyError", "get", "set"}
    BY <1>1 DEF PhaseOK, Busy
  <2>4. pc[t] \notin {"begin", "end", "KeyError", "get", "set"}
    BY DEF TestSchema, IndexSchema, ReadSchema, KeepSchema, StoreSchema, TestAudit, IndexAudit, StoreAudit
  <2>5. ~Toggles(t)'
    BY <1>2, <2>3, <2>4 DEF Toggles
  <2>6. QED BY <1>2, <2>2, <2>5 DEF PhaseOK
<1>3. CASE TestSchema(t)
  <2>1. UNCHANGED <<form, dir, past>> /\ DOMAIN report' = DOMAIN report
    BY <1>3 DEF TestSchema, Return
  <2>2. work' = [work EXCEPT ![t] = NoLocals] /\ NoLocals \in Works
    BY <1>0, <1>3 DEF TestSchema
  <2>3. \E l \in {"end", "index schema", "read schema"} : pc' = [pc EXCEPT ![t] = l]
    BY <1>3 DEF TestSchema, Return, Goto
  <2>4. QED BY <1>1, <1>2, <2>1, <2>2, <2>3
<1>4. CASE IndexSchema(t)
  <2>1. UNCHANGED <<form, dir, past>> /\ DOMAIN report' = DOMAIN report
    BY <1>4 DEF IndexSchema, Finish, Return
  <2>2. \/ pc' = [pc EXCEPT ![t] = "end"] /\ work' = [work EXCEPT ![t] = NoLocals]
        \/ pc' = [pc EXCEPT ![t] = "KeyError"] /\ work' = [work EXCEPT ![t] = work[t]]
    BY <1>1, <1>4 DEF IndexSchema, Finish, Return, Goto
  <2>3. QED BY <1>0, <1>1, <1>2, <2>1, <2>2
<1>5. CASE ReadSchema(t)
  <2>1. UNCHANGED <<form, dir>> /\ DOMAIN report' = DOMAIN report
    BY <1>5, ReadIs
  <2>2. PICK denied \in BOOLEAN :
          /\ past' = [past EXCEPT !.denied = denied]
          /\ \/ pc' = [pc EXCEPT ![t] = "end"] /\ work' = [work EXCEPT ![t] = NoLocals]
             \/ \E val \in Findings, version \in Versions, late \in BOOLEAN, l \in {"keep schema", "store schema"} :
                  Reads(t, val, version, late, l, denied)
    BY <1>5, ReadIs
  <2>3. past' \in Pasts
    BY <1>1, <2>2 DEF Pasts
  <2>4. CASE pc' = [pc EXCEPT ![t] = "end"] /\ work' = [work EXCEPT ![t] = NoLocals]
    BY <1>0, <1>1, <1>2, <2>1, <2>3, <2>4
  <2>5. CASE \E val \in Findings, version \in Versions, late \in BOOLEAN, l \in {"keep schema", "store schema"} :
               Reads(t, val, version, late, l, denied)
    <3>1. PICK val \in Findings, version \in Versions, late \in BOOLEAN, l \in {"keep schema", "store schema"} :
               Reads(t, val, version, late, l, denied)
      BY <2>5
    <3> DEFINE w == [work[t] EXCEPT !.val = val, !.version = version, !.late = late]
    <3>2. w \in Works /\ w.val \in Findings
      BY <1>1 DEF Works, Vals, Findings
    <3>3. work' = [work EXCEPT ![t] = w] /\ pc' = [pc EXCEPT ![t] = l]
      BY <3>1 DEF Reads
    <3> HIDE DEF w
    <3>4. QED BY <1>1, <1>2, <2>1, <2>3, <3>2, <3>3
  <2>6. QED BY <2>2, <2>4, <2>5
<1>11. CASE KeepSchema(t)
  <2> DEFINE c == [val |-> work[t].val, version |-> work[t].version, late |-> work[t].late]
  <2>1. pc' = [pc EXCEPT ![t] = "store schema"] /\ "store schema" \in Quiet
    BY <1>11 DEF KeepSchema, Goto
  <2>2. UNCHANGED <<form, work, past, report>> /\ dir' = [dir EXCEPT !.answer = c] /\ work[t].val \in Findings
    BY <1>1, <1>11 DEF KeepSchema, PhaseOK
  <2>3. c \in Answers
    BY <1>1, <2>2 DEF Works, Answers
  <2> HIDE DEF c
  <2>4. dir' \in Dirs
    BY <1>1, <2>2, <2>3 DEF Dirs
  <2>5. QED BY <1>1, <1>2, <2>1, <2>2, <2>4
<1>6. CASE StoreSchema(t)
  <2> DEFINE c == [val |-> work[t].version, late |-> work[t].late]
  <2>1. pc' = [pc EXCEPT ![t] = "end"] /\ "end" \in Quiet /\ work' = [work EXCEPT ![t] = NoLocals]
    BY <1>6 DEF StoreSchema, Finish, Return, Goto
  <2>2. UNCHANGED <<form, past>> /\ DOMAIN report' = DOMAIN report
        /\ (dir' = [dir EXCEPT !.cached = TRUE, !.schema = c] \/ dir' = dir)
    BY <1>6 DEF StoreSchema, Finish, Return
  <2>3. c \in [val : Versions, late : BOOLEAN]
    BY <1>1 DEF Works
  <2> HIDE DEF c
  <2>4. dir' \in Dirs
    BY <1>1, <2>2, <2>3 DEF Dirs
  <2>5. QED BY <1>0, <1>1, <1>2, <2>1, <2>2, <2>4
<1>7. CASE TestAudit(t)
  <2>1. PICK l \in {"index audit", "store audit"} : pc' = [pc EXCEPT ![t] = l]
    BY <1>7 DEF TestAudit, Goto
  <2>2. UNCHANGED <<form, dir, work, past, report>> /\ pc[t] = "test audit"
    BY <1>7 DEF TestAudit
  <2>3. Typed' /\ pc'[t] = l /\ work'[t] = work[t]
        /\ \A u \in Threads \ {t} : Same(u) /\ work'[u].late = work[u].late
    BY <1>1, <2>1, <2>2, OwnStep DEF Labels
  <2>4. form[t].op = "audit"
    BY <1>1, <2>2 DEF PhaseOK
  <2>5. QED BY <2>2, <2>3, <2>4 DEF PhaseOK, Busy, Toggles
<1>8. CASE IndexAudit(t)
  <2>1. PICK l \in Quiet : pc' = [pc EXCEPT ![t] = l] /\ l \in {"end", "KeyError"}
    BY <1>8 DEF IndexAudit, Return, Goto
  <2>2. UNCHANGED <<form, dir, work, past>> /\ DOMAIN report' = DOMAIN report
    BY <1>8 DEF IndexAudit, Return
  <2>3. work' = [work EXCEPT ![t] = work[t]] /\ dir' \in Dirs /\ past' \in Pasts
    BY <1>1, <2>2
  <2>4. QED BY <1>1, <1>2, <2>1, <2>2, <2>3
<1>9. CASE StoreAudit(t)
  <2>1. pc' = [pc EXCEPT ![t] = "end"] /\ "end" \in Quiet
    BY <1>9 DEF StoreAudit, Return, Goto
  <2>2. PICK v \in {None, "log"} : dir' = [dir EXCEPT !.audit[form[t].arg] = [val |-> v, late |-> FALSE]]
    BY <1>9 DEF StoreAudit
  <2> DEFINE a == [dir.audit EXCEPT ![form[t].arg] = [val |-> v, late |-> FALSE]]
  <2>3. a \in [Dns -> Cells] /\ dir' = [dir EXCEPT !.audit = a]
    <3>1. [val |-> v, late |-> FALSE] \in Cells
      BY DEF Cells, Vals
    <3>2. QED BY <1>1, <2>2, <3>1 DEF Dirs
  <2> HIDE DEF a
  <2>4. dir' \in Dirs
    BY <1>1, <2>3 DEF Dirs
  <2>5. UNCHANGED <<form, work, past>> /\ DOMAIN report' = DOMAIN report
    BY <1>9 DEF StoreAudit, Return
  <2>6. QED BY <1>1, <1>2, <2>1, <2>4, <2>5
<1>10. QED BY <1>3, <1>4, <1>5, <1>6, <1>7, <1>8, <1>9, <1>11

(* What is told to threads that are about to store something old. *)
LEMMA LateIs ==
  ASSUME TInv, NEW t \in Threads, NEW ls, work' = Late(t, ls)
  PROVE  /\ work' \in [Threads -> Works]
         /\ work'[t] = work[t]
         /\ \A u \in Threads \ {t} :
              /\ work'[u].val = work[u].val /\ work'[u].version = work[u].version
              /\ work'[u].todo = work[u].todo /\ work'[u].lists = work[u].lists
              /\ work'[u].copy = work[u].copy
              /\ work'[u].late = IF pc[u] \in ls THEN TRUE ELSE work[u].late
BY DEF Late, TInv, Typed, Works

(* The history of the threads that have found a key. *)
LEMMA MeanwhileIs ==
  ASSUME TInv, NEW t \in Threads
  PROVE  /\ Meanwhile(t) \in Pasts
         /\ Meanwhile(t).since = past.since \union {u \in Threads \ {t} : AtKey(u)}
         /\ Meanwhile(t).flushed = past.flushed /\ Meanwhile(t).denied = past.denied
         /\ Meanwhile(t).wanted = past.wanted /\ Meanwhile(t).clean = past.clean
         /\ Meanwhile(t).menu = past.menu
BY ThreadTypes DEF Meanwhile, Pasts

(* A flush, one attribute after the other. *)
LEMMA FlushType ==
  ASSUME CachesAssumption, TInv, NEW t \in Threads, FlushDns(t) \/ FlushSchema(t) \/ FlushAudit(t) \/ FlushResults(t)
  PROVE  Typed' /\ PhaseOK(t)' /\ \A u \in Threads \ {t} : Same(u)
<1>1. dir \in Dirs /\ past \in Pasts /\ PhaseOK(t) /\ Absent \in Cells
  BY ThreadTypes DEF Absent, Cells, Vals
<1>2. UNCHANGED form /\ DOMAIN report' = DOMAIN report
  BY DEF FlushDns, FlushSchema, FlushAudit, FlushResults, Return
<1>3. dir' \in Dirs
  <2> DEFINE d == [n \in Dns |-> Absent]
             r == [n \in DOMAIN dir.results |-> Absent]
  <2>1. d \in [Dns -> Cells]
    BY <1>1
  <2>0. r \in [Dns \union {Root} -> Results] /\ NoAnswer \in Answers /\ NoSchema \in [val : Versions, late : BOOLEAN]
    BY <1>1 DEF Dirs, Results, Answers, NoSchema, Versions, CachesAssumption
  <2>2. \/ dir' = [dir EXCEPT !.dns = d] \/ dir' = [dir EXCEPT !.cached = FALSE, !.schema = NoSchema]
        \/ dir' = [dir EXCEPT !.audit = d] \/ dir' = [dir EXCEPT !.results = r, !.answer = NoAnswer]
    BY DEF FlushDns, FlushSchema, FlushAudit, FlushResults, EmptyDns, SchemaKept
  <2> HIDE DEF d, r
  <2>3. QED BY <1>1, <2>0, <2>1, <2>2 DEF Dirs
<1>4. past' \in Pasts
  <2> DEFINE m == Meanwhile(t)
  <2>1. m \in Pasts
    BY MeanwhileIs
  <2>2. past' \in {[m EXCEPT !.denied = FALSE], [m EXCEPT !.flushed = dir.version], m, past}
    BY DEF FlushDns, FlushSchema, FlushAudit, FlushResults
  <2> HIDE DEF m
  <2>3. QED BY <1>1, <2>1, <2>2 DEF Pasts, Dirs
<1>5. \E l \in {"flush schema", "flush audit", "flush results", "end"} : pc' = [pc EXCEPT ![t] = l]
  BY DEF FlushDns, FlushSchema, FlushAudit, FlushResults, Return, Goto
<1>6. pc' \in [Threads -> Labels] /\ pc'[t] \in {"flush schema", "flush audit", "flush results", "end"}
      /\ \A u \in Threads \ {t} : pc'[u] = pc[u]
  BY <1>5 DEF TInv, Typed, Labels
<1>7. work' \in [Threads -> Works]
      /\ \A u \in Threads \ {t} :
           /\ work'[u].val = work[u].val /\ work'[u].version = work[u].version /\ work'[u].todo = work[u].todo
           /\ work'[u].lists = work[u].lists /\ work'[u].copy = work[u].copy
  <2>1. CASE FlushAudit(t) \/ FlushResults(t)
    BY <2>1 DEF FlushAudit, FlushResults, TInv, Typed
  <2>2. CASE FlushDns(t)
    BY <2>2, LateIs DEF FlushDns
  <2>3. CASE FlushSchema(t)
    BY <2>3, LateIs DEF FlushSchema
  <2>4. QED BY <2>1, <2>2, <2>3
<1>8. ~Toggles(t)'
  <2>1. pc[t] \in {"flush dn", "flush schema", "flush audit", "flush results"}
    BY DEF FlushDns, FlushSchema, FlushAudit, FlushResults
  <2>2. QED BY <1>1, <1>2, <2>1 DEF PhaseOK, Busy, Toggles
<1>9. QED BY <1>2, <1>3, <1>4, <1>6, <1>7, <1>8 DEF Typed, TInv, Same, PhaseOK

(* Changing the controls of one method after the other. *)
LEMMA CtrlsType ==
  ASSUME CachesAssumption, TInv, NEW t \in Threads, GetCtrls(t) \/ SetCtrls(t) \/ ShowParams(t)
  PROVE  Typed' /\ PhaseOK(t)' /\ \A u \in Threads \ {t} : Same(u) /\ work'[u].late = work[u].late
<1>1. /\ dir \in Dirs /\ past \in Pasts /\ form[t] \in Ops /\ work[t] \in Works /\ PhaseOK(t)
      /\ work \in [Threads -> Works] /\ work = [work EXCEPT ![t] = work[t]]
  BY ThreadTypes DEF TInv, Typed
<1>2. Toggles(t) /\ form[t].arg \in Oids /\ work[t].todo \subseteq MethodsOf[form[t].arg]
      /\ work[t].todo \subseteq Methods
  BY <1>1, OpsArg DEF GetCtrls, SetCtrls, ShowParams, PhaseOK, Toggles, Works
<1>3. \A s \in SUBSET Oids : WithControl(t, s) \in SUBSET Oids
  BY <1>2 DEF WithControl
<1>4. CASE GetCtrls(t)
  <2>1. PICK m \in work[t].todo : work' = [work EXCEPT ![t].val = m, ![t].copy = dir.ctrls[m]]
    BY <1>4 DEF GetCtrls
  <2> DEFINE w == [work[t] EXCEPT !.val = m, !.copy = dir.ctrls[m]]
  <2>2. dir.ctrls[m] \in SUBSET Oids /\ m \in Vals
    BY <1>1, <1>2 DEF Dirs, Vals
  <2>3. w \in Works /\ w.val = m /\ w.todo = work[t].todo
    BY <1>1, <2>2 DEF Works
  <2>4. work' = [work EXCEPT ![t] = w]
    BY <2>1
  <2>5. pc' = [pc EXCEPT ![t] = "set"] /\ UNCHANGED <<form, dir, report, past>>
    BY <1>4 DEF GetCtrls, Goto
  <2> HIDE DEF w
  <2>6. /\ Typed' /\ pc'[t] = "set" /\ work'[t] = w
        /\ \A u \in Threads \ {t} : Same(u) /\ work'[u].late = work[u].late
    BY <1>1, <2>3, <2>4, <2>5, OwnStep DEF Labels
  <2>7. QED BY <1>2, <2>3, <2>5, <2>6 DEF PhaseOK, Busy, Toggles
<1>5. CASE SetCtrls(t)
  <2> DEFINE w == [work[t] EXCEPT !.val = None, !.copy = {}, !.todo = Todo(t)]
             m == work[t].val
             c == [dir.ctrls EXCEPT ![m] = WithControl(t, work[t].copy)]
  <2>1. Todo(t) \subseteq work[t].todo
    BY DEF Todo
  <2>2. w \in Works /\ w.todo \subseteq work[t].todo
    BY <1>1, <2>1 DEF Works, Vals
  <2>3. work[t].copy \in SUBSET Oids
    BY <1>1 DEF Works
  <2>4. c \in [Methods -> SUBSET Oids]
    BY <1>1, <1>3, <2>3 DEF Dirs
  <2>5. dir' = [dir EXCEPT !.ctrls = c] /\ work' = [work EXCEPT ![t] = w]
    BY <1>5 DEF SetCtrls
  <2> HIDE DEF w, c
  <2>6. dir' \in Dirs
    BY <1>1, <2>4, <2>5 DEF Dirs
  <2>7. pc' = [pc EXCEPT ![t] = "get"] /\ UNCHANGED <<form, report, past>>
    BY <1>5 DEF SetCtrls, Goto
  <2>8. /\ Typed' /\ pc'[t] = "get" /\ work'[t] = w
        /\ \A u \in Threads \ {t} : Same(u) /\ work'[u].late = work[u].late
    BY <1>1, <2>2, <2>5, <2>6, <2>7, OwnStep DEF Labels
  <2>9. QED BY <1>2, <2>2, <2>7, <2>8 DEF PhaseOK, Busy, Toggles
<1>6. CASE ShowParams(t)
  <2> DEFINE v == WithControl(t, past.wanted)
  <2>1. v \in SUBSET Oids
    BY <1>1, <1>3 DEF Pasts
  <2>2. past' = [past EXCEPT !.wanted = v]
    BY <1>6 DEF ShowParams
  <2> HIDE DEF v
  <2>3. past' \in Pasts
    BY <1>1, <2>1, <2>2 DEF Pasts
  <2>4. pc' = [pc EXCEPT ![t] = "end"] /\ UNCHANGED <<form, dir, work>> /\ DOMAIN report' = DOMAIN report
    BY <1>6 DEF ShowParams, Return, Goto
  <2>5. /\ Typed' /\ pc'[t] = "end"
        /\ \A u \in Threads \ {t} : Same(u) /\ work'[u].late = work[u].late
    BY <1>1, <2>3, <2>4, OwnStep DEF Labels
  <2>6. QED BY <2>5 DEF PhaseOK, Busy
<1>7. QED BY <1>4, <1>5, <1>6

(* The lists of a request, one after the other. *)
LEMMA SendType ==
  ASSUME CachesAssumption, TInv, NEW t \in Threads, ReadList(t) \/ Send(t)
  PROVE  Typed' /\ PhaseOK(t)' /\ \A u \in Threads \ {t} : Same(u) /\ work'[u].late = work[u].late
<1>1. /\ dir \in Dirs /\ past \in Pasts /\ form[t] \in Ops /\ work[t] \in Works /\ PhaseOK(t)
      /\ work \in [Threads -> Works] /\ work = [work EXCEPT ![t] = work[t]]
  BY ThreadTypes DEF TInv, Typed
<1>2. CASE ReadList(t)
  <2> DEFINE rest == Tail(work[t].lists)
             k == work[t].copy \union dir.ctrls[Head(work[t].lists)]
             w == [work[t] EXCEPT !.copy = k, !.lists = rest]
  <2>1. work[t].lists \in Seq(Methods) /\ work[t].lists # <<>> /\ form[t].op = "send"
    BY <1>1, <1>2 DEF ReadList, PhaseOK, Works
  <2>2. Head(work[t].lists) \in Methods /\ rest \in Seq(Methods)
    BY <2>1
  <2>3. k \in SUBSET Oids
    BY <1>1, <2>2 DEF Works, Dirs
  <2>4. work' = [work EXCEPT ![t] = w]
    BY <1>2 DEF ReadList
  <2>5. UNCHANGED <<form, dir, report, past>>
        /\ pc' = [pc EXCEPT ![t] = IF rest = <<>> THEN "send" ELSE "list"]
    BY <1>2 DEF ReadList, Goto
  <2> HIDE DEF k, rest
  <2>6. w \in Works /\ w.lists = rest
    BY <1>1, <2>2, <2>3 DEF Works
  <2> HIDE DEF w
  <2> DEFINE l == IF rest = <<>> THEN "send" ELSE "list"
  <2>7. l \in Labels /\ pc' = [pc EXCEPT ![t] = l]
    BY <2>5 DEF Labels
  <2> HIDE DEF l
  <2>8. /\ Typed' /\ pc'[t] = l /\ work'[t] = w
        /\ \A u \in Threads \ {t} : Same(u) /\ work'[u].late = work[u].late
    BY <1>1, <2>4, <2>5, <2>6, <2>7, OwnStep
  <2>9. l \in {"send", "list"} /\ (l = "list" => work'[t].lists # <<>>) /\ form' = form
    BY <2>5, <2>6, <2>8 DEF l
  <2>10. QED BY <2>1, <2>8, <2>9 DEF PhaseOK, Busy, Toggles
<1>3. CASE Send(t)
  <2>1. pc' = [pc EXCEPT ![t] = "end"] /\ UNCHANGED <<form, dir, work, past>> /\ DOMAIN report' = DOMAIN report
    BY <1>3 DEF Send, Return, Goto
  <2>2. /\ Typed' /\ pc'[t] = "end"
        /\ \A u \in Threads \ {t} : Same(u) /\ work'[u].late = work[u].late
    BY <1>1, <2>1, OwnStep DEF Labels
  <2>3. QED BY <2>2 DEF PhaseOK, Busy
<1>4. QED BY <1>2, <1>3

(* Every step keeps the types, and the other threads where they are. *)
LEMMA ThreadStep ==
  ASSUME CachesAssumption, TInv, NEW t \in Threads, Thread(t)
  PROVE  TInv' /\ \A u \in Threads \ {t} : Same(u)
<1>1. Typed' /\ PhaseOK(t)' /\ \A u \in Threads \ {t} : Same(u)
  BY BeginType, AgainType, DnType, SchemaType, FlushType, CtrlsType, SendType DEF Thread
<1>2. \A u \in Threads \ {t} : PhaseOK(u)'
  BY <1>1, SamePhase DEF TInv
<1>3. QED BY <1>1, <1>2 DEF TInv

(* Outside of the requests the schema changes, and ldap0 forgets results. *)
LEMMA OutsideIs ==
  ASSUME CachesAssumption, TInv, ServerChanges \/ Expires
  PROVE  /\ UNCHANGED <<pc, form, work, report, past>> /\ dir' \in Dirs
         /\ dir'.dns = dir.dns /\ dir'.cached = dir.cached /\ dir'.schema = dir.schema
         /\ dir'.audit = dir.audit /\ dir'.ctrls = dir.ctrls
         /\ dir'.version >= dir.version
         /\ \A k \in Dns \union {Root} : dir'.results[k] \in {Absent, dir.results[k]}
         /\ dir'.answer \in {NoAnswer, dir.answer}
<1>1. dir \in Dirs /\ UNCHANGED <<pc, form, work, report, past>> /\ dir.version \in Nat
  BY DEF TInv, Typed, Dirs, Versions, CachesAssumption, ServerChanges, Expires
<1>2. CASE ServerChanges
  <2> DEFINE v == dir.version + 1
  <2>1. v \in Versions /\ v >= dir.version /\ dir' = [dir EXCEPT !.version = v]
    BY <1>1, <1>2 DEF Dirs, Versions, CachesAssumption, ServerChanges
  <2> HIDE DEF v
  <2>2. QED BY <1>1, <2>1 DEF Dirs
<1>3. ASSUME NEW k \in Dns \union {Root}, dir' = [dir EXCEPT !.results[k] = Absent]
      PROVE  /\ dir' \in Dirs /\ dir'.version = dir.version /\ dir'.answer = dir.answer
             /\ dir'.dns = dir.dns /\ dir'.cached = dir.cached /\ dir'.schema = dir.schema
             /\ dir'.audit = dir.audit /\ dir'.ctrls = dir.ctrls
             /\ \A n \in Dns \union {Root} : dir'.results[n] \in {Absent, dir.results[n]}
  <2> DEFINE r == [dir.results EXCEPT ![k] = Absent]
  <2>1. r \in [Dns \union {Root} -> Results] /\ \A n \in Dns \union {Root} : r[n] \in {Absent, dir.results[n]}
    BY <1>1 DEF Dirs, Results
  <2>2. dir' = [dir EXCEPT !.results = r]
    BY <1>3
  <2> HIDE DEF r
  <2>3. QED BY <1>1, <2>1, <2>2 DEF Dirs
<1>4. CASE dir' = [dir EXCEPT !.answer = NoAnswer]
  BY <1>1, <1>4 DEF Dirs, Answers
<1>5. DOMAIN dir.results = Dns \union {Root}
  BY <1>1 DEF Dirs
<1>6. QED BY <1>1, <1>2, <1>3, <1>4, <1>5 DEF Expires

(* The types are kept by every step of the system. *)
LEMMA TypeStep ==
  ASSUME CachesAssumption, TInv, [Next]_vars
  PROVE  TInv'
<1>1. CASE ServerChanges \/ Expires
  <2>1. UNCHANGED <<pc, form, work, report, past>> /\ dir' \in Dirs
    BY <1>1, OutsideIs
  <2>2. QED BY <2>1 DEF TInv, Typed, PhaseOK, Busy, Toggles
<1>2. CASE UNCHANGED vars
  BY <1>2 DEF vars, TInv, Typed, PhaseOK, Busy, Toggles
<1>3. QED BY <1>1, <1>2, ThreadStep DEF Next

(* The types, and what a request is for where it is. *)
LEMMA Types ==
  ASSUME CachesAssumption
  PROVE  Spec => []TInv
BY TypeInit, TypeStep, PTL DEF Spec

-----------------------------------------------------------------------------
(* What each step leaves alone.                                              *)

(* Each attribute of the LDAPSession is changed by two steps at most. *)
LEMMA DirKept ==
  ASSUME TInv, NEW t \in Threads, Thread(t)
  PROVE  /\ dir'.version = dir.version
         /\ StoreDn(t) \/ FlushDns(t) \/ dir'.dns = dir.dns
         /\ StoreSchema(t) \/ FlushSchema(t) \/ (dir'.cached = dir.cached /\ dir'.schema = dir.schema)
         /\ StoreAudit(t) \/ FlushAudit(t) \/ dir'.audit = dir.audit
         /\ SetCtrls(t) \/ dir'.ctrls = dir.ctrls
         /\ KeepDn(t) \/ FlushResults(t) \/ dir'.results = dir.results
         /\ KeepSchema(t) \/ FlushResults(t) \/ dir'.answer = dir.answer
<1>1. dir \in Dirs
  BY ThreadTypes
<1>2. CASE dir' = dir
  BY <1>2
<1>3. ASSUME NEW x, NEW y,
             \/ (StoreDn(t) \/ FlushDns(t)) /\ dir' = [dir EXCEPT !.dns = x]
             \/ StoreSchema(t) /\ dir' = [dir EXCEPT !.cached = TRUE, !.schema = x]
             \/ FlushSchema(t) /\ dir' = [dir EXCEPT !.cached = x, !.schema = y]
             \/ KeepDn(t) /\ dir' = [dir EXCEPT !.results = x]
             \/ KeepSchema(t) /\ dir' = [dir EXCEPT !.answer = x]
             \/ FlushResults(t) /\ dir' = [dir EXCEPT !.results = x, !.answer = y]
             \/ (StoreAudit(t) \/ FlushAudit(t)) /\ dir' = [dir EXCEPT !.audit = x]
             \/ SetCtrls(t) /\ dir' = [dir EXCEPT !.ctrls = x]
      PROVE  /\ dir'.version = dir.version
             /\ StoreDn(t) \/ FlushDns(t) \/ dir'.dns = dir.dns
             /\ StoreSchema(t) \/ FlushSchema(t) \/ (dir'.cached = dir.cached /\ dir'.schema = dir.schema)
             /\ StoreAudit(t) \/ FlushAudit(t) \/ dir'.audit = dir.audit
             /\ SetCtrls(t) \/ dir'.ctrls = dir.ctrls
             /\ KeepDn(t) \/ FlushResults(t) \/ dir'.results = dir.results
             /\ KeepSchema(t) \/ FlushResults(t) \/ dir'.answer = dir.answer
  BY <1>1, <1>3 DEF Dirs
<1>4. CASE StoreDn(t)
  <2>1. dir' = [dir EXCEPT !.dns = [dir.dns EXCEPT ![form[t].arg] = [val |-> work[t].val, late |-> work[t].late]]]
    BY <1>4, Zenon DEF StoreDn
  <2>2. QED BY <1>3, <1>4, <2>1
<1>5. CASE StoreAudit(t)
  <2>1. PICK v : dir' = [dir EXCEPT !.audit = [dir.audit EXCEPT ![form[t].arg] = [val |-> v, late |-> FALSE]]]
    BY <1>5, Zenon DEF StoreAudit
  <2>2. QED BY <1>3, <1>5, <2>1
<1>6. CASE SetCtrls(t)
  <2>1. dir' = [dir EXCEPT !.ctrls = [dir.ctrls EXCEPT ![work[t].val] = WithControl(t, work[t].copy)]]
    BY <1>6, Zenon DEF SetCtrls
  <2>2. QED BY <1>3, <1>6, <2>1
<1>12. CASE KeepDn(t)
  <2>1. dir' = [dir EXCEPT !.results = [dir.results EXCEPT ![Key(t)] = [val |-> work[t].val, late |-> work[t].late]]]
    BY <1>12, Zenon DEF KeepDn
  <2>2. QED BY <1>3, <1>12, <2>1
<1>7. CASE FlushDns(t) \/ FlushSchema(t) \/ FlushAudit(t)
  BY <1>3, <1>7 DEF FlushDns, FlushSchema, FlushAudit
<1>13. CASE StoreSchema(t)
  BY <1>2, <1>3, <1>13 DEF StoreSchema
<1>14. CASE KeepSchema(t) \/ FlushResults(t)
  BY <1>3, <1>14 DEF KeepSchema, FlushResults
<1>8. CASE Begin(t) \/ Again(t) \/ TestDn(t) \/ IndexDn(t) \/ SearchDn(t)
  BY <1>2, <1>8 DEF Begin, Again, TestDn, IndexDn, SearchDn
<1>9. CASE TestSchema(t) \/ IndexSchema(t) \/ ReadSchema(t) \/ TestAudit(t) \/ IndexAudit(t)
  BY <1>2, <1>9 DEF TestSchema, IndexSchema, ReadSchema, TestAudit, IndexAudit
<1>10. CASE GetCtrls(t) \/ ShowParams(t) \/ ReadList(t) \/ Send(t)
  BY <1>2, <1>10 DEF GetCtrls, ShowParams, ReadList, Send
<1>11. QED BY <1>4, <1>5, <1>6, <1>7, <1>8, <1>9, <1>10, <1>12, <1>13, <1>14 DEF Thread

(* The history of the session. *)
LEMMA PastKept ==
  ASSUME CachesAssumption, TInv, NEW t \in Threads, Thread(t)
  PROVE  /\ FlushSchema(t) \/ past'.flushed = past.flushed
         /\ FlushDns(t) \/ (past.denied => past'.denied)
         /\ ShowParams(t) \/ past'.wanted = past.wanted
         /\ Begin(t) \/ past'.clean = past.clean
         /\ past'.clean => past.clean
         /\ past.since \ {t} \subseteq past'.since
         /\ Begin(t) \/ past.since \subseteq past'.since
<1> DEFINE Kept == /\ FlushSchema(t) \/ past'.flushed = past.flushed
                   /\ FlushDns(t) \/ (past.denied => past'.denied)
                   /\ ShowParams(t) \/ past'.wanted = past.wanted
                   /\ Begin(t) \/ past'.clean = past.clean
                   /\ past'.clean => past.clean
                   /\ past.since \ {t} \subseteq past'.since
                   /\ Begin(t) \/ past.since \subseteq past'.since
<1>1. past \in Pasts
  BY ThreadTypes
<1>2. past' = past => Kept
  OBVIOUS
<1>3. CASE Begin(t)
  <2> DEFINE alone == \A u \in Threads : ~(Busy(u) /\ Toggles(u))
             c == past.clean /\ (Toggles(t) => alone)
  <2>1. past' = [past EXCEPT !.since = past.since \ {t}, !.clean = c] /\ (c => past.clean)
    BY <1>3, Zenon DEF Begin
  <2> HIDE DEF c
  <2>2. QED BY <1>1, <1>3, <2>1 DEF Pasts
<1>4. CASE SearchDn(t)
  <2>1. PICK denied \in BOOLEAN : past' = [past EXCEPT !.denied = denied] /\ (past.denied => denied)
    BY <1>4, SearchIs DEF Finds
  <2>2. QED BY <1>1, <2>1 DEF Pasts
<1>5. CASE ReadSchema(t)
  <2>1. PICK denied \in BOOLEAN : past' = [past EXCEPT !.denied = denied] /\ (past.denied => denied)
    BY <1>5, ReadIs
  <2>2. QED BY <1>1, <2>1 DEF Pasts
<1>6. CASE FlushDns(t) \/ FlushSchema(t) \/ FlushAudit(t)
  <2> DEFINE m == Meanwhile(t)
  <2>1. /\ m \in Pasts
        /\ past.since \subseteq m.since
        /\ m.flushed = past.flushed /\ m.denied = past.denied
        /\ m.wanted = past.wanted /\ m.clean = past.clean
    BY MeanwhileIs
  <2>2. \/ FlushDns(t) /\ past' = [m EXCEPT !.denied = FALSE]
        \/ FlushSchema(t) /\ past' = [m EXCEPT !.flushed = dir.version]
        \/ past' = m
    BY <1>6 DEF FlushDns, FlushSchema, FlushAudit
  <2> HIDE DEF m
  <2>3. QED BY <2>1, <2>2 DEF Pasts
<1>7. CASE ShowParams(t)
  BY <1>1, <1>7 DEF ShowParams, Pasts
<1>8. CASE Again(t) \/ TestDn(t) \/ IndexDn(t) \/ KeepDn(t) \/ StoreDn(t) \/ KeepSchema(t) \/ FlushResults(t)
  BY <1>2, <1>8 DEF Again, TestDn, IndexDn, KeepDn, StoreDn, KeepSchema, FlushResults
<1>9. CASE TestSchema(t) \/ IndexSchema(t) \/ StoreSchema(t) \/ TestAudit(t) \/ IndexAudit(t) \/ StoreAudit(t)
  BY <1>2, <1>9 DEF TestSchema, IndexSchema, StoreSchema, TestAudit, IndexAudit, StoreAudit
<1>10. CASE GetCtrls(t) \/ SetCtrls(t) \/ ReadList(t) \/ Send(t)
  BY <1>2, <1>10 DEF GetCtrls, SetCtrls, ReadList, Send
<1>11. QED BY <1>3, <1>4, <1>5, <1>6, <1>7, <1>8, <1>9, <1>10 DEF Thread

(* A thread that is late stays late until it reads again. *)
LEMMA LateGrows ==
  ASSUME CachesAssumption, TInv, NEW t \in Threads, Thread(t)
  PROVE  \A u \in Threads \ {t} : work[u].late => work'[u].late
<1> SUFFICES ASSUME NEW u \in Threads \ {t}, work[u].late PROVE work'[u].late
  OBVIOUS
<1>1. work[u] \in Works
  BY ThreadTypes
<1>2. CASE Begin(t)
  <2> DEFINE b == work[u].late \/ (Toggles(t) /\ pc[u] \in {"list", "send"})
  <2>1. work'[u] = [work[u] EXCEPT !.late = b] /\ b
    BY <1>2, Zenon DEF Begin
  <2> HIDE DEF b
  <2>2. QED BY <1>1, <2>1 DEF Works
<1>3. CASE FlushDns(t)
  BY <1>3, LateIs DEF FlushDns
<1>4. CASE FlushSchema(t)
  BY <1>4, LateIs DEF FlushSchema
<1>5. CASE FlushAudit(t) \/ FlushResults(t)
  BY <1>5 DEF FlushAudit, FlushResults
<1>6. CASE Again(t)
  BY <1>6 DEF Again, TInv, Typed
<1>7. QED BY <1>2, <1>3, <1>4, <1>5, <1>6, DnType, SchemaType, CtrlsType, SendType DEF Thread

-----------------------------------------------------------------------------
(* The schema in the cache.  A thread that has read the schema and not yet   *)
(* stored it when the caches are flushed is told that it is late; so is one that *)
(* gets a result of ldap0 while a flush is on its way to those.                *)

(* A flush that is under way goes on until ldap0's results are forgotten. *)
LEMMA FlushingGoesOn ==
  ASSUME CachesAssumption, TInv, NEW t \in Threads, Thread(t), Flushing
  PROVE  FlushResults(t) \/ Flushing'
<1>1. PICK u \in Threads : pc[u] \in {"flush schema", "flush audit", "flush results"}
  BY DEF Flushing
<1>2. CASE u # t
  <2>1. pc'[u] = pc[u]
    BY <1>2, ThreadStep DEF Same
  <2>2. QED BY <1>1, <2>1 DEF Flushing
<1>3. CASE u = t
  <2>1. FlushSchema(t) \/ FlushAudit(t) \/ FlushResults(t)
    BY <1>1, <1>3 DEF Thread, Begin, Again, Busy, TestDn, IndexDn, SearchDn, KeepDn, StoreDn, TestSchema,
      IndexSchema, ReadSchema, KeepSchema, StoreSchema, TestAudit, IndexAudit, StoreAudit, FlushDns,
      GetCtrls, SetCtrls, ShowParams, ReadList, Send
  <2>2. FlushResults(t) \/ pc'[t] \in {"flush audit", "flush results"}
    BY <2>1 DEF FlushSchema, FlushAudit, Goto, TInv, Typed
  <2>3. QED BY <2>2 DEF Flushing
<1>4. QED BY <1>2, <1>3

(* What ldap0 forgets: everything at the end of a flush, one result at a time *)
(* otherwise; what it keeps is what a thread has just asked for.               *)
LEMMA ResultsAre ==
  ASSUME CachesAssumption, TInv, NEW t \in Threads, Thread(t)
  PROVE  /\ FlushResults(t) => dir'.answer = NoAnswer /\ \A k \in Dns \union {Root} : dir'.results[k] = Absent
         /\ KeepSchema(t) => /\ dir'.answer.val = work[t].val /\ dir'.answer.version = work[t].version
                             /\ dir'.answer.late = work[t].late
         /\ KeepDn(t) => \A k \in Dns \union {Root} :
                           \/ dir'.results[k] = dir.results[k]
                           \/ dir'.results[k].val = work[t].val /\ dir'.results[k].late = work[t].late
<1>1. dir \in Dirs /\ DOMAIN dir.results = Dns \union {Root}
  BY ThreadTypes DEF Dirs
<1>2. CASE FlushResults(t)
  <2> DEFINE r == [d \in DOMAIN dir.results |-> Absent]
  <2>1. dir' = [dir EXCEPT !.results = r, !.answer = NoAnswer]
    BY <1>2 DEF FlushResults
  <2>2. \A k \in Dns \union {Root} : r[k] = Absent
    BY <1>1
  <2>3. ~KeepSchema(t) /\ ~KeepDn(t)
    BY <1>2 DEF FlushResults, KeepSchema, KeepDn
  <2> HIDE DEF r
  <2>4. dir'.results = r /\ dir'.answer = NoAnswer
    BY <1>1, <2>1 DEF Dirs
  <2>5. QED BY <2>2, <2>3, <2>4
<1>3. CASE KeepSchema(t)
  <2> DEFINE c == [val |-> work[t].val, version |-> work[t].version, late |-> work[t].late]
  <2>1. dir' = [dir EXCEPT !.answer = c]
    BY <1>3 DEF KeepSchema
  <2>2. c.val = work[t].val /\ c.version = work[t].version /\ c.late = work[t].late
    OBVIOUS
  <2>3. ~FlushResults(t) /\ ~KeepDn(t)
    BY <1>3 DEF FlushResults, KeepSchema, KeepDn
  <2> HIDE DEF c
  <2>4. dir'.answer = c
    BY <1>1, <2>1 DEF Dirs
  <2>5. QED BY <2>2, <2>3, <2>4
<1>4. CASE KeepDn(t)
  <2> DEFINE c == [val |-> work[t].val, late |-> work[t].late]
             r == [dir.results EXCEPT ![Key(t)] = c]
  <2>1. dir' = [dir EXCEPT !.results = r]
    BY <1>4 DEF KeepDn
  <2>2. c.val = work[t].val /\ c.late = work[t].late
    OBVIOUS
  <2>3. \A k \in Dns \union {Root} : r[k] = c \/ r[k] = dir.results[k]
    BY <1>1 DEF Dirs
  <2>4. ~FlushResults(t) /\ ~KeepSchema(t)
    BY <1>4 DEF FlushResults, KeepSchema, KeepDn
  <2> HIDE DEF c, r
  <2>5. dir'.results = r
    BY <1>1, <2>1 DEF Dirs
  <2>6. QED BY <2>2, <2>3, <2>4, <2>5
<1>5. QED BY <1>2, <1>3, <1>4

Fresh(x) == x.val = None \/ x.late \/ x.version >= past.flushed

SchemaRead(t) == pc[t] \in {"keep schema", "store schema"} => Fresh(work[t])

AnswerFresh == dir.answer = NoAnswer \/ Flushing \/ Fresh(dir.answer)

SchemaInv ==
  /\ past.flushed <= dir.version
  /\ SchemaSinceFlush
  /\ \A t \in Threads : SchemaRead(t)
  /\ AnswerFresh

(* Each step keeps what SchemaInv says of the schema read, kept and cached. *)
LEMMA SchemaStep ==
  ASSUME CachesAssumption, TInv, SchemaInv, [Next]_vars
  PROVE  SchemaInv'
<1>1. /\ dir \in Dirs /\ past \in Pasts
      /\ dir.version \in Nat /\ past.flushed \in Nat /\ past.flushed <= dir.version
  <2>1. dir \in Dirs /\ past \in Pasts
    BY DEF TInv, Typed
  <2>2. dir.version \in Versions /\ past.flushed \in Versions
    BY <2>1 DEF Dirs, Pasts
  <2>3. QED BY <2>1, <2>2 DEF Versions, CachesAssumption, SchemaInv
<1>2. CASE UNCHANGED vars
  BY <1>2 DEF vars, SchemaInv, SchemaSinceFlush, SchemaRead, AnswerFresh, Fresh, Flushing
<1>3. CASE ServerChanges \/ Expires
  <2>1. /\ dir'.cached = dir.cached /\ dir'.schema = dir.schema /\ dir'.version >= dir.version
        /\ dir'.answer \in {NoAnswer, dir.answer} /\ dir' \in Dirs
    BY <1>3, OutsideIs
  <2>2. UNCHANGED <<pc, work, past>>
    BY <1>3, OutsideIs
  <2>3. past.flushed <= dir'.version
    <3>1. dir'.version \in Nat
      BY <2>1 DEF Dirs, Versions, CachesAssumption
    <3>2. QED BY <1>1, <2>1, <3>1
  <2>4. QED BY <2>1, <2>2, <2>3 DEF SchemaInv, SchemaSinceFlush, SchemaRead, AnswerFresh, Fresh, Flushing
<1>4. ASSUME NEW t \in Threads, Thread(t) PROVE SchemaInv'
  <2>1. dir'.version = dir.version /\ PhaseOK(t) /\ work[t] \in Works
    BY <1>4, DirKept, ThreadTypes
  <2>2. CASE FlushSchema(t)
    <3>1. past'.flushed = dir.version
      <4> DEFINE m == Meanwhile(t)
      <4>1. m \in Pasts /\ past' = [m EXCEPT !.flushed = dir.version]
        BY <2>2, MeanwhileIs DEF FlushSchema
      <4> HIDE DEF m
      <4>2. QED BY <4>1 DEF Pasts
    <3>2. ~dir'.cached
      BY <1>1, <2>2 DEF FlushSchema, SchemaKept, Dirs
    <3>3. \A u \in Threads \ {t} : SchemaRead(u)'
      <4> DEFINE ls == {"keep schema", "store schema"}
      <4>1. work' = Late(t, ls)
        BY <2>2 DEF FlushSchema
      <4>2. "keep schema" \in ls /\ "store schema" \in ls
        OBVIOUS
      <4> HIDE DEF ls
      <4>3. \A u \in Threads \ {t} : pc[u] \in ls => work'[u].late
        BY <4>1, LateIs
      <4>4. \A u \in Threads \ {t} : pc'[u] = pc[u]
        BY <1>4, ThreadStep DEF Same
      <4>5. QED BY <4>2, <4>3, <4>4 DEF SchemaRead, Fresh
    <3>4. pc'[t] = "flush audit"
      BY <2>2 DEF FlushSchema, Goto, TInv, Typed
    <3>5. SchemaRead(t)' /\ AnswerFresh'
      BY <3>4 DEF SchemaRead, AnswerFresh, Flushing
    <3>6. past'.flushed <= dir'.version
      BY <1>1, <2>1, <3>1
    <3>7. QED BY <3>2, <3>3, <3>5, <3>6 DEF SchemaInv, SchemaSinceFlush
  <2>3. CASE ~FlushSchema(t)
    <3>1. past'.flushed = past.flushed
      BY <1>4, <2>3, PastKept
    <3>2. \A u \in Threads \ {t} : SchemaRead(u)'
      <4>1. \A u \in Threads \ {t} :
              /\ pc'[u] = pc[u] /\ work'[u].val = work[u].val /\ work'[u].version = work[u].version
              /\ work[u].late => work'[u].late
        BY <1>4, LateGrows, ThreadStep DEF Same
      <4>2. QED BY <3>1, <4>1 DEF SchemaInv, SchemaRead, Fresh
    <3>3. SchemaRead(t)'
      <4>1. CASE ReadSchema(t)
        <5>1. SUFFICES ASSUME pc'[t] \in {"keep schema", "store schema"} PROVE Fresh(work[t])'
          BY DEF SchemaRead
        <5>2. pc' # [pc EXCEPT ![t] = "end"]
          BY <5>1 DEF TInv, Typed
        <5>3. PICK denied \in BOOLEAN, val \in Findings, version \in Versions, late \in BOOLEAN,
                   l \in {"keep schema", "store schema"} : Reads(t, val, version, late, l, denied)
          BY <4>1, <5>2, ReadIs
        <5> DEFINE w == [work[t] EXCEPT !.val = val, !.version = version, !.late = late]
        <5>4. w.val = val /\ w.version = version /\ w.late = late
          BY <2>1 DEF Works
        <5>5. work'[t] = w
          BY <5>3 DEF Reads, TInv, Typed
        <5> HIDE DEF w
        <5>6. val = None \/ late \/ version >= past.flushed
          <6>1. CASE dir.answer # NoAnswer /\ val = dir.answer.val /\ version = dir.answer.version
                     /\ (dir.answer.late \/ Flushing => late)
            BY <6>1 DEF SchemaInv, AnswerFresh, Fresh
          <6>2. CASE version = dir.version
            BY <1>1, <6>2
          <6>3. QED BY <5>3, <6>1, <6>2 DEF Reads
        <5>7. QED BY <3>1, <5>4, <5>5, <5>6 DEF Fresh
      <4>2. CASE KeepSchema(t)
        <5>1. pc[t] = "keep schema" /\ work' = work
          BY <4>2 DEF KeepSchema
        <5>2. QED BY <3>1, <5>1 DEF SchemaInv, SchemaRead, Fresh
      <4>3. CASE ~ReadSchema(t) /\ ~KeepSchema(t)
        <5>1. pc'[t] \notin {"keep schema", "store schema"}
          BY <1>4, <2>3, <4>3 DEF Thread, Begin, Again, TestDn, IndexDn, SearchDn, KeepDn, Found, StoreDn,
            TestSchema, IndexSchema, StoreSchema, Finish, TestAudit, IndexAudit, StoreAudit, FlushDns,
            FlushAudit, FlushResults, GetCtrls, SetCtrls, ShowParams, ReadList, Send, Return, Goto, TInv, Typed
        <5>2. QED BY <5>1 DEF SchemaRead
      <4>4. QED BY <4>1, <4>2, <4>3
    <3>4. SchemaSinceFlush'
      <4>1. CASE StoreSchema(t)
        <5> DEFINE c == [val |-> work[t].version, late |-> work[t].late]
        <5>1. \/ dir' = dir
              \/ dir' = [dir EXCEPT !.cached = TRUE, !.schema = c] /\ pc[t] = "store schema" /\ work[t].val # None
          BY <4>1 DEF StoreSchema
        <5>2. c.val = work[t].version /\ c.late = work[t].late
          OBVIOUS
        <5> HIDE DEF c
        <5>3. dir' = dir \/ dir'.schema = c
          BY <1>1, <5>1 DEF Dirs
        <5>4. QED BY <3>1, <5>1, <5>2, <5>3 DEF SchemaInv, SchemaRead, Fresh, SchemaSinceFlush
      <4>2. CASE ~StoreSchema(t)
        BY <1>4, <2>3, <3>1, <4>2, DirKept DEF SchemaInv, SchemaSinceFlush
      <4>3. QED BY <4>1, <4>2
    <3>5. AnswerFresh'
      <4>1. CASE FlushResults(t)
        BY <1>4, <4>1, ResultsAre DEF AnswerFresh
      <4>2. CASE KeepSchema(t)
        <5>1. Fresh(work[t])
          BY <4>2 DEF KeepSchema, SchemaInv, SchemaRead
        <5>2. dir'.answer.val = work[t].val /\ dir'.answer.version = work[t].version /\ dir'.answer.late = work[t].late
          BY <1>4, <4>2, ResultsAre
        <5>3. QED BY <3>1, <5>1, <5>2 DEF AnswerFresh, Fresh
      <4>3. CASE ~FlushResults(t) /\ ~KeepSchema(t)
        <5>1. dir'.answer = dir.answer /\ (Flushing => Flushing')
          BY <1>4, <4>3, DirKept, FlushingGoesOn
        <5>2. QED BY <3>1, <5>1 DEF SchemaInv, AnswerFresh, Fresh
      <4>4. QED BY <4>1, <4>2, <4>3
    <3>6. QED BY <1>1, <2>1, <3>1, <3>2, <3>3, <3>4, <3>5 DEF SchemaInv
  <2>4. QED BY <2>2, <2>3
<1>5. QED BY <1>2, <1>3, <1>4 DEF Next

(* The schema in the cache is not older than the last flush, unless a       *)
(* thread was reading it meanwhile, or got ldap0's result before that was       *)
(* forgotten as well.                                                         *)
THEOREM SchemaNotOlder ==
  ASSUME CachesAssumption
  PROVE  Spec => []SchemaSinceFlush
<1>1. Init => SchemaInv
  <2> SUFFICES ASSUME Init PROVE SchemaInv
    OBVIOUS
  <2>1. past.flushed = 0
    BY DEF Init, NoPast
  <2>2. dir.version = 0 /\ ~dir.cached /\ dir.answer = NoAnswer
    BY DEF Init
  <2>3. \A t \in Threads : SchemaRead(t)
    BY DEF Init, SchemaRead
  <2>4. QED BY <2>1, <2>2, <2>3 DEF SchemaInv, SchemaSinceFlush, AnswerFresh
<1>2. TInv /\ SchemaInv /\ [Next]_vars => SchemaInv'
  BY SchemaStep
<1>3. SchemaInv => SchemaSinceFlush
  BY DEF SchemaInv
<1>4. QED BY Types, <1>1, <1>2, <1>3, PTL DEF Spec

-----------------------------------------------------------------------------
(* The DN of the subschema.  "Not found" is in hand or stored only after the  *)
(* server has not answered or had nothing, and what was found before a flush is  *)
(* stored late, if at all.                                                    *)

Reasoned(x) == x.val = None /\ ~x.late => past.denied

DnKnown(t) ==
  pc[t] \in {"keep dn", "keep root", "store dn", "test schema", "keep schema", "store schema"} => Reasoned(work[t])

ResultsReasoned ==
  Flushing \/ (Reasoned(dir.answer) /\ \A k \in Dns \union {Root} : Reasoned(dir.results[k]))

DefaultInv ==
  /\ \A d \in Dns : Reasoned(dir.dns[d])
  /\ \A t \in Threads : DnKnown(t)
  /\ ResultsReasoned

LEMMA AbsentIs ==
  /\ Absent.val # None /\ NoAnswer.val # None
BY DEF Absent, NoAnswer, None

(* A flush forgets the DNs; what is in hand is late. *)
LEMMA DefaultFlush ==
  ASSUME CachesAssumption, TInv, DefaultInv, NEW t \in Threads, FlushDns(t)
  PROVE  DefaultInv'
<1>1. dir \in Dirs /\ Thread(t)
  BY DEF TInv, Typed, Thread
<1>2. \A d \in Dns : dir'.dns[d] = Absent
  <2> DEFINE x == [d \in Dns |-> Absent]
  <2>1. dir' = [dir EXCEPT !.dns = x]
    BY DEF FlushDns, EmptyDns
  <2> HIDE DEF x
  <2>2. dir'.dns = x
    BY <1>1, <2>1 DEF Dirs
  <2>3. QED BY <2>2 DEF x
<1>3. \A u \in Threads \ {t} : DnKnown(u)'
  <2> DEFINE ls == {"keep dn", "keep root", "store dn", "test schema", "index schema", "read schema",
                    "keep schema", "store schema"}
  <2>1. work' = Late(t, ls)
    BY DEF FlushDns
  <2>2. {"keep dn", "keep root", "store dn", "test schema", "keep schema", "store schema"} \subseteq ls
    OBVIOUS
  <2> HIDE DEF ls
  <2>3. \A u \in Threads \ {t} : pc[u] \in ls => work'[u].late
    BY <2>1, LateIs
  <2>4. \A u \in Threads \ {t} : pc'[u] = pc[u]
    BY <1>1, ThreadStep DEF Same
  <2>5. QED BY <2>2, <2>3, <2>4 DEF DnKnown, Reasoned
<1>4. pc'[t] = "flush schema"
  BY DEF FlushDns, Goto, TInv, Typed
<1>5. DnKnown(t)' /\ ResultsReasoned'
  BY <1>4 DEF DnKnown, ResultsReasoned, Flushing
<1>6. \A d \in Dns : Reasoned(dir.dns[d])'
  BY <1>2, AbsentIs DEF Reasoned
<1>7. QED BY <1>3, <1>5, <1>6 DEF DefaultInv

(* A search, or a reading of the schema, has a reason for "not found". *)
LEMMA DefaultSearch ==
  ASSUME CachesAssumption, TInv, DefaultInv, NEW t \in Threads, SearchDn(t) \/ ReadSchema(t)
  PROVE  DnKnown(t)'
<1>1. dir \in Dirs /\ past \in Pasts /\ work[t] \in Works
  BY ThreadTypes
<1>2. CASE SearchDn(t)
  <2>1. PICK val \in Findings, late \in BOOLEAN, l \in {"keep dn", "keep root", "search root", "store dn"},
             denied \in BOOLEAN : Finds(t, val, late, l, denied)
    BY <1>2, SearchIs
  <2> DEFINE w == [work[t] EXCEPT !.val = val, !.late = late]
  <2>2. w.val = val /\ w.late = late
    BY <1>1 DEF Works
  <2>3. work'[t] = w
    BY <2>1 DEF Finds, TInv, Typed
  <2> HIDE DEF w
  <2>4. past'.denied = denied /\ (past.denied => denied)
    BY <1>1, <2>1 DEF Finds, Pasts
  <2>5. val = None /\ ~late => denied
    BY <2>1, <2>4 DEF Finds, DefaultInv, ResultsReasoned, Reasoned
  <2>6. QED BY <2>2, <2>3, <2>4, <2>5 DEF DnKnown, Reasoned
<1>3. CASE ReadSchema(t)
  <2>1. PICK denied \in BOOLEAN :
          /\ past' = [past EXCEPT !.denied = denied] /\ (past.denied => denied)
          /\ \/ pc' = [pc EXCEPT ![t] = "end"] /\ work' = [work EXCEPT ![t] = NoLocals]
             \/ \E val \in Findings, version \in Versions, late \in BOOLEAN, l \in {"keep schema", "store schema"} :
                  Reads(t, val, version, late, l, denied)
    BY <1>3, ReadIs
  <2>2. past'.denied = denied
    BY <1>1, <2>1 DEF Pasts
  <2>3. CASE pc' = [pc EXCEPT ![t] = "end"]
    BY <2>3 DEF DnKnown, TInv, Typed
  <2>4. CASE \E val \in Findings, version \in Versions, late \in BOOLEAN, l \in {"keep schema", "store schema"} :
               Reads(t, val, version, late, l, denied)
    <3>1. PICK val \in Findings, version \in Versions, late \in BOOLEAN, l \in {"keep schema", "store schema"} :
               Reads(t, val, version, late, l, denied)
      BY <2>4
    <3> DEFINE w == [work[t] EXCEPT !.val = val, !.version = version, !.late = late]
    <3>2. w.val = val /\ w.late = late
      BY <1>1 DEF Works
    <3>3. work'[t] = w
      BY <3>1 DEF Reads, TInv, Typed
    <3> HIDE DEF w
    <3>4. val = None /\ ~late => denied
      BY <2>1, <3>1 DEF Reads, DefaultInv, ResultsReasoned, Reasoned
    <3>5. QED BY <2>2, <3>2, <3>3, <3>4 DEF DnKnown, Reasoned
  <2>5. QED BY <2>1, <2>3, <2>4
<1>4. QED BY <1>2, <1>3

(* Each step keeps what DefaultInv says of the DNs found and cached. *)
LEMMA DefaultStep ==
  ASSUME CachesAssumption, TInv, DefaultInv, [Next]_vars
  PROVE  DefaultInv'
<1>1. dir \in Dirs /\ past \in Pasts
  BY DEF TInv, Typed
<1>2. CASE UNCHANGED vars
  BY <1>2 DEF vars, DefaultInv, DnKnown, ResultsReasoned, Reasoned, Flushing
<1>3. CASE ServerChanges \/ Expires
  <2>1. /\ dir'.dns = dir.dns /\ UNCHANGED <<pc, work, past>> /\ dir'.answer \in {NoAnswer, dir.answer}
        /\ \A k \in Dns \union {Root} : dir'.results[k] \in {Absent, dir.results[k]}
    BY <1>3, OutsideIs
  <2>2. ResultsReasoned'
    BY <2>1, AbsentIs DEF DefaultInv, ResultsReasoned, Reasoned, Flushing
  <2>3. QED BY <2>1, <2>2 DEF DefaultInv, DnKnown, Reasoned
<1>4. ASSUME NEW t \in Threads, Thread(t) PROVE DefaultInv'
  <2>1. PhaseOK(t) /\ work[t] \in Works /\ form[t] \in Ops
    BY ThreadTypes
  <2>2. CASE FlushDns(t)
    BY <2>2, DefaultFlush
  <2>3. CASE ~FlushDns(t)
    <3>1. past.denied => past'.denied
      BY <1>4, <2>3, PastKept
    <3>2. \A u \in Threads \ {t} : DnKnown(u)'
      <4>1. \A u \in Threads \ {t} : pc'[u] = pc[u] /\ work'[u].val = work[u].val /\ (work[u].late => work'[u].late)
        BY <1>4, LateGrows, ThreadStep DEF Same
      <4>2. QED BY <3>1, <4>1 DEF DefaultInv, DnKnown, Reasoned
    <3>3. DnKnown(t)'
      <4>1. CASE SearchDn(t) \/ ReadSchema(t)
        BY <4>1, DefaultSearch
      <4>2. CASE IndexDn(t)
        <5> DEFINE c == dir.dns[form[t].arg]
                   w == [work[t] EXCEPT !.val = c.val, !.late = c.late]
        <5>1. form[t].arg \in Dns
          BY <2>1, <4>2, OpsArg DEF IndexDn, PhaseOK
        <5>2. w.val = c.val /\ w.late = c.late
          BY <2>1 DEF Works
        <5>3. pc'[t] = "KeyError" \/ work'[t] = w
          BY <4>2 DEF IndexDn, Goto, TInv, Typed
        <5> HIDE DEF w
        <5>4. QED BY <3>1, <5>1, <5>2, <5>3 DEF DefaultInv, DnKnown, Reasoned
      <4>3. CASE StoreDn(t) \/ KeepDn(t) \/ KeepSchema(t)
        <5>1. pc[t] \in {"store dn", "keep dn", "keep root", "keep schema"} /\ work' = work
          BY <4>3 DEF StoreDn, KeepDn, KeepSchema
        <5>2. QED BY <3>1, <5>1 DEF DefaultInv, DnKnown, Reasoned
      <4>4. CASE ~SearchDn(t) /\ ~IndexDn(t) /\ ~StoreDn(t) /\ ~KeepDn(t) /\ ~ReadSchema(t) /\ ~KeepSchema(t)
        <5>1. pc'[t] \notin {"keep dn", "keep root", "store dn", "test schema", "keep schema", "store schema"}
          BY <1>4, <2>3, <4>4 DEF Thread, Begin, Again, TestDn, TestSchema,
            IndexSchema, StoreSchema, Finish, TestAudit, IndexAudit, StoreAudit, FlushSchema, FlushAudit,
            FlushResults, GetCtrls, SetCtrls, ShowParams, ReadList, Send, Return, Goto, TInv, Typed
        <5>2. QED BY <5>1 DEF DnKnown
      <4>5. QED BY <4>1, <4>2, <4>3, <4>4
    <3>4. \A d \in Dns : Reasoned(dir.dns[d])'
      <4>1. CASE StoreDn(t)
        <5> DEFINE c == [val |-> work[t].val, late |-> work[t].late]
                   x == [dir.dns EXCEPT ![form[t].arg] = c]
        <5>1. dir' = [dir EXCEPT !.dns = x] /\ pc[t] = "store dn"
          BY <4>1 DEF StoreDn
        <5>2. \A d \in Dns : x[d] = c \/ x[d] = dir.dns[d]
          BY <1>1 DEF Dirs
        <5>3. c.val = work[t].val /\ c.late = work[t].late
          OBVIOUS
        <5> HIDE DEF c, x
        <5>4. dir'.dns = x
          BY <1>1, <5>1 DEF Dirs
        <5>5. QED BY <3>1, <5>1, <5>2, <5>3, <5>4 DEF DefaultInv, DnKnown, Reasoned
      <4>2. CASE ~StoreDn(t)
        <5>1. dir'.dns = dir.dns
          BY <1>4, <2>3, <4>2, DirKept
        <5>2. QED BY <3>1, <5>1 DEF DefaultInv, Reasoned
      <4>3. QED BY <4>1, <4>2
    <3>5. ResultsReasoned'
      <4>1. CASE FlushResults(t)
        BY <1>4, <4>1, ResultsAre, AbsentIs DEF ResultsReasoned, Reasoned
      <4>2. CASE ~FlushResults(t)
        <5>1. Flushing => Flushing'
          BY <1>4, <4>2, FlushingGoesOn
        <5>2. pc[t] \in {"keep dn", "keep root", "keep schema"} => Reasoned(work[t])
          BY DEF DefaultInv, DnKnown
        <5>3. Reasoned(dir.answer) => Reasoned(dir.answer)'
          <6>1. CASE KeepSchema(t)
            BY <1>4, <3>1, <5>2, <6>1, ResultsAre DEF KeepSchema, Reasoned
          <6>2. CASE ~KeepSchema(t)
            BY <1>4, <3>1, <4>2, <6>2, DirKept DEF Reasoned
          <6>3. QED BY <6>1, <6>2
        <5>4. \A k \in Dns \union {Root} : Reasoned(dir.results[k]) => Reasoned(dir.results[k])'
          <6>1. CASE KeepDn(t)
            BY <1>4, <3>1, <5>2, <6>1, ResultsAre DEF KeepDn, Reasoned
          <6>2. CASE ~KeepDn(t)
            BY <1>4, <3>1, <4>2, <6>2, DirKept DEF Reasoned
          <6>3. QED BY <6>1, <6>2
        <5>5. QED BY <5>1, <5>3, <5>4 DEF DefaultInv, ResultsReasoned
      <4>3. QED BY <4>1, <4>2
    <3>6. QED BY <3>2, <3>3, <3>4, <3>5 DEF DefaultInv
  <2>4. QED BY <2>2, <2>3
<1>5. QED BY <1>2, <1>3, <1>4 DEF Next

(* The default schema is returned only if since the last flush the server   *)
(* did not answer or had no schema, unless the thread was searching meanwhile or *)
(* got a result of ldap0 before that was forgotten as well.                    *)
THEOREM DefaultJustified ==
  ASSUME CachesAssumption
  PROVE  Spec => []DefaultHasReason
<1>1. Init => DefaultInv
  <2> SUFFICES ASSUME Init PROVE DefaultInv
    OBVIOUS
  <2>1. /\ \A d \in Dns : dir.dns[d] = Absent
        /\ \A k \in Dns \union {Root} : dir.results[k] = Absent
        /\ dir.answer = NoAnswer
    BY DEF Init
  <2>2. \A t \in Threads : DnKnown(t)
    BY DEF Init, DnKnown
  <2>3. QED BY <2>1, <2>2, AbsentIs DEF DefaultInv, ResultsReasoned, Reasoned
<1>2. TInv /\ DefaultInv /\ [Next]_vars => DefaultInv'
  BY DefaultStep
<1>3. DefaultInv => DefaultHasReason
  BY DEF DefaultInv, DnKnown, Reasoned, DefaultHasReason
<1>4. QED BY Types, <1>1, <1>2, <1>3, PTL DEF Spec

-----------------------------------------------------------------------------
(* Keys that are missing.  A key that a thread has found stays until a       *)
(* flush, which is told to every thread that has found one.                    *)

KeyThere(t) ==
  \/ t \in past.since
  \/ /\ pc[t] # "KeyError"
     /\ pc[t] = "index dn" => dir.dns[form[t].arg] # Absent
     /\ pc[t] = "index schema" => dir.cached
     /\ pc[t] = "index audit" => dir.audit[form[t].arg] # Absent

KeyInv == \A t \in Threads : KeyThere(t)

Flushes(t) == FlushDns(t) \/ FlushSchema(t) \/ FlushAudit(t)

(* Only a flush removes a key. *)
LEMMA KeysStay ==
  ASSUME TInv, NEW t \in Threads, Thread(t), ~Flushes(t)
  PROVE  /\ \A d \in Dns : dir.dns[d] # Absent => dir'.dns[d] # Absent
         /\ dir.cached => dir'.cached
         /\ \A d \in Dns : dir.audit[d] # Absent => dir'.audit[d] # Absent
<1>1. dir \in Dirs /\ PhaseOK(t)
  BY ThreadTypes
<1>2. \A d \in Dns : dir.dns[d] # Absent => dir'.dns[d] # Absent
  <2>1. CASE StoreDn(t)
    <3> DEFINE c == [val |-> work[t].val, late |-> work[t].late]
               x == [dir.dns EXCEPT ![form[t].arg] = c]
    <3>1. dir' = [dir EXCEPT !.dns = x] /\ pc[t] = "store dn"
      BY <2>1 DEF StoreDn
    <3>2. \A d \in Dns : x[d] = c \/ x[d] = dir.dns[d]
      BY <1>1 DEF Dirs
    <3>3. c # Absent
      BY <1>1, <3>1 DEF PhaseOK, Absent, Findings, None
    <3> HIDE DEF c, x
    <3>4. dir'.dns = x
      BY <1>1, <3>1 DEF Dirs
    <3>5. QED BY <3>2, <3>3, <3>4
  <2>2. QED BY <2>1, DirKept DEF Flushes
<1>3. dir.cached => dir'.cached
  BY <1>1, DirKept DEF Flushes, StoreSchema, Dirs
<1>4. \A d \in Dns : dir.audit[d] # Absent => dir'.audit[d] # Absent
  <2>1. CASE StoreAudit(t)
    <3>1. PICK v \in {None, "log"} :
            dir' = [dir EXCEPT !.audit = [dir.audit EXCEPT ![form[t].arg] = [val |-> v, late |-> FALSE]]]
      BY <2>1, Zenon DEF StoreAudit
    <3> DEFINE c == [val |-> v, late |-> FALSE]
               x == [dir.audit EXCEPT ![form[t].arg] = c]
    <3>2. \A d \in Dns : x[d] = c \/ x[d] = dir.audit[d]
      BY <1>1 DEF Dirs
    <3>3. c # Absent
      BY DEF Absent, None
    <3>4. dir' = [dir EXCEPT !.audit = x]
      BY <3>1
    <3> HIDE DEF c, x
    <3>5. dir'.audit = x
      BY <1>1, <3>4 DEF Dirs
    <3>6. QED BY <3>2, <3>3, <3>5
  <2>2. QED BY <2>1, DirKept DEF Flushes
<1>5. QED BY <1>2, <1>3, <1>4

(* A flush is told to all threads that have found a key. *)
LEMMA FlushTold ==
  ASSUME TInv, NEW t \in Threads, Flushes(t)
  PROVE  \A u \in Threads \ {t} : AtKey(u) => u \in past'.since
<1> DEFINE m == Meanwhile(t)
<1>1. m \in Pasts /\ m.since = past.since \union {u \in Threads \ {t} : AtKey(u)}
  BY MeanwhileIs
<1>2. past' = [m EXCEPT !.denied = FALSE] \/ past' = [m EXCEPT !.flushed = dir.version] \/ past' = m
  BY DEF Flushes, FlushDns, FlushSchema, FlushAudit
<1> HIDE DEF m
<1>3. past'.since = m.since
  BY <1>1, <1>2 DEF Pasts
<1>4. QED BY <1>1, <1>3

(* Each step keeps what KeyInv says of every thread. *)
LEMMA KeyStep ==
  ASSUME CachesAssumption, TInv, KeyInv, [Next]_vars
  PROVE  KeyInv'
<1>1. dir \in Dirs
  BY DEF TInv, Typed
<1>2. CASE UNCHANGED vars
  BY <1>2 DEF vars, KeyInv, KeyThere
<1>3. CASE ServerChanges \/ Expires
  <2>1. dir'.dns = dir.dns /\ dir'.cached = dir.cached /\ dir'.audit = dir.audit
        /\ UNCHANGED <<pc, form, past>>
    BY <1>3, OutsideIs
  <2>2. QED BY <2>1 DEF KeyInv, KeyThere
<1>4. ASSUME NEW t \in Threads, Thread(t) PROVE KeyInv'
  <2>1. PhaseOK(t) /\ form[t] \in Ops
    BY ThreadTypes
  <2>2. \A u \in Threads \ {t} : pc'[u] = pc[u] /\ form'[u] = form[u] /\ (u \in past.since => u \in past'.since)
    BY <1>4, ThreadStep, PastKept DEF Same
  <2>3. \A u \in Threads \ {t} : u \in Threads /\ form[u] \in Ops /\ PhaseOK(u)
    BY ThreadTypes
  <2>4. \A u \in Threads \ {t} : KeyThere(u)'
    <3>1. CASE Flushes(t)
      <4>1. \A u \in Threads \ {t} : AtKey(u) => u \in past'.since
        BY <3>1, FlushTold
      <4>2. QED BY <2>2, <4>1 DEF KeyInv, KeyThere, AtKey
    <3>2. CASE ~Flushes(t)
      <4>1. \A u \in Threads \ {t} : pc[u] \in {"index dn", "index audit"} => form[u].arg \in Dns
        BY <2>3, OpsArg DEF PhaseOK
      <4>2. /\ \A d \in Dns : dir.dns[d] # Absent => dir'.dns[d] # Absent
            /\ dir.cached => dir'.cached
            /\ \A d \in Dns : dir.audit[d] # Absent => dir'.audit[d] # Absent
        BY <1>4, <3>2, KeysStay
      <4>3. QED BY <2>2, <4>1, <4>2 DEF KeyInv, KeyThere
    <3>3. QED BY <3>1, <3>2
  <2>5. KeyThere(t)'
    <3>1. CASE TestDn(t)
      BY <3>1 DEF TestDn, KeyInv, KeyThere, Goto, TInv, Typed
    <3>2. CASE IndexDn(t)
      BY <3>2 DEF IndexDn, KeyInv, KeyThere, Goto, TInv, Typed
    <3>3. CASE TestSchema(t)
      BY <3>3 DEF TestSchema, KeyInv, KeyThere, Finish, Return, Goto, TInv, Typed
    <3>4. CASE IndexSchema(t)
      BY <3>4 DEF IndexSchema, KeyInv, KeyThere, Finish, Return, Goto, TInv, Typed
    <3>5. CASE TestAudit(t)
      BY <3>5 DEF TestAudit, InAudit, KeyInv, KeyThere, Goto, TInv, Typed
    <3>6. CASE IndexAudit(t)
      BY <3>6 DEF IndexAudit, KeyInv, KeyThere, Return, Goto, TInv, Typed
    <3>7. CASE \/ Begin(t) \/ Again(t) \/ SearchDn(t) \/ KeepDn(t) \/ StoreDn(t) \/ ReadSchema(t)
               \/ KeepSchema(t) \/ StoreSchema(t)
               \/ StoreAudit(t) \/ FlushDns(t) \/ FlushSchema(t) \/ FlushAudit(t) \/ FlushResults(t)
               \/ GetCtrls(t) \/ SetCtrls(t) \/ ShowParams(t) \/ ReadList(t) \/ Send(t)
      <4>1. pc'[t] \notin {"KeyError", "index dn", "index schema", "index audit"}
        BY <3>7 DEF Begin, Again, SearchDn, KeepDn, Found, StoreDn, ReadSchema, KeepSchema, StoreSchema, Finish,
          StoreAudit, FlushDns, FlushSchema, FlushAudit, FlushResults, GetCtrls, SetCtrls, ShowParams, ReadList,
          Send, Return, Goto, TInv, Typed
      <4>2. QED BY <4>1 DEF KeyThere
    <3>8. QED BY <1>4, <3>1, <3>2, <3>3, <3>4, <3>5, <3>6, <3>7 DEF Thread
  <2>6. QED BY <2>4, <2>5 DEF KeyInv
<1>5. QED BY <1>2, <1>3, <1>4 DEF Next

(* A request ends with KeyError only if another one has flushed the caches   *)
(* between its test and its use of a key.                                     *)
THEOREM KeyErrorJustified ==
  ASSUME CachesAssumption
  PROVE  Spec => []KeyErrorOnlyByFlush
<1>1. Init => KeyInv
  BY DEF Init, KeyInv, KeyThere
<1>2. TInv /\ KeyInv /\ [Next]_vars => KeyInv'
  BY KeyStep
<1>3. KeyInv => KeyErrorOnlyByFlush
  BY DEF KeyInv, KeyThere, KeyErrorOnlyByFlush
<1>4. QED BY Types, <1>1, <1>2, <1>3, PTL DEF Spec

-----------------------------------------------------------------------------
(* The controls.  While no two requests change controls at a time, the one   *)
(* that is half way through the methods of its control has set those behind    *)
(* it, and those ahead, and all other controls, are as last wanted.            *)

Toggling(t) == Busy(t) /\ Toggles(t)

Settled(c) == \A m \in Methods : c \in dir.ctrls[m] <=> (m \in MethodsOf[c] /\ c \in past.wanted)

Halfway(t) ==
  /\ \A m \in Methods :
       form[t].arg \in dir.ctrls[m] <=>
         /\ m \in MethodsOf[form[t].arg]
         /\ IF m \in work[t].todo THEN form[t].arg \in past.wanted ELSE form[t].op = "enable"
  /\ pc[t] = "set" => work[t].copy = dir.ctrls[work[t].val]

CtrlInv ==
  past.clean =>
    /\ \A t, u \in Threads : Toggling(t) /\ Toggling(u) => t = u
    /\ \A c \in Oids : (\A t \in Threads : Toggling(t) => form[t].arg # c) => Settled(c)
    /\ \A t \in Threads : Toggling(t) => Halfway(t)

(* The locals that a request begins with, and what the others are told. *)
LEMMA BeginIs ==
  ASSUME TInv, NEW t \in Threads, Begin(t)
  PROVE  /\ UNCHANGED <<form, dir>>
         /\ pc'[t] \in {"test dn", "test audit", "flush dn", "list", "get"}
         /\ pc'[t] = "get" <=> Toggles(t)
         /\ Toggles(t) => work'[t].todo = MethodsOf[form[t].arg]
         /\ form[t].op = "send" => work'[t].lists = Lists(form[t].arg)
         /\ work'[t].copy = {}
         /\ pc'[t] = "list" => (work'[t].late \/ \A u \in Threads : ~Toggling(u))
         /\ past'.clean => (Toggles(t) => \A u \in Threads : ~Toggling(u))
         /\ \A u \in Threads \ {t} : Toggles(t) /\ pc[u] \in {"list", "send"} => work'[u].late
<1> DEFINE alone == \A u \in Threads : ~(Busy(u) /\ Toggles(u))
           l == form[t].op = "send" /\ ~alone
           todo == IF Toggles(t) THEN MethodsOf[form[t].arg] ELSE {}
           lists == IF form[t].op = "send" THEN Lists(form[t].arg) ELSE <<>>
           c == past.clean /\ (Toggles(t) => alone)
           b(u) == work[u].late \/ (Toggles(t) /\ pc[u] \in {"list", "send"})
<1>1. past \in Pasts /\ form[t] \in Ops /\ \A u \in Threads : work[u] \in Works
  BY ThreadTypes
<1>2. UNCHANGED <<form, dir>>
  BY DEF Begin
<1>3. /\ pc'[t] \in {"test dn", "test audit", "flush dn", "list", "get"}
      /\ pc'[t] = "get" <=> Toggles(t)
      /\ pc'[t] = "list" => form[t].op = "send"
  BY <1>1, OpsArg DEF Begin, Goto, Toggles, TInv, Typed
<1>4. work'[t] = [NoLocals EXCEPT !.todo = todo, !.lists = lists, !.late = l]
  BY Zenon DEF Begin
<1>5. past' = [past EXCEPT !.since = past.since \ {t}, !.clean = c]
  BY Zenon DEF Begin
<1>6. \A u \in Threads \ {t} : work'[u] = [work[u] EXCEPT !.late = b(u)]
  BY Zenon DEF Begin
<1>7. /\ l \/ form[t].op # "send" \/ alone
      /\ c => (Toggles(t) => alone)
      /\ \A u \in Threads \ {t} : Toggles(t) /\ pc[u] \in {"list", "send"} => b(u)
      /\ Toggles(t) => todo = MethodsOf[form[t].arg]
      /\ form[t].op = "send" => lists = Lists(form[t].arg)
  BY Zenon
<1> HIDE DEF l, c, b, todo, lists
<1>8. work'[t].todo = todo /\ work'[t].lists = lists /\ work'[t].late = l /\ work'[t].copy = {}
  BY <1>4 DEF NoLocals
<1>9. past'.clean = c
  BY <1>1, <1>5 DEF Pasts
<1>10. \A u \in Threads \ {t} : work'[u].late = b(u)
  BY <1>1, <1>6 DEF Works
<1>11. alone => \A u \in Threads : ~Toggling(u)
  BY DEF Toggling
<1> HIDE DEF alone
<1>12. QED BY <1>2, <1>3, <1>7, <1>8, <1>9, <1>10, <1>11

(* A request that changes no controls leaves them as they are. *)
LEMMA CtrlKept ==
  ASSUME TInv, TInv', CtrlInv, NEW t \in Threads, ~Toggling(t), ~Toggling(t)',
         past'.clean => past.clean, dir'.ctrls = dir.ctrls, past'.wanted = past.wanted,
         \A u \in Threads \ {t} : Same(u)
  PROVE  CtrlInv'
<1>1. \A u \in Threads : /\ Toggling(u)' = Toggling(u)
                         /\ Toggling(u) => form'[u] = form[u]
  BY DEF Toggling, Busy, Toggles, Same
<1>2. \A c : Settled(c) => Settled(c)'
  BY DEF Settled
<1>3. \A u \in Threads : Toggling(u) /\ Halfway(u) => Halfway(u)'
  BY DEF Halfway, Same
<1>4. QED BY <1>1, <1>2, <1>3 DEF CtrlInv

(* Each step keeps what CtrlInv says of the controls. *)
LEMMA CtrlStep ==
  ASSUME CachesAssumption, TInv, CtrlInv, [Next]_vars
  PROVE  CtrlInv'
<1>1. dir \in Dirs /\ past \in Pasts /\ TInv'
  BY TypeStep DEF TInv, Typed
<1>2. CASE UNCHANGED vars
  BY <1>2 DEF vars, CtrlInv, Settled, Halfway, Toggling, Busy, Toggles
<1>3. CASE ServerChanges \/ Expires
  <2>1. dir'.ctrls = dir.ctrls /\ UNCHANGED <<pc, form, work, past>>
    BY <1>3, OutsideIs
  <2>2. QED BY <2>1 DEF CtrlInv, Settled, Halfway, Toggling, Busy, Toggles
<1>4. ASSUME NEW t \in Threads, Thread(t) PROVE CtrlInv'
  <2> SUFFICES ASSUME past'.clean PROVE CtrlInv'
    BY DEF CtrlInv
  <2>1. past.clean /\ PhaseOK(t) /\ PhaseOK(t)' /\ form[t] \in Ops /\ work[t] \in Works
    BY <1>1, <1>4, ThreadTypes, PastKept DEF TInv
  <2>2. \A u \in Threads \ {t} : Same(u)
    BY <1>4, ThreadStep
  <2>3. \A u \in Threads \ {t} : (Toggling(u)' = Toggling(u)) /\ form'[u] = form[u]
    BY <2>2 DEF Same, Toggling, Busy, Toggles
  <2>4. CASE Begin(t) /\ Toggles(t)
    <3>1. \A u \in Threads : ~Toggling(u)
      BY <2>4, BeginIs
    <3>2. dir' = dir /\ form' = form /\ past'.wanted = past.wanted
      BY <1>4, <2>4, BeginIs, PastKept DEF ShowParams, Begin
    <3>3. pc'[t] = "get" /\ work'[t].todo = MethodsOf[form[t].arg] /\ form[t].arg \in Oids
      BY <2>1, <2>4, BeginIs, OpsArg DEF Toggles
    <3>4. \A c \in Oids : Settled(c)
      BY <2>1, <3>1 DEF CtrlInv
    <3>5. \A c \in Oids : Settled(c)'
      BY <3>2, <3>4 DEF Settled
    <3>6. Halfway(t)'
      BY <3>2, <3>3, <3>4 DEF Settled, Halfway
    <3>7. \A u \in Threads \ {t} : ~Toggling(u)'
      BY <2>3, <3>1
    <3>8. QED BY <3>5, <3>6, <3>7 DEF CtrlInv
  <2>5. CASE GetCtrls(t)
    <3>1. PICK m \in work[t].todo : work' = [work EXCEPT ![t].val = m, ![t].copy = dir.ctrls[m]]
      BY <2>5 DEF GetCtrls
    <3>2. pc'[t] = "set" /\ UNCHANGED <<form, dir, past>> /\ Toggling(t)
      BY <2>1, <2>5 DEF GetCtrls, Goto, Toggling, PhaseOK, Busy, TInv, Typed
    <3> DEFINE w == [work[t] EXCEPT !.val = m, !.copy = dir.ctrls[m]]
    <3>3. work'[t] = w
      BY <3>1 DEF TInv, Typed
    <3>4. w.val = m /\ w.copy = dir.ctrls[m] /\ w.todo = work[t].todo
      BY <2>1 DEF Works
    <3> HIDE DEF w
    <3>5. Toggling(t)'
      BY <3>2 DEF Toggling, Busy, Toggles
    <3>6. Halfway(t)'
      BY <2>1, <3>2, <3>3, <3>4 DEF CtrlInv, Halfway
    <3>7. \A u \in Threads \ {t} : ~Toggling(u)
      BY <2>1, <3>2 DEF CtrlInv
    <3>8. \A c \in Oids : (Settled(c) => Settled(c)')
      BY <3>2 DEF Settled
    <3>9. QED BY <2>1, <2>3, <3>2, <3>5, <3>6, <3>7, <3>8 DEF CtrlInv
  <2>6. CASE SetCtrls(t)
    <3> DEFINE a == form[t].arg
               m == work[t].val
               s == WithControl(t, work[t].copy)
               x == [dir.ctrls EXCEPT ![m] = s]
               w == [work[t] EXCEPT !.val = None, !.copy = {}, !.todo = Todo(t)]
    <3>1. pc[t] = "set" /\ pc'[t] = "get" /\ UNCHANGED <<form, past>>
      BY <2>6 DEF SetCtrls, Goto, TInv, Typed
    <3>2. Toggling(t) /\ Toggling(t)' /\ m \in work[t].todo /\ m \in MethodsOf[a] /\ m \in Methods
          /\ a \in Oids
      BY <2>1, <3>1, OpsArg DEF Toggling, PhaseOK, Busy, Toggles, Works
    <3>3. Halfway(t) /\ work[t].copy = dir.ctrls[m]
      BY <2>1, <3>1, <3>2 DEF CtrlInv, Halfway
    <3>4. a \in s <=> form[t].op = "enable"
      BY DEF WithControl
    <3>5. \A c \in Oids \ {a} : c \in s <=> c \in dir.ctrls[m]
      BY <3>3 DEF WithControl
    <3>6. dir' = [dir EXCEPT !.ctrls = x] /\ work'[t] = w
      BY <2>6 DEF SetCtrls, TInv, Typed
    <3>7. w.todo = work[t].todo \ {m}
      BY <2>1 DEF Works, Todo
    <3>8. x[m] = s /\ \A n \in Methods \ {m} : x[n] = dir.ctrls[n]
      BY <1>1, <3>2 DEF Dirs
    <3> HIDE DEF s, x, w
    <3>9. dir'.ctrls = x
      BY <1>1, <3>6 DEF Dirs
    <3>10. Halfway(t)'
      BY <3>1, <3>2, <3>3, <3>4, <3>6, <3>7, <3>8, <3>9 DEF Halfway
    <3>11. \A c \in Oids \ {a} : Settled(c) => Settled(c)'
      BY <3>1, <3>5, <3>8, <3>9 DEF Settled
    <3>12. \A u \in Threads \ {t} : ~Toggling(u)
      BY <2>1, <3>2 DEF CtrlInv
    <3>13. \A c \in Oids \ {a} : Settled(c)
      BY <2>1, <3>12 DEF CtrlInv
    <3>14. \A u \in Threads \ {t} : ~Toggling(u)'
      BY <2>3, <3>12
    <3>15. \A c \in Oids \ {a} : Settled(c)'
      BY <3>11, <3>13
    <3>16. form'[t].arg = a
      BY <3>1
    <3>17. QED BY <3>2, <3>10, <3>14, <3>15, <3>16 DEF CtrlInv
  <2>7. CASE ShowParams(t)
    <3> DEFINE a == form[t].arg
               v == WithControl(t, past.wanted)
    <3>1. pc[t] = "get" /\ work[t].todo = {} /\ past' = [past EXCEPT !.wanted = v] /\ UNCHANGED <<form, dir>>
          /\ pc'[t] = "end"
      BY <2>7 DEF ShowParams, Return, Goto, TInv, Typed
    <3>2. Toggling(t) /\ ~Toggling(t)' /\ a \in Oids
      BY <2>1, <3>1, OpsArg DEF Toggling, PhaseOK, Busy, Toggles
    <3>3. a \in v <=> form[t].op = "enable"
      BY DEF WithControl
    <3>4. \A c \in Oids \ {a} : c \in v <=> c \in past.wanted
      BY DEF WithControl
    <3> HIDE DEF v
    <3>5. past'.wanted = v
      BY <1>1, <3>1 DEF Pasts
    <3>6. \A c \in Oids : c = a => Settled(c)'
      BY <2>1, <3>1, <3>2, <3>3, <3>5 DEF CtrlInv, Halfway, Settled
    <3>7. \A u \in Threads \ {t} : ~Toggling(u)
      BY <2>1, <3>2 DEF CtrlInv
    <3>8. \A c \in Oids \ {a} : Settled(c)
      BY <2>1, <3>7 DEF CtrlInv
    <3>9. \A c \in Oids \ {a} : Settled(c)'
      BY <3>1, <3>4, <3>5, <3>8 DEF Settled
    <3>10. \A u \in Threads : ~Toggling(u)'
      BY <2>3, <3>2, <3>7
    <3>11. \A c \in Oids : Settled(c)'
      BY <3>6, <3>9
    <3>12. QED BY <3>10, <3>11 DEF CtrlInv
  <2>8. CASE ~(Begin(t) /\ Toggles(t)) /\ ~GetCtrls(t) /\ ~SetCtrls(t) /\ ~ShowParams(t)
    <3>1. pc[t] \notin {"get", "set"}
      BY <1>4, <2>8 DEF Thread, Begin, Again, TestDn, IndexDn, SearchDn, KeepDn, Found, StoreDn, TestSchema,
        IndexSchema, ReadSchema, KeepSchema, StoreSchema, Finish, TestAudit, IndexAudit, StoreAudit,
        FlushDns, FlushSchema, FlushAudit, FlushResults,
        ReadList, Send, Busy
    <3>2. pc'[t] \notin {"get", "set"}
      <4>1. CASE Begin(t)
        BY <2>8, <4>1, BeginIs
      <4>2. CASE ~Begin(t)
        BY <1>4, <2>8, <4>2 DEF Thread, Again, TestDn, IndexDn, SearchDn, KeepDn, Found, StoreDn, TestSchema,
          IndexSchema, ReadSchema, KeepSchema, StoreSchema, Finish, TestAudit, IndexAudit, StoreAudit,
          FlushDns, FlushSchema, FlushAudit, FlushResults,
          ReadList, Send, Return, Goto, TInv, Typed
      <4>3. QED BY <4>1, <4>2
    <3>3. ~Toggling(t) /\ ~Toggling(t)'
      BY <2>1, <3>1, <3>2 DEF PhaseOK, Toggling
    <3>4. dir'.ctrls = dir.ctrls /\ past'.wanted = past.wanted
      BY <1>4, <2>8, DirKept, PastKept
    <3>5. QED BY <1>1, <2>1, <2>2, <3>3, <3>4, CtrlKept
  <2>9. QED BY <2>4, <2>5, <2>6, <2>7, <2>8
<1>5. QED BY <1>2, <1>3, <1>4 DEF Next

(* If no two requests change controls at a time, each control is sent with   *)
(* all of its methods or with none, as the last request wanted it.             *)
THEOREM ControlsCorrect ==
  ASSUME CachesAssumption
  PROVE  Spec => []ControlsAsWanted
<1>1. Init => CtrlInv
  <2> SUFFICES ASSUME Init PROVE CtrlInv
    OBVIOUS
  <2>1. \A t \in Threads : ~Toggling(t)
    BY DEF Init, Toggling, Busy
  <2>2. past.wanted = {} /\ \A m \in Methods : dir.ctrls[m] = {}
    BY DEF Init, NoPast
  <2>3. QED BY <2>1, <2>2 DEF CtrlInv, Settled
<1>2. TInv /\ CtrlInv /\ [Next]_vars => CtrlInv'
  BY CtrlStep
<1>3. CtrlInv => ControlsAsWanted
  BY DEF CtrlInv, Settled, Toggling, ControlsAsWanted
<1>4. QED BY Types, <1>1, <1>2, <1>3, PTL DEF Spec

-----------------------------------------------------------------------------
(* The controls a request is sent with.  Unless controls are changed         *)
(* meanwhile, each that is meant for the request has been taken, or one of its *)
(* methods is a list still ahead.                                              *)

Meant(t) == {c \in past.wanted : MethodsOf[c] \intersect ListSet(form[t].arg) # {}}
Ahead(t) == {work[t].lists[i] : i \in DOMAIN work[t].lists}
Sending(t) == pc[t] \in {"list", "send"}

ListsOK(t) ==
  /\ pc[t] = "send" => work[t].lists = <<>>
  /\ Sending(t) => Ahead(t) \subseteq ListSet(form[t].arg)

Collected(t) ==
  (past.clean /\ Sending(t) /\ ~work[t].late) =>
    /\ \A u \in Threads : ~Toggling(u)
    /\ work[t].copy \subseteq Meant(t)
    /\ \A c \in Meant(t) : c \in work[t].copy \/ MethodsOf[c] \intersect Ahead(t) # {}

SendInv == \A t \in Threads : ListsOK(t) /\ Collected(t)

(* The members of a sequence are its head and those of its tail. *)
LEMMA HeadTail ==
  ASSUME NEW S, NEW s \in Seq(S), s # <<>>
  PROVE  {s[i] : i \in DOMAIN s} = {Head(s)} \union {Tail(s)[i] : i \in DOMAIN Tail(s)}
<1>1. Len(s) \in Nat /\ Len(s) # 0 /\ DOMAIN s = 1..Len(s) /\ Head(s) = s[1]
  OBVIOUS
<1>2. DOMAIN Tail(s) = 1..(Len(s) - 1) /\ \A i \in 1..(Len(s) - 1) : Tail(s)[i] = s[i + 1]
  OBVIOUS
<1>3. \A i \in 1..Len(s) : i = 1 \/ (i - 1 \in 1..(Len(s) - 1) /\ s[i] = Tail(s)[i - 1])
  BY <1>1, <1>2
<1>4. \A i \in 1..(Len(s) - 1) : i + 1 \in 1..Len(s)
  BY <1>1
<1>5. 1 \in 1..Len(s)
  BY <1>1
<1>6. {s[i] : i \in DOMAIN s} \subseteq {Head(s)} \union {Tail(s)[i] : i \in DOMAIN Tail(s)}
  BY <1>1, <1>2, <1>3
<1>7. {Head(s)} \union {Tail(s)[i] : i \in DOMAIN Tail(s)} \subseteq {s[i] : i \in DOMAIN s}
  BY <1>1, <1>2, <1>4, <1>5
<1>8. QED BY <1>6, <1>7

(* Reading one list more. *)
LEMMA ReadOne ==
  ASSUME CachesAssumption, TInv, CtrlInv, SendInv, NEW t \in Threads, ReadList(t)
  PROVE  ListsOK(t)' /\ Collected(t)'
<1> DEFINE lists == work[t].lists
           rest == Tail(lists)
           k == work[t].copy \union dir.ctrls[Head(lists)]
           w == [work[t] EXCEPT !.copy = k, !.lists = rest]
<1>1. dir \in Dirs /\ past \in Pasts /\ form[t] \in Ops /\ work[t] \in Works /\ PhaseOK(t)
  BY ThreadTypes
<1>2. pc[t] = "list" /\ lists \in Seq(Methods) /\ lists # <<>>
  BY <1>1 DEF ReadList, PhaseOK, Works
<1>3. Head(lists) \in Methods /\ {lists[i] : i \in DOMAIN lists} = {Head(lists)} \union {rest[i] : i \in DOMAIN rest}
  <2>1. \A s \in Seq(Methods) : s # <<>> =>
           {s[i] : i \in DOMAIN s} = {Head(s)} \union {Tail(s)[i] : i \in DOMAIN Tail(s)}
    BY HeadTail
  <2> HIDE DEF lists
  <2>2. {lists[i] : i \in DOMAIN lists} = {Head(lists)} \union {Tail(lists)[i] : i \in DOMAIN Tail(lists)}
    BY <1>2, <2>1, Zenon
  <2>3. Head(lists) \in Methods
    BY <1>2
  <2>4. QED BY <2>2, <2>3
<1>4. work'[t] = w /\ UNCHANGED <<form, dir, past>>
  BY DEF ReadList, TInv, Typed
<1>5. pc'[t] = IF rest = <<>> THEN "send" ELSE "list"
  BY DEF ReadList, Goto, TInv, Typed
<1>6. \A u \in Threads : Toggling(u)' => Toggling(u)
  BY DEF ReadList, Goto, Toggling, Busy, Toggles, TInv, Typed
<1>7. Ahead(t) = {Head(lists)} \union {rest[i] : i \in DOMAIN rest}
  BY <1>3 DEF Ahead
<1> HIDE DEF rest, k
<1>8. w.copy = k /\ w.lists = rest /\ w.late = work[t].late
  BY <1>1 DEF Works
<1> HIDE DEF w
<1>9. Ahead(t)' = {rest[i] : i \in DOMAIN rest}
  BY <1>4, <1>8 DEF Ahead
<1>10. Ahead(t) = {Head(lists)} \union Ahead(t)' /\ Ahead(t) \subseteq ListSet(form[t].arg)
  BY <1>2, <1>7, <1>9 DEF SendInv, ListsOK, Sending
<1>11. ListsOK(t)'
  BY <1>4, <1>5, <1>8, <1>10 DEF ListsOK, Sending
<1>12. Collected(t)'
  <2> SUFFICES ASSUME past.clean, ~work[t].late
               PROVE  /\ \A u \in Threads : ~Toggling(u)'
                      /\ k \subseteq Meant(t)
                      /\ \A c \in Meant(t) : c \in k \/ MethodsOf[c] \intersect Ahead(t)' # {}
    BY <1>4, <1>8 DEF Collected, Meant
  <2>1. /\ \A u \in Threads : ~Toggling(u)
        /\ work[t].copy \subseteq Meant(t)
        /\ \A c \in Meant(t) : c \in work[t].copy \/ MethodsOf[c] \intersect Ahead(t) # {}
    BY <1>2 DEF SendInv, Collected, Sending
  <2>2. \A c \in Oids : Settled(c)
    BY <2>1 DEF CtrlInv
  <2>3. dir.ctrls[Head(lists)] \subseteq Oids /\ past.wanted \subseteq Oids
    BY <1>1, <1>3 DEF Dirs, Pasts
  <2>4. \A c \in Oids : c \in dir.ctrls[Head(lists)] <=> Head(lists) \in MethodsOf[c] /\ c \in past.wanted
    BY <1>3, <2>2 DEF Settled
  <2>5. k \subseteq Meant(t)
    BY <1>10, <2>1, <2>3, <2>4 DEF Meant, k
  <2>6. \A c \in Meant(t) : c \in k \/ MethodsOf[c] \intersect Ahead(t)' # {}
    BY <1>10, <2>1, <2>3, <2>4 DEF Meant, k
  <2>7. QED BY <1>6, <2>1, <2>5, <2>6
<1>13. QED BY <1>11, <1>12

(* A request that begins has all its lists ahead. *)
LEMMA BeginSending ==
  ASSUME CachesAssumption, TInv, NEW t \in Threads, Begin(t)
  PROVE  ListsOK(t)' /\ Collected(t)'
<1>1. form[t] \in Ops /\ PhaseOK(t)' /\ UNCHANGED form
  BY ThreadTypes, BeginType, BeginIs
<1>2. pc'[t] # "send"
  BY BeginIs
<1>3. CASE pc'[t] # "list"
  BY <1>2, <1>3 DEF ListsOK, Collected, Sending
<1>4. CASE pc'[t] = "list"
  <2>1. form[t].op = "send"
    BY <1>1, <1>4 DEF PhaseOK
  <2>2. work'[t].lists = Lists(form[t].arg) /\ work'[t].copy = {}
        /\ (work'[t].late \/ \A u \in Threads : ~Toggling(u))
    BY <1>4, <2>1, BeginIs
  <2>3. Ahead(t)' = ListSet(form[t].arg)
    BY <2>2 DEF Ahead, ListSet
  <2>4. \A u \in Threads \ {t} : Toggling(u)' = Toggling(u)
    BY BeginType DEF Same, Toggling, Busy, Toggles
  <2>5. ~Toggling(t)'
    BY <1>1, <2>1 DEF Toggling, Toggles
  <2>6. \A c \in Meant(t)' : MethodsOf[c] \intersect Ahead(t)' # {}
    BY <1>1, <2>3 DEF Meant
  <2>7. QED BY <1>1, <1>2, <2>2, <2>3, <2>4, <2>5, <2>6 DEF ListsOK, Collected
<1>5. QED BY <1>3, <1>4

(* Each step keeps what SendInv says of every thread. *)
LEMMA SendStep ==
  ASSUME CachesAssumption, TInv, CtrlInv, SendInv, [Next]_vars
  PROVE  SendInv'
<1>1. CASE UNCHANGED vars
  BY <1>1 DEF vars, SendInv, ListsOK, Collected, Sending, Meant, Ahead, Toggling, Busy, Toggles
<1>2. CASE ServerChanges \/ Expires
  <2>1. UNCHANGED <<pc, form, work, past>>
    BY <1>2, OutsideIs
  <2>2. QED BY <2>1 DEF SendInv, ListsOK, Collected, Sending, Meant, Ahead, Toggling, Busy, Toggles
<1>3. ASSUME NEW t \in Threads, Thread(t) PROVE SendInv'
  <2>1. PhaseOK(t) /\ TInv'
    BY <1>3, ThreadTypes, ThreadStep
  <2>2. \A u \in Threads \ {t} : Same(u) /\ (work[u].late => work'[u].late)
    BY <1>3, ThreadStep, LateGrows
  <2>3. ListsOK(t)' /\ Collected(t)'
    <3>1. CASE Begin(t)
      BY <3>1, BeginSending
    <3>2. CASE ReadList(t)
      BY <3>2, ReadOne
    <3>3. CASE ~Begin(t) /\ ~ReadList(t)
      <4>1. pc'[t] \notin {"list", "send"}
        BY <1>3, <3>3 DEF Thread, Again, TestDn, IndexDn, SearchDn, KeepDn, Found, StoreDn, TestSchema,
          IndexSchema, ReadSchema, KeepSchema, StoreSchema, Finish, TestAudit, IndexAudit, StoreAudit,
          FlushDns, FlushSchema, FlushAudit, FlushResults,
          GetCtrls, SetCtrls, ShowParams, Send, Return, Goto, TInv, Typed
      <4>2. QED BY <4>1 DEF ListsOK, Collected, Sending
    <3>4. QED BY <3>1, <3>2, <3>3
  <2>4. ASSUME NEW u \in Threads \ {t} PROVE ListsOK(u)' /\ Collected(u)'
    <3>1. ListsOK(u) /\ Collected(u) /\ Ahead(u)' = Ahead(u) /\ pc'[u] = pc[u] /\ form'[u] = form[u]
      BY <2>2 DEF SendInv, Same, Ahead
    <3>2. ListsOK(u)'
      BY <2>2, <3>1 DEF ListsOK, Sending, Same
    <3>3. ASSUME past'.clean, Sending(u), ~work'[u].late
          PROVE  past'.wanted = past.wanted /\ \A v \in Threads : ~Toggling(v)'
      <4>1. \A v \in Threads : ~Toggling(v)
        BY <1>3, <2>2, <3>1, <3>3, PastKept DEF Collected
      <4>2. \A v \in Threads \ {t} : ~Toggling(v)'
        BY <2>2, <4>1 DEF Same, Toggling, Busy, Toggles
      <4>3. ~(Begin(t) /\ Toggles(t))
        BY <3>3, BeginIs DEF Sending
      <4>4. ~GetCtrls(t) /\ ~SetCtrls(t) /\ ~ShowParams(t)
        BY <2>1, <4>1 DEF GetCtrls, SetCtrls, ShowParams, PhaseOK, Toggling, Busy
      <4>5. pc'[t] \notin {"get", "set"}
        <5>1. CASE Begin(t)
          BY <4>3, <5>1, BeginIs
        <5>2. CASE ~Begin(t)
          BY <1>3, <4>4, <5>2 DEF Thread, Again, TestDn, IndexDn, SearchDn, KeepDn, Found, StoreDn, TestSchema,
            IndexSchema, ReadSchema, KeepSchema, StoreSchema, Finish, TestAudit, IndexAudit, StoreAudit,
            FlushDns, FlushSchema, FlushAudit, FlushResults,
            ReadList, Send, Return, Goto, TInv, Typed
        <5>3. QED BY <5>1, <5>2
      <4>6. ~Toggling(t)'
        BY <2>1, <4>5 DEF TInv, PhaseOK, Toggling
      <4>7. QED BY <1>3, <4>2, <4>4, <4>6, PastKept
    <3>4. past'.clean => past.clean
      BY <1>3, PastKept
    <3>5. Collected(u)'
      <4> SUFFICES ASSUME past'.clean, Sending(u), ~work'[u].late
                   PROVE  /\ \A v \in Threads : ~Toggling(v)'
                          /\ work'[u].copy \subseteq Meant(u)'
                          /\ \A c \in Meant(u)' : c \in work'[u].copy \/ MethodsOf[c] \intersect Ahead(u)' # {}
        BY <3>1 DEF Collected, Sending
      <4>1. Meant(u)' = Meant(u) /\ work'[u].copy = work[u].copy /\ ~work[u].late
        BY <2>2, <3>1, <3>3 DEF Meant, Same
      <4>2. QED BY <3>1, <3>3, <3>4, <4>1 DEF Collected
    <3>6. QED BY <3>2, <3>5
  <2>5. QED BY <2>3, <2>4 DEF SendInv
<1>4. QED BY <1>1, <1>2, <1>3 DEF Next

(* A request is sent with all controls that are enabled and meant for it,    *)
(* and no other, unless controls are changed meanwhile.                        *)
THEOREM SentCorrect ==
  ASSUME CachesAssumption
  PROVE  Spec => []SentAsWanted
<1>1. Init => CtrlInv /\ SendInv
  <2> SUFFICES ASSUME Init PROVE CtrlInv /\ SendInv
    OBVIOUS
  <2>1. \A t \in Threads : ~Toggling(t) /\ ~Sending(t) /\ pc[t] # "send"
    BY DEF Init, Toggling, Busy, Sending
  <2>2. past.wanted = {} /\ \A m \in Methods : dir.ctrls[m] = {}
    BY DEF Init, NoPast
  <2>3. QED BY <2>1, <2>2 DEF CtrlInv, Settled, SendInv, ListsOK, Collected
<1>2. TInv /\ CtrlInv /\ SendInv /\ [Next]_vars => CtrlInv' /\ SendInv'
  BY CtrlStep, SendStep
<1>3. TInv /\ SendInv => SentAsWanted
  <2> SUFFICES ASSUME TInv, SendInv, NEW t \in Threads, pc[t] = "send", past.clean, ~work[t].late
               PROVE  work[t].copy = Meant(t)
    BY DEF SentAsWanted, Meant
  <2>1. ListsOK(t) /\ Collected(t)
    BY DEF SendInv
  <2>2. Ahead(t) = {}
    BY <2>1 DEF ListsOK, Ahead
  <2>3. QED BY <2>1, <2>2 DEF Collected, Sending
<1>4. QED BY Types, <1>1, <1>2, <1>3, PTL DEF Spec
=============================================================================
