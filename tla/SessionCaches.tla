--------------------------- MODULE SessionCaches ---------------------------
(***************************************************************************)
(* What the requests of one session share in its LDAPSession besides the    *)
(* connection: the DN of the subschema for a DN, the parsed schema, the DN of *)
(* the audit log, what ldap0 itself keeps of the results of searches for some   *)
(* seconds, and the lists of controls from which those of each request are      *)
(* taken (ldapsession.py, app/params.py, flushing in app/conninfo.py).         *)
(*                                                                         *)
(* Each test, index, store and assignment is a step of its own.  All DNs have *)
(* the same subschema, if the server has one.  Left out: no connection and no   *)
(* DN, for which get_sub_schema() returns the default at once; the supplement.  *)
(***************************************************************************)
EXTENDS FiniteSets, Naturals, Sequences

CONSTANTS
  Threads,
  Dns,
  MethodsOf,    \* AVAILABLE_BOOLEAN_CONTROLS: the lists each control goes to
  Menus,        \* sets of requests that are sent in one behaviour
  MaxVersion    \* bound of the changes of the schema, for model checking

Oids == DOMAIN MethodsOf

(* The requests of MyLDAPObject, and the lists of req_ctrls each one takes its *)
(* controls from.                                                             *)
BindKinds == {"simple_bind", "sasl_interactive_bind_s"}
WriteKinds == {"add", "delete", "modify", "passwd", "rename"}
ReadKinds == {"compare", "search"}
Kinds == BindKinds \union WriteKinds \union ReadKinds \union {"abandon", "unbind"}
Methods == Kinds \union {"**all**", "**bind**", "**write**", "**read**"}

Lists(kind) ==
  <<"**all**">>
    \o (CASE kind \in BindKinds -> <<"**bind**">> [] kind \in WriteKinds -> <<"**write**">>
          [] kind \in ReadKinds -> <<"**read**">> [] OTHER -> <<>>)
    \o <<kind>>
ListSet(kind) == {Lists(kind)[i] : i \in DOMAIN Lists(kind)}

Root == "root DSE"

(* The lists that controls of AVAILABLE_BOOLEAN_CONTROLS go to. *)
MethodSets == {{"search"}, {"**all**"}, {"**write**"}, {"**read**"}, {"delete", "rename"}}

Ops == [op : {"schema", "audit"}, arg : Dns] \union [op : {"enable", "disable"}, arg : Oids]
       \union [op : {"send"}, arg : Kinds] \union {[op |-> "flush", arg |-> "all"]}

CachesAssumption ==
  /\ MaxVersion \in Nat
  /\ \A c \in Oids : MethodsOf[c] \in MethodSets
  /\ \A methods \in MethodSets, kind \in Kinds :      \* no control is sent twice
       methods \subseteq Methods /\ Cardinality(methods \intersect ListSet(kind)) <= 1
  /\ Menus \subseteq SUBSET Ops
  /\ Root \notin Dns

VARIABLES
  pc,      \* where each thread is
  form,    \* what its request is for
  dir,     \* the server, and the attributes of the LDAPSession
  work,    \* locals of each thread
  report,  \* what it has returned
  past     \* history, see below

vars == <<pc, form, dir, work, report, past>>

(* A key is absent, or has a value; "late" is history: the value was read   *)
(* before the last flush, or is from a result that ldap0 kept during one, and    *)
(* stored after it.                                                           *)
Absent == [val |-> "absent", late |-> FALSE]
NoSchema == [val |-> 0, late |-> FALSE]
NoAnswer == [val |-> "absent", version |-> 0, late |-> FALSE]
None == "None"
NoLocals == [val |-> None, late |-> FALSE, version |-> 0, todo |-> {}, lists |-> <<>>, copy |-> {}]
NoPast == [flushed |-> 0, denied |-> FALSE, since |-> {}, wanted |-> {}, clean |-> TRUE, menu |-> {}]

(* dns, cached with schema, and audit are the caches of the session; results *)
(* and answer, that for the schema, are ldap0's.                               *)
Init ==
  /\ pc \in [Threads -> {"begin"}]
  /\ \E menu \in Menus : form \in [Threads -> menu] /\ past = [NoPast EXCEPT !.menu = menu]
  /\ dir = [version |-> 0, dns |-> [d \in Dns |-> Absent], audit |-> [d \in Dns |-> Absent],
            schema |-> NoSchema, cached |-> FALSE,
            results |-> [d \in Dns \union {Root} |-> Absent], answer |-> NoAnswer,
            ctrls |-> [m \in Methods |-> {}]]
  /\ work = [t \in Threads |-> NoLocals]
  /\ report = [t \in Threads |-> "nothing"]

Goto(t, l) == pc' = [pc EXCEPT ![t] = l]
Return(t, what) == Goto(t, "end") /\ report' = [report EXCEPT ![t] = what]

ServerChanges ==
  /\ dir.version < MaxVersion /\ dir' = [dir EXCEPT !.version = @ + 1]
  /\ UNCHANGED <<pc, form, work, report, past>>

(* ldap0 forgets results after a while, and when something is written or a   *)
(* bind flushes its cache.                                                     *)
Expires ==
  /\ \/ \E d \in DOMAIN dir.results : dir' = [dir EXCEPT !.results[d] = Absent]
     \/ dir' = [dir EXCEPT !.answer = NoAnswer]
  /\ UNCHANGED <<pc, form, work, report, past>>

(* The next request of a thread.  past.since are threads that had found a key *)
(* when a cache was flushed; a toggle is alone if no other is under way.       *)
Toggles(t) == form[t].op \in {"enable", "disable"}
Busy(t) == pc[t] \notin {"begin", "end", "KeyError"}
Begin(t) ==
  /\ pc[t] = "begin"
  /\ Goto(t, CASE form[t].op = "schema" -> "test dn" [] form[t].op = "audit" -> "test audit"
               [] form[t].op = "flush" -> "flush dn" [] form[t].op = "send" -> "list" [] OTHER -> "get")
  /\ LET alone == \A u \in Threads : ~(Busy(u) /\ Toggles(u))
     IN /\ work' = [u \in Threads |->
                      IF u = t
                      THEN [NoLocals EXCEPT
                              !.todo = IF Toggles(t) THEN MethodsOf[form[t].arg] ELSE {},
                              !.lists = IF form[t].op = "send" THEN Lists(form[t].arg) ELSE <<>>,
                              !.late = form[t].op = "send" /\ ~alone]
                      ELSE [work[u] EXCEPT !.late = @ \/ (Toggles(t) /\ pc[u] \in {"list", "send"})]]
        /\ past' = [past EXCEPT !.since = @ \ {t}, !.clean = @ /\ (Toggles(t) => alone)]
  /\ UNCHANGED <<form, dir, report>>

Again(t) ==
  /\ ~Busy(t) /\ pc[t] # "begin"
  /\ Goto(t, "begin")
  /\ \E op \in past.menu : form' = [form EXCEPT ![t] = op]
  /\ report' = [report EXCEPT ![t] = "nothing"]
  /\ work' = [work EXCEPT ![t] = NoLocals]
  /\ UNCHANGED <<dir, past>>

-----------------------------------------------------------------------------
(* _get_sub_schema_dn() *)

TestDn(t) ==
  /\ pc[t] = "test dn"
  /\ Goto(t, IF dir.dns[form[t].arg] # Absent THEN "index dn" ELSE "search dn")
  /\ UNCHANGED <<form, dir, work, report, past>>

IndexDn(t) ==
  /\ pc[t] = "index dn"
  /\ LET c == dir.dns[form[t].arg]
     IN IF c = Absent THEN Goto(t, "KeyError") /\ UNCHANGED work
        ELSE Goto(t, "test schema") /\ work' = [work EXCEPT ![t].val = c.val, ![t].late = c.late]
  /\ UNCHANGED <<form, dir, report, past>>

(* search_subschemasubentry_s(), for the DN and if that finds nothing for the *)
(* root DSE: the result is one that ldap0 has kept, or the server is asked, which *)
(* fails or has no subschemaSubentry to tell or has it.  A flush that has begun   *)
(* may not have reached ldap0's results yet.                                   *)
Flushing == \E u \in Threads : pc[u] \in {"flush schema", "flush audit", "flush results"}

Key(t) == IF pc[t] \in {"search root", "keep root"} THEN Root ELSE form[t].arg
Found(t, val) == Goto(t, IF val = None /\ Key(t) # Root THEN "search root" ELSE "store dn")
Deny(denies) == past' = [past EXCEPT !.denied = @ \/ denies]

SearchDn(t) ==
  /\ pc[t] \in {"search dn", "search root"}
  /\ LET kept == dir.results[Key(t)]
     IN \/ /\ kept # Absent
           /\ Found(t, kept.val)
           /\ work' = [work EXCEPT ![t].val = kept.val, ![t].late = kept.late \/ Flushing]
           /\ UNCHANGED past
        \/ /\ kept = Absent
           /\ \E val \in {"subschema", None} :
                /\ \/ Goto(t, IF Key(t) = Root THEN "keep root" ELSE "keep dn")
                   \/ val = None /\ Found(t, val)
                /\ work' = [work EXCEPT ![t].val = val, ![t].late = FALSE]
                /\ Deny(val = None)
  /\ UNCHANGED <<form, dir, report>>

KeepDn(t) ==
  /\ pc[t] \in {"keep dn", "keep root"}
  /\ dir' = [dir EXCEPT !.results[Key(t)] = [val |-> work[t].val, late |-> work[t].late]]
  /\ Found(t, work[t].val)
  /\ UNCHANGED <<form, work, report, past>>

StoreDn(t) ==
  /\ pc[t] = "store dn"
  /\ Goto(t, "test schema")
  /\ dir' = [dir EXCEPT !.dns[form[t].arg] = [val |-> work[t].val, late |-> work[t].late]]
  /\ UNCHANGED <<form, work, report, past>>

(* get_sub_schema() *)
Finish(t, what) == Return(t, what) /\ work' = [work EXCEPT ![t] = NoLocals]

TestSchema(t) ==
  /\ pc[t] = "test schema"
  /\ IF work[t].val = None THEN Return(t, "default")
     ELSE Goto(t, IF dir.cached THEN "index schema" ELSE "read schema") /\ UNCHANGED report
  /\ work' = [work EXCEPT ![t] = NoLocals]
  /\ UNCHANGED <<form, dir, past>>

IndexSchema(t) ==
  /\ pc[t] = "index schema"
  /\ IF dir.cached THEN Finish(t, "schema") ELSE Goto(t, "KeyError") /\ UNCHANGED <<work, report>>
  /\ UNCHANGED <<form, dir, past>>

(* read_subschemasubentry_s(): ldap0's result, or the server's, which fails   *)
(* or gives a schema.  None is an entry that is not there, and as well one that  *)
(* SubSchema() will not parse.                                                *)
ReadSchema(t) ==
  /\ pc[t] = "read schema"
  /\ LET kept == dir.answer
     IN \/ /\ kept # NoAnswer
           /\ Goto(t, "store schema")
           /\ work' = [work EXCEPT ![t].val = kept.val, ![t].version = kept.version, ![t].late = kept.late \/ Flushing]
           /\ UNCHANGED <<past, report>>
        \/ /\ kept = NoAnswer
           /\ \E val \in {"subschema", None} :
                /\ work' = [work EXCEPT ![t].val = val, ![t].version = IF val = None THEN 0 ELSE dir.version,
                                       ![t].late = FALSE]
                /\ Deny(val = None)
           /\ Goto(t, "keep schema")
           /\ UNCHANGED report
        \/ kept = NoAnswer /\ Finish(t, "default") /\ Deny(TRUE)
  /\ UNCHANGED <<form, dir>>

KeepSchema(t) ==
  /\ pc[t] = "keep schema"
  /\ dir' = [dir EXCEPT !.answer = [val |-> work[t].val, version |-> work[t].version, late |-> work[t].late]]
  /\ Goto(t, "store schema")
  /\ UNCHANGED <<form, work, report, past>>

(* What was parsed is stored. *)
StoreSchema(t) ==
  /\ pc[t] = "store schema"
  /\ IF work[t].val = None THEN Finish(t, "default") /\ UNCHANGED dir
     ELSE /\ dir' = [dir EXCEPT !.cached = TRUE, !.schema = [val |-> work[t].version, late |-> work[t].late]]
          /\ Finish(t, "schema")
  /\ UNCHANGED <<form, past>>

-----------------------------------------------------------------------------
(* get_audit_context() *)

InAudit(d) == dir.audit[d] # Absent

TestAudit(t) ==
  /\ pc[t] = "test audit"
  /\ Goto(t, IF InAudit(form[t].arg) THEN "index audit" ELSE "store audit")
  /\ UNCHANGED <<form, dir, work, report, past>>

IndexAudit(t) ==
  /\ pc[t] = "index audit"
  /\ IF dir.audit[form[t].arg] = Absent THEN Goto(t, "KeyError") /\ UNCHANGED report
     ELSE Return(t, "audit")
  /\ UNCHANGED <<form, dir, work, past>>

(* The log may be known from a result that ldap0 has kept. *)
StoreAudit(t) ==
  /\ pc[t] = "store audit"
  /\ \E v \in {None, "log"} :
       dir' = [dir EXCEPT !.audit[form[t].arg] = [val |-> v, late |-> FALSE]]
  /\ Return(t, "audit")
  /\ UNCHANGED <<form, work, past>>

-----------------------------------------------------------------------------
(* flush_cache(): what was found before is forgotten, one attribute after    *)
(* the other, and ldap0's results last.  Values that other threads have in     *)
(* hand come late.                                                            *)

AtKey(t) == pc[t] \in {"index dn", "index schema", "index audit"}
Meanwhile(t) == [past EXCEPT !.since = @ \union {u \in Threads \ {t} : AtKey(u)}]
Late(t, ls) == [u \in Threads |-> IF u # t /\ pc[u] \in ls THEN [work[u] EXCEPT !.late = TRUE] ELSE work[u]]

(* flush_cache(); the mutant keeps one of the two dictionaries. *)
EmptyDns_Kept == dir.dns
EmptyDns == [d \in Dns |-> Absent]
FlushDns(t) ==
  /\ pc[t] = "flush dn"
  /\ dir' = [dir EXCEPT !.dns = EmptyDns]
  /\ work' = Late(t, {"keep dn", "keep root", "store dn", "test schema", "index schema", "read schema",
                      "keep schema", "store schema"})
  /\ past' = [Meanwhile(t) EXCEPT !.denied = FALSE]
  /\ Goto(t, "flush schema")
  /\ UNCHANGED <<form, report>>

SchemaKept == FALSE
FlushSchema(t) ==
  /\ pc[t] = "flush schema"
  /\ dir' = [dir EXCEPT !.cached = SchemaKept, !.schema = IF SchemaKept THEN @ ELSE NoSchema]
  /\ work' = Late(t, {"keep schema", "store schema"})
  /\ past' = [Meanwhile(t) EXCEPT !.flushed = dir.version]
  /\ Goto(t, "flush audit")
  /\ UNCHANGED <<form, report>>

FlushAudit(t) ==
  /\ pc[t] = "flush audit"
  /\ dir' = [dir EXCEPT !.audit = [d \in Dns |-> Absent]]
  /\ past' = Meanwhile(t)
  /\ Goto(t, "flush results")
  /\ UNCHANGED <<form, work, report>>

FlushResults(t) ==
  /\ pc[t] = "flush results"
  /\ dir' = [dir EXCEPT !.results = [d \in DOMAIN @ |-> Absent], !.answer = NoAnswer]
  /\ Return(t, "flushed")
  /\ UNCHANGED <<form, work, past>>

-----------------------------------------------------------------------------
(* params: add_server_control() and del_server_control() for each method    *)
(* take a copy of its controls, and assign the changed copy.  The mutant       *)
(* takes the control off the first method only.                               *)

WithControl(t, ctrls) == IF form[t].op = "enable" THEN ctrls \union {form[t].arg} ELSE ctrls \ {form[t].arg}

GetCtrls(t) ==
  /\ pc[t] = "get" /\ work[t].todo # {}
  /\ \E m \in work[t].todo : work' = [work EXCEPT ![t].val = m, ![t].copy = dir.ctrls[m]]
  /\ Goto(t, "set")
  /\ UNCHANGED <<form, dir, report, past>>

Todo_First(t) == IF form[t].op = "enable" THEN work[t].todo \ {work[t].val} ELSE {}
Todo(t) == work[t].todo \ {work[t].val}
SetCtrls(t) ==
  /\ pc[t] = "set"
  /\ dir' = [dir EXCEPT !.ctrls[work[t].val] = WithControl(t, work[t].copy)]
  /\ work' = [work EXCEPT ![t].val = None, ![t].copy = {}, ![t].todo = Todo(t)]
  /\ Goto(t, "get")
  /\ UNCHANGED <<form, report, past>>

(* The page: a control is enabled if it is for all of its methods. *)
ShowParams(t) ==
  /\ pc[t] = "get" /\ work[t].todo = {}
  /\ past' = [past EXCEPT !.wanted = WithControl(t, @)]
  /\ Return(t, "params")
  /\ UNCHANGED <<form, dir, work>>

-----------------------------------------------------------------------------
(* add(), search() and the other requests of MyLDAPObject put the controls   *)
(* of their lists together, and hand them to ldap0.  "late" is history here     *)
(* too: controls were being changed meanwhile.                                 *)

ReadList(t) ==
  /\ pc[t] = "list"
  /\ LET rest == Tail(work[t].lists)
     IN /\ work' = [work EXCEPT ![t].copy = @ \union dir.ctrls[Head(work[t].lists)], ![t].lists = rest]
        /\ Goto(t, IF rest = <<>> THEN "send" ELSE "list")
  /\ UNCHANGED <<form, dir, report, past>>

Send(t) ==
  /\ pc[t] = "send"
  /\ Return(t, "sent")
  /\ UNCHANGED <<form, dir, work, past>>

Thread(t) ==
  \/ Begin(t) \/ Again(t) \/ TestDn(t) \/ IndexDn(t) \/ SearchDn(t) \/ KeepDn(t) \/ StoreDn(t)
  \/ TestSchema(t) \/ IndexSchema(t) \/ ReadSchema(t) \/ KeepSchema(t) \/ StoreSchema(t)
  \/ TestAudit(t) \/ IndexAudit(t) \/ StoreAudit(t)
  \/ FlushDns(t) \/ FlushSchema(t) \/ FlushAudit(t) \/ FlushResults(t)
  \/ GetCtrls(t) \/ SetCtrls(t) \/ ShowParams(t) \/ ReadList(t) \/ Send(t)

Next == ServerChanges \/ Expires \/ \E t \in Threads : Thread(t)

Spec == Init /\ [][Next]_vars

-----------------------------------------------------------------------------
(* Properties. *)

(* Every variable has its type. *)
TypeOK ==
  /\ pc \in [Threads -> {"begin", "end", "KeyError", "test dn", "index dn", "search dn", "keep dn",
       "search root", "keep root", "store dn", "test schema", "index schema", "read schema", "keep schema",
       "store schema", "test audit", "index audit", "store audit", "flush dn", "flush schema",
       "flush audit", "flush results", "get", "set", "list", "send"}]
  /\ form \in [Threads -> Ops]
  /\ dir.version \in 0..MaxVersion /\ dir.cached \in BOOLEAN
  /\ DOMAIN dir.results = Dns \union {Root} /\ dir.answer.version \in 0..MaxVersion
  /\ dir.schema.val \in 0..MaxVersion /\ dir.ctrls \in [Methods -> SUBSET Oids]
  /\ past.flushed \in 0..MaxVersion /\ past.since \subseteq Threads /\ past.wanted \subseteq Oids

(* A flush forgets what was known before: the schema in the cache is not     *)
(* older than the last flush, but for a thread that was reading meanwhile, or    *)
(* that got ldap0's result before the flush had come to those.                 *)
SchemaSinceFlush == dir.cached => dir.schema.late \/ dir.schema.val >= past.flushed

(* The default schema is returned only if since the last flush the server did *)
(* not answer, or had no subschema, or none that is parsed: "not found" does not *)
(* survive a flush, but for a thread that was searching meanwhile or got ldap0's *)
(* result during the flush.                                                   *)
DefaultHasReason ==
  \A t \in Threads :
    (pc[t] \in {"test schema", "store schema"} /\ work[t].val = None /\ ~work[t].late) => past.denied

(* A request fails with KeyError only if another one has flushed the caches *)
(* between its test and its use of a key.                                     *)
KeyErrorOnlyByFlush == \A t \in Threads : pc[t] = "KeyError" => t \in past.since

(* If no two requests change controls at a time, each control is sent with  *)
(* all of its methods or with none, as the last request wanted it.            *)
ControlsAsWanted ==
  (past.clean /\ \A t \in Threads : ~(Busy(t) /\ Toggles(t)))
    => \A c \in Oids, m \in Methods :
         c \in dir.ctrls[m] <=> (m \in MethodsOf[c] /\ c \in past.wanted)

(* A request is sent with the controls that are enabled and meant for it, and *)
(* no other, unless controls are changed while it is being sent.                *)
SentAsWanted ==
  \A t \in Threads :
    (pc[t] = "send" /\ past.clean /\ ~work[t].late)
      => work[t].copy = {c \in past.wanted : MethodsOf[c] \intersect ListSet(form[t].arg) # {}}
=============================================================================
