----------------------------- MODULE BulkModify ----------------------------
(***************************************************************************)
(* app/bulkmod.py with LDAPSession.rename(): modifications and a new        *)
(* superior are put in a form, confirmed, and then applied to each entry a   *)
(* search finds, while this search still runs.                               *)
(*                                                                         *)
(* The rows are of one attribute type.  A DN is a pair of RDN and superior;  *)
(* the entries found are leafs.  Left out: MOD_INCREMENT, the controls, the  *)
(* wording of the pages, a search that is a LDAP referral only.              *)
(***************************************************************************)
EXTENDS Integers, Sequences, FiniteSets, SequencesExt

CONSTANTS
  Dns,       \* pairs <<rdn, superior>>
  Below,     \* superiors within the scope of the search
  Starts,    \* directories to begin with: functions from Dns
  Refuses,   \* what of "read", "modify", "move" the server refuses, per entry
  RowLists,  \* rows a user fills in
  Targets,   \* new superiors
  MaxRows    \* web2ldapcnf.max_searchparams

(* What a row has; what an entry has, and how often it was modified.         *)
Values == {"v", "vTAB"}
RowType == [op : {"", "add", "delete", "replace"}, av : Values \union {"", "bad"}]
EntryStates == [is : {"none", "old", "new"}, vals : SUBSET Values, hits : Nat]

BulkAssumption ==
  /\ \A dn \in Dns : dn = <<dn[1], dn[2]>>
  /\ Starts \subseteq [Dns -> {e \in EntryStates : e.hits = 0}]
  /\ RowLists \subseteq Seq(RowType)
  /\ Refuses \in [Dns -> SUBSET {"read", "modify", "move"}]
  /\ MaxRows \in Nat
  /\ \A dn \in Dns, to \in Targets : <<dn[1], to>> \in Dns

Stay == "stay"     \* bulkmod_newsuperior is empty
Absent == [is |-> "none", vals |-> {}, hits |-> 0]

VARIABLES
  pc,      \* the page in the browser, or the point w2l_bulkmod() has reached
  form,    \* the fields of the page
  dir,     \* the directory
  work,    \* the search under way and the result in hand
  report,  \* the four counters
  past     \* history: what was confirmed, what the server has done

vars == <<pc, form, dir, work, report, past>>

NoResult == [dn |-> <<>>, vals |-> {}]
NoWork == [sent |-> {}, queue |-> {}, cur |-> NoResult, cut |-> FALSE, again |-> FALSE]
NoReport == [modOk |-> 0, modErr |-> 0, renOk |-> 0, renErr |-> 0]
NoPast == [confirmed |-> <<>>, mods |-> 0, moves |-> 0, lost |-> FALSE]

Init ==
  /\ pc = "Input"
  /\ form \in [rows : RowLists, to : Targets \union {Stay}, cp : BOOLEAN, filter : {"all", "v"}]
  /\ dir \in Starts
  /\ work = NoWork
  /\ report = NoReport
  /\ past = NoPast

-----------------------------------------------------------------------------
(* The form.  A row has an operation and a value, each of which may be "".  *)

(* Rows whose value the syntax class refuses; the mutant overlooks those     *)
(* that sanitize() has made empty.                                            *)
InputErrors_Validated(rows) == {i \in DOMAIN rows : rows[i].op = "add" /\ rows[i].av = "bad"}
InputErrors(rows) == {i \in DOMAIN rows : rows[i].op # "" /\ rows[i].av = "bad"}

(* The list of modifications: the values for each operation; a deletion     *)
(* without a value, in any row, is one of all values.                        *)
Sanitized(av) == IF av = "bad" THEN "" ELSE av
Asked(rows, op) == {Sanitized(rows[i].av) : i \in {j \in DOMAIN rows : rows[j].op = op}}
ValuesOf(rows, op) ==
  IF op = "delete" /\ "" \in Asked(rows, op) THEN {"all"} ELSE Asked(rows, op) \ {""}
ModList(rows) ==
  IF InputErrors(rows) # {} THEN <<>> ELSE
  [op \in {o \in {"add", "delete", "replace"} : ValuesOf(rows, o) # {}} |-> ValuesOf(rows, op)]

(* A hidden field: s2d() drops TABs.  *)
Hidden(av) == IF av = "vTAB" THEN "v" ELSE av

InsertRow(rows, i) ==
  IF Len(rows) < MaxRows THEN InsertAt(rows, i + 1, [rows[i] EXCEPT !.av = ""]) ELSE rows
RemoveRow(rows, i) == IF Len(rows) > 1 THEN RemoveAt(rows, i) ELSE rows

(* bulkmod_input_form() *)
ShowInput(rows) == pc' = "Input" /\ form' = [form EXCEPT !.rows = rows]

NothingToDo == DOMAIN ModList(form.rows) = {} /\ form.to = Stay

Correct ==
  /\ \/ pc \in {"Input", "Confirm"} /\ (NothingToDo \/ InputErrors(form.rows) # {}) /\ ShowInput(form.rows)
     \/ pc \in {"Confirm", "Report"} /\ ShowInput(form.rows)       \* "<<Back"
     \/ pc = "Input" /\ \E i \in DOMAIN form.rows :
          ShowInput(InsertRow(form.rows, i)) \/ ShowInput(RemoveRow(form.rows, i))
  /\ UNCHANGED <<dir, work, report, past>>

Cancel ==
  /\ pc \in {"Input", "Confirm"}
  /\ pc' = "Done"
  /\ UNCHANGED <<form, dir, work, report, past>>

(* "Next>>": bulkmod_confirmation_form() shows the modifications and has the *)
(* rows in hidden fields.                                                    *)
Confirm ==
  /\ pc = "Input" /\ ~NothingToDo /\ InputErrors(form.rows) = {}
  /\ pc' = "Confirm"
  /\ form' = [form EXCEPT !.rows = [i \in DOMAIN form.rows |->
                [op |-> form.rows[i].op, av |-> Hidden(form.rows[i].av)]]]
  /\ past' = [past EXCEPT !.confirmed = form.rows]
  /\ UNCHANGED <<dir, work, report>>

-----------------------------------------------------------------------------
(* "Apply".                                                                 *)

(* Counters and history begin anew with each dispatch of the command; what  *)
(* is there when the search begins is old.                                    *)
Begin(again) ==
  /\ pc' = "Results"
  /\ dir' = [dn \in Dns |-> IF dir[dn] = Absent THEN Absent ELSE
                [is |-> "old", vals |-> dir[dn].vals, hits |-> IF again THEN dir[dn].hits ELSE 0]]
  /\ work' = [NoWork EXCEPT !.again = again]
  /\ report' = NoReport
  /\ past' = [NoPast EXCEPT !.confirmed = past.confirmed]

Apply ==
  /\ pc = "Confirm" /\ ~NothingToDo /\ InputErrors(form.rows) = {}
  /\ Begin(FALSE)
  /\ UNCHANGED form

Found(dn) ==
  /\ dir[dn] # Absent /\ dn[2] \in Below
  /\ form.filter = "v" => "v" \in dir[dn].vals

(* The server goes through the entries in any order and sends each DN once; *)
(* whether it finds what was moved meanwhile is up to it.                     *)
ServerSends(dn) ==
  /\ pc \in {"Results", "Modify", "Move"} /\ ~work.cut
  /\ dn \notin work.sent /\ Found(dn)
  /\ work' = [work EXCEPT !.sent = @ \union {dn},
                          !.queue = @ \union {[dn |-> dn, vals |-> dir[dn].vals]}]
  /\ UNCHANGED <<pc, form, dir, report, past>>

(* The next result; what the search has read is kept with it.  The mutant   *)
(* goes through all results so far each time.                                 *)
TakeResult_All ==
  /\ pc = "Results" /\ ~work.cut
  /\ \E r \in work.queue : work' = [work EXCEPT !.cur = r]
  /\ pc' = IF DOMAIN ModList(form.rows) = {} THEN "Move" ELSE "Modify"
  /\ UNCHANGED <<form, dir, report, past>>

TakeResult ==
  /\ pc = "Results" /\ ~work.cut
  /\ \E r \in work.queue : work' = [work EXCEPT !.queue = @ \ {r}, !.cur = r]
  /\ pc' = IF DOMAIN ModList(form.rows) = {} THEN "Move" ELSE "Modify"
  /\ UNCHANGED <<form, dir, report, past>>

(* The last result.  The entries the server has not sent were not there, or *)
(* came by a move or copy.                                                   *)
SearchDone ==
  /\ pc = "Results" /\ ~work.cut /\ work.queue = {}
  /\ \A dn \in Dns : Found(dn) /\ dir[dn].is = "old" => dn \in work.sent
  /\ pc' = "Report"
  /\ UNCHANGED <<form, dir, work, report, past>>

(* LDAPLimitErrors and other errors of the search leave w2l_bulkmod(), and   *)
(* so the counters are never shown.                                           *)
SearchFails ==
  /\ pc = "Results" /\ ~work.cut
  /\ pc' = "Done"
  /\ UNCHANGED <<form, dir, work, report, past>>

(* SERVER_DOWN: run() dispatches the command again, once. *)
ServerDown ==
  /\ pc = "Results"
  /\ \/ ~work.again /\ Begin(TRUE)
     \/ work.again /\ pc' = "Done" /\ UNCHANGED <<dir, work, report, past>>
  /\ UNCHANGED form

(* What the modifications make of a set of values, in the order in which the *)
(* rows have put them into mod_dict.                                         *)
Refused == {"refused"}
Step(vals, op, vs) ==
  IF vals = Refused THEN Refused
  ELSE IF op = "replace" THEN vs
  ELSE IF op = "add" THEN IF vs \intersect vals = {} THEN vals \union vs ELSE Refused
  ELSE IF vs = {"all"} THEN IF vals # {} THEN {} ELSE Refused
  ELSE IF vs \subseteq vals THEN vals \ vs ELSE Refused
Counts(row, op) == row.op = op /\ (op = "delete" \/ Sanitized(row.av) # "")
Before(rows, p, op) ==
  \E i \in DOMAIN rows : Counts(rows[i], p) /\ \A j \in 1..i : ~Counts(rows[j], op)
Turn(rows, n) ==
  {op \in DOMAIN ModList(rows) : Cardinality({p \in DOMAIN ModList(rows) : Before(rows, p, op)}) = n}
InTurn(vals, n) ==
  LET ops == Turn(form.rows, n)
      op == CHOOSE o \in ops : TRUE
  IN IF ops = {} THEN vals ELSE Step(vals, op, ModList(form.rows)[op])
Changed(vals) == InTurn(InTurn(InTurn(vals, 0), 1), 2)

(* The directory after the server has done a write to the entry, or nothing *)
(* if it refuses.  A copy is added with what the search has read, before the   *)
(* modification; a move is LDAPSession.rename().                              *)
NewDn(dn) == <<dn[1], form.to>>

Modified(d, dn) ==
  IF d[dn] = Absent \/ "modify" \in Refuses[dn] \/ Changed(d[dn].vals) = Refused THEN {}
  ELSE {[d EXCEPT ![dn].vals = Changed(d[dn].vals), ![dn].hits = @ + 1]}
Copied(d, dn) ==
  IF Refuses[dn] \intersect {"read", "move"} # {} \/ d[NewDn(dn)] # Absent THEN {}
  ELSE {[d EXCEPT ![NewDn(dn)] = [is |-> "new", vals |-> work.cur.vals, hits |-> 0]]}
Moved(d, dn) ==
  IF d[dn] = Absent \/ "move" \in Refuses[dn] \/ (NewDn(dn) # dn /\ d[NewDn(dn)] # Absent) THEN {}
  ELSE {[d EXCEPT ![dn] = Absent,
                  ![NewDn(dn)] = [d[dn] EXCEPT !.is = IF NewDn(dn) = dn THEN @ ELSE "new"]]}

DoneTo(write, d, dn) ==
  CASE write = "modify" -> Modified(d, dn)
    [] write = "copy" -> Copied(d, dn)
    [] write = "move" -> Moved(d, dn)

(* A write as the directory after it, whether it was answered with success,  *)
(* and how often it was done.  If the answer is lost the reconnecting object    *)
(* sends it again.                                                            *)
Answer(d, ok, done, lost) == [dir |-> d, ok |-> ok, done |-> done, lost |-> lost]
Writes(write, dn) ==
  LET once == DoneTo(write, dir, dn)
      twice(d) == DoneTo(write, d, dn)
  IN IF once = {} THEN {Answer(dir, FALSE, 0, FALSE)}
     ELSE {Answer(d, TRUE, 1, FALSE) : d \in once}
          \union {Answer(d, FALSE, 1, TRUE) : d \in {e \in once : twice(e) = {}}}
          \union UNION {{Answer(e, TRUE, 2, TRUE) : e \in twice(d)} : d \in once}

(* The search does not survive the reconnect. *)
Cut(lost) == IF lost THEN [work EXCEPT !.cut = TRUE, !.queue = {}] ELSE work
One(b) == IF b THEN 1 ELSE 0

Modifications == Writes("modify", work.cur.dn)

CountModify(ok) == [report EXCEPT !.modOk = @ + One(ok), !.modErr = @ + One(~ok)]

Modify ==
  /\ pc = "Modify"
  /\ \E w \in Modifications :
       /\ dir' = w.dir
       /\ work' = Cut(w.lost)
       /\ report' = CountModify(w.ok)
       /\ past' = [past EXCEPT !.mods = @ + One(w.done > 0), !.lost = @ \/ w.lost]
  /\ pc' = IF form.to # Stay THEN "Move" ELSE "Results"
  /\ UNCHANGED form

Moves == Writes(IF form.cp THEN "copy" ELSE "move", work.cur.dn)

CountMove(ok) == [report EXCEPT !.renOk = @ + One(ok), !.renErr = @ + One(~ok)]

Move ==
  /\ pc = "Move"
  /\ \E w \in Moves :
       /\ dir' = w.dir
       /\ work' = Cut(w.lost)
       /\ report' = CountMove(w.ok)
       /\ past' = [past EXCEPT !.moves = @ + One(w.done > 0), !.lost = @ \/ w.lost]
  /\ pc' = "Results"
  /\ UNCHANGED form

Browser == Correct \/ Confirm \/ Apply \/ Cancel
Server == SearchDone \/ \E dn \in Dns : ServerSends(dn)
Command == TakeResult \/ Modify \/ Move \/ SearchFails \/ ServerDown

Next == Browser \/ Server \/ Command

Spec == Init /\ [][Next]_vars /\ WF_vars(Server) /\ WF_vars(Command)

-----------------------------------------------------------------------------
(* Properties.                                                              *)

Results == [dn : Dns, vals : SUBSET Values]

(* Every variable has its type. *)
TypeOK ==
  /\ pc \in {"Input", "Confirm", "Report", "Results", "Modify", "Move", "Done"}
  /\ form \in [rows : Seq(RowType), to : Targets \union {Stay}, cp : BOOLEAN, filter : {"all", "v"}]
  /\ dir \in [Dns -> EntryStates]
  /\ work \in [sent : SUBSET Dns, queue : SUBSET Results, cur : Results \union {NoResult},
               cut : BOOLEAN, again : BOOLEAN]
  /\ report \in [modOk : Nat, modErr : Nat, renOk : Nat, renErr : Nat]
  /\ past \in [confirmed : Seq(RowType), mods : Nat, moves : Nat, lost : BOOLEAN]

(* The counters of the page never claim more than the server has done, and  *)
(* what it has done is among the successes and errors; they are exact unless  *)
(* an answer was lost.  They are those of the last dispatch.                   *)
ReportBounds ==
  /\ report.modOk <= past.mods /\ past.mods <= report.modOk + report.modErr
  /\ report.renOk <= past.moves /\ past.moves <= report.renOk + report.renErr
  /\ ~past.lost => past.mods = report.modOk /\ past.moves = report.renOk

(* A search under way does not find the entries a second time that the      *)
(* command itself has moved or modified: no entry is modified twice, unless   *)
(* entries are moved within the search or the command is sent twice.          *)
TouchedOnce ==
  (~past.lost /\ ~work.again /\ (form.cp \/ form.to \notin Below))
    => \A dn \in Dns : dir[dn].hits <= 1

(* What is applied is what was confirmed, though only hidden fields of the   *)
(* browser have kept it; a value with a TAB changes on its way.               *)
AppliedAsConfirmed ==
  (pc \in {"Results", "Modify", "Move"} /\ \A i \in DOMAIN past.confirmed : past.confirmed[i].av # "vTAB")
    => ModList(form.rows) = ModList(past.confirmed)

(* All values of an attribute are removed only if a deletion was filled in,  *)
(* of all values, or of one that the entry had or another row has given it,    *)
(* as a hidden field keeps it.                                                *)
RemovalAsked ==
  \A dn \in Dns : (pc = "Modify" /\ dir[dn].vals # {} /\ dir'[dn].vals = {} /\ dir'[dn].hits > dir[dn].hits)
    => \E i \in DOMAIN past.confirmed :
         /\ past.confirmed[i].op = "delete"
         /\ Hidden(past.confirmed[i].av) \in {""} \union dir[dn].vals
              \union {Hidden(row.av) : row \in {r \in Range(past.confirmed) : r.op \in {"add", "replace"}}}
RemovedOnlyIfAsked == [][RemovalAsked]_vars

(* The command ends, although it adds entries to the search it works on. *)
BulkEnds == pc = "Results" ~> pc \in {"Report", "Done"}
=============================================================================
