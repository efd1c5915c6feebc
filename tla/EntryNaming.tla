---------------------------- MODULE EntryNaming ----------------------------
(***************************************************************************)
(* app/add.py and app/rename.py with LDAPSession.rename(): the two commands  *)
(* that give an entry its name.  The RDN is derived from the values of the   *)
(* form, or replaces the one of the entry; the page shows the new DN, by      *)
(* which the user goes on.  Other clients use the same names.                *)
(*                                                                         *)
(* An RDN is a function from attribute types to values, a DN a pair of RDN   *)
(* and superior.  Left out: the rows of the form, OID forms of attribute      *)
(* types, ADD_IGNORE_ATTR_TYPES, the choice of a superior by LDAP URL, DIT    *)
(* structure rules shown with the form.                                       *)
(***************************************************************************)
EXTENDS FiniteSets, Naturals

CONSTANTS
  Types,       \* attribute types
  Values,
  Superiors,   \* besides the root
  Initial,     \* entries to begin with: records of a DN and values
  MaxChanges   \* bound of the changes by others, for model checking

Root == "root"
Places == Superiors \union {Root}
Contents == [Types -> SUBSET Values]
PartialFunctions(S) == UNION {[T -> S] : T \in (SUBSET Types) \ {{}}}
Rdns == PartialFunctions(Values)
Dns == Rdns \X Places
Given == PartialFunctions(Values \union {""})   \* "" leaves the value to be derived
Undecodable == [t \in {} |-> ""]
Named(rdn, vals) == \A t \in DOMAIN rdn : rdn[t] \in vals[t]

NamingAssumption ==
  /\ "" \notin Values /\ Root \notin Superiors
  /\ Initial \subseteq [dn : Dns, vals : Contents]
  /\ \A e \in Initial : Named(e.dn[1], e.vals) /\ \A f \in Initial : f.dn = e.dn => f = e
  /\ MaxChanges \in Nat

VARIABLES
  pc,      \* the page in the browser, or the point the command has reached
  form,    \* its fields
  dir,     \* entries, superiors that exist, the read entry controls answered
  work,    \* locals: the DN to be, controls asked for, second dispatch
  report,  \* the DN the page shows
  past     \* history: where the command put the entry, an answer lost

vars == <<pc, form, dir, work, report, past>>

AddForms == [kind : {"add"}, vals : Contents, rdn : Given \union {Undecodable},
             base : Places, dn : {<<>>, <<"some entry">>}, delold : {TRUE}]
RenameForms == [kind : {"rename"}, vals : {[t \in Types |-> {}]}, rdn : Rdns,
                base : Places \union {"unset"}, dn : {e.dn : e \in Initial} \union {<<>>}, delold : BOOLEAN]

Init ==
  /\ pc = "Form"
  /\ form \in AddForms \union RenameForms
  /\ dir \in [entries : {Initial}, places : {Places}, answers : SUBSET {"pre", "post"}, changes : {0}]
  /\ work = [dn |-> <<>>, asked |-> {}, again |-> FALSE]
  /\ report = <<>>
  /\ past = [put |-> <<>>, lost |-> FALSE]

There(dn) == \E e \in dir.entries : e.dn = dn
ValuesOf(dn) == (CHOOSE e \in dir.entries : e.dn = dn).vals

-----------------------------------------------------------------------------
(* Other clients. *)

OtherDeletes ==
  /\ pc = "Send" /\ dir.changes < MaxChanges
  /\ \/ \E e \in dir.entries : dir' = [dir EXCEPT !.entries = @ \ {e}, !.changes = @ + 1]
     \/ \E p \in Superiors \intersect dir.places :
          dir' = [dir EXCEPT !.places = @ \ {p}, !.entries = {e \in @ : e.dn[2] # p}, !.changes = @ + 1]
  /\ UNCHANGED <<pc, form, work, report, past>>

OtherAdds ==
  /\ pc = "Send" /\ dir.changes < MaxChanges /\ ~There(work.dn) /\ work.dn[2] \in dir.places
  /\ dir' = [dir EXCEPT !.entries = @ \union {[dn |-> work.dn, vals |-> [t \in Types |-> {work.dn[1][u] : u \in DOMAIN work.dn[1] \intersect {t}}]]},
                        !.changes = @ + 1]
  /\ UNCHANGED <<pc, form, work, report, past>>

-----------------------------------------------------------------------------
(* w2l_add() *)

(* The input form again, with a message: switched to another form, made of  *)
(* a clone or template, empty, or with invalid values.                        *)
ShowForm == pc' = "Form" /\ UNCHANGED <<form, dir, work, report, past>>

(* A value of the RDN is one of the entry's; the only one, if none is given. *)
Derivable(t) ==
  \/ form.rdn[t] # "" /\ form.rdn[t] \in form.vals[t]
  \/ form.rdn[t] = "" /\ Cardinality(form.vals[t]) = 1
Derived == [t \in DOMAIN form.rdn |-> IF form.rdn[t] = "" THEN CHOOSE v \in form.vals[t] : TRUE ELSE form.rdn[t]]

Empty == \A t \in Types : form.vals[t] = {}
Complete == form.rdn # Undecodable /\ \A t \in DOMAIN form.rdn : Derivable(t)

(* Without app.dn the RDN alone is the new DN, "for a namingContext". *)
AddPlace == IF form.dn = <<>> THEN Root ELSE form.base

(* supportedControl, empty while another request reads the root DSE. *)
Ask(dn, controls) ==
  /\ pc' = "Send"
  /\ \E asked \in {{}, controls} : work' = [work EXCEPT !.dn = dn, !.asked = asked]
  /\ UNCHANGED <<form, dir, report, past>>

PrepareAdd ==
  /\ pc = "Form" /\ form.kind = "add"
  /\ \/ ShowForm
     \/ ~Empty /\ Complete /\ Ask(<<Derived, AddPlace>>, {"post"})

-----------------------------------------------------------------------------
(* w2l_rename() and LDAPSession.rename() *)

(* Without rename_newsuperior new_superior_str is unbound. *)
PrepareRename ==
  /\ pc = "Form" /\ form.kind = "rename"
  /\ IF form.base = "unset" \/ form.dn = <<>>
     THEN pc' = "Error" /\ UNCHANGED <<form, dir, work, report, past>>
     ELSE Ask(<<form.rdn, form.base>>, {"pre", "post"})

(* Values the entry has after the rename. *)
Renamed(vals) ==
  LET old == form.dn[1]
      kept(t) == IF form.delold /\ t \in DOMAIN old THEN vals[t] \ {old[t]} ELSE vals[t]
  IN [t \in Types |-> kept(t) \union {form.rdn[u] : u \in DOMAIN form.rdn \intersect {t}}]

-----------------------------------------------------------------------------
(* The request at the server. *)

Free(entries, dn) == \A e \in entries : e.dn # dn
Accepts ==
  /\ work.dn[2] \in dir.places
  /\ form.kind = "add" => ~There(work.dn)
  /\ form.kind = "rename" => There(form.dn) /\ (work.dn = form.dn \/ ~There(work.dn))

Done ==
  LET named == [dn |-> work.dn, vals |-> IF form.kind = "add" THEN form.vals ELSE Renamed(ValuesOf(form.dn))]
  IN {e \in dir.entries : form.kind = "add" \/ e.dn # form.dn} \union {named}

(* The DN computed if no control is answered: for a rename "new_superior or *)
(* old superior", which takes the root for the old one.  The mutant always    *)
(* takes the old one.                                                         *)
Computed_Old == IF form.kind = "add" THEN work.dn ELSE <<form.rdn, form.dn[2]>>
Computed ==
  IF form.kind = "add" THEN work.dn
  ELSE <<form.rdn, IF form.base = Root THEN form.dn[2] ELSE form.base>>

(* Of the controls asked for the server answers those it has; with the one  *)
(* before a rename and not the one after it rename() raises KeyError.         *)
Succeeds ==
  LET answered == work.asked \intersect dir.answers
  IN /\ Accepts
     /\ dir' = [dir EXCEPT !.entries = Done]
     /\ past' = [past EXCEPT !.put = work.dn]
     /\ \/ /\ answered \in {{}} \union {c \in SUBSET work.asked : "post" \in c}
           /\ report' = IF answered = {} THEN Computed ELSE work.dn
           /\ pc' = "Success"
        \/ answered = {"pre"} /\ pc' = "Error" /\ report' = report
     /\ UNCHANGED <<form, work>>

(* An add goes back to the form, or to an error page; a rename leaves to     *)
(* the handlers of run().                                                     *)
Fails ==
  /\ pc' = IF form.kind = "add" THEN "Form" ELSE "Error"
  /\ UNCHANGED <<form, dir, report, past, work>>

(* The answer is lost: the request is repeated by the reconnecting object,   *)
(* and refused; or run() dispatches the command again.                        *)
Lost ==
  /\ past' = [put |-> IF Accepts THEN work.dn ELSE past.put, lost |-> TRUE]
  /\ dir' = IF Accepts THEN [dir EXCEPT !.entries = Done] ELSE dir
  /\ \/ pc' = IF form.kind = "add" THEN "Form" ELSE "Error"
     \/ ~work.again /\ pc' = "Form"
  /\ work' = [work EXCEPT !.again = TRUE]
  /\ UNCHANGED <<form, report>>

Send ==
  /\ pc = "Send"
  /\ Succeeds \/ Fails \/ Lost

Next == OtherDeletes \/ OtherAdds \/ PrepareAdd \/ PrepareRename \/ Send

Spec == Init /\ [][Next]_vars

-----------------------------------------------------------------------------
(* Properties. *)

(* Every variable has its type. *)
TypeOK ==
  /\ pc \in {"Form", "Send", "Success", "Error"}
  /\ form \in AddForms \union RenameForms
  /\ dir \in [entries : SUBSET [dn : Dns, vals : Contents], places : SUBSET Places,
              answers : SUBSET {"pre", "post"}, changes : Nat]
  /\ work \in [dn : Dns \union {<<>>}, asked : SUBSET {"pre", "post"}, again : BOOLEAN]
  /\ report \in Dns \union {<<>>}
  /\ past \in [put : Dns \union {<<>>}, lost : BOOLEAN]

(* The name of each entry is made of its values, however it was given, and   *)
(* no two entries have the same.                                              *)
NamedByValues ==
  \A e \in dir.entries : Named(e.dn[1], e.vals) /\ \A f \in dir.entries : f.dn = e.dn => f = e

(* The page shows the DN at which the command has put the entry, by whatever *)
(* way it was found; not after a move to the root without a control.          *)
PageNamesEntry ==
  (pc = "Success" /\ ~(form.kind = "rename" /\ form.base = Root /\ work.asked \intersect dir.answers = {}))
    => report = past.put

(* No success is shown for an entry of another client, and no error for      *)
(* what was done, unless an answer was lost or half of the controls is         *)
(* answered.                                                                  *)
ErrorMeansUnchanged ==
  /\ pc = "Success" => past.put = work.dn
  /\ (pc = "Error" /\ ~past.lost /\ dir.answers # {"pre"}) => past.put = <<>>
=============================================================================
