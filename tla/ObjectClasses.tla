---------------------------- MODULE ObjectClasses ---------------------------
(***************************************************************************)
(* The object classes of an entry in app/addmodifyform.py and app/entry.py:   *)
(* the form on which they are chosen, from all classes, those a DIT structure  *)
(* rule or allowedChildClasses permits, or by way of an LDIF template; the       *)
(* input form made for the chosen classes, with HTML templates or in three        *)
(* tables; and what the server has when that form is sent without a change.     *)
(*                                                                         *)
(* An attribute is <<type, option>>, the option "" being none.  Left out: the     *)
(* LDIF form, the values, rows, aliases of class names.  NoDn is the parent of   *)
(* a naming context, where nothing can be read.                               *)
(***************************************************************************)
EXTENDS Naturals, SequencesExt

CONSTANTS
  Kind,         \* kind of each class, "unknown" if the schema has no such class
  Allows,       \* types each class requires or allows
  Obsolete,     \* types marked so in the schema
  Fixed,        \* types that are not user-modifiable: no_userapp_attr()
  HtmlTemplate, \* types in the HTML template of a class; {} is no template
  Order,        \* the classes sorted by kind and name
  ContentRule,  \* auxiliary classes of the DIT content rule of a structural class
  Rules,        \* DIT structure rules: [id -> [class, sup]]
  Dns,          \* entries below which one can be added, with all above them
  NoDn,
  Superior,     \* the parent of each
  OneRdn,       \* those whose parent is the empty DN
  Possible,     \* get_possible_dit_structure_rules(): those whose name form fits
  Governing,    \* the rule that governs the entry, for the server; 0 is none
  LdifTemplates, \* [name -> [classes, attrs, parent]]; NoDn is the entry in the menu
  Edited,       \* entries to be modified: [classes, attrs]
  Directories,  \* how the server restricts children, and what can be read
  MaxToggled,   \* bound: classes selected or deselected on one form
  MaxClicks     \* bound: requests

VARIABLES pc, form, dir, work, report, past

vars == <<pc, form, dir, work, report, past>>

Classes == DOMAIN Kind
Kinds == {"structural", "abstract", "auxiliary"}
OfKind(k) == {c \in Classes : Kind[c] = k}

Subordinates(r) == {s \in DOMAIN Rules : r \in Rules[s].sup}
ClassesOf(rules) == {Rules[r].class : r \in rules}

ObjectClassAssumption ==
  /\ MaxClicks \in Nat /\ MaxToggled \in Nat
  /\ \A e \in Edited \union {LdifTemplates[t] : t \in DOMAIN LdifTemplates} :
       \A a \in e.attrs : a = <<a[1], a[2]>>
  /\ ToSet(Order) = DOMAIN Kind
  /\ 0 \notin DOMAIN Rules
  /\ \A d \in Dns :                        \* X.501 is followed
       /\ Superior[d] \in Dns \union {NoDn}
       /\ Governing[d] \in IF Possible[d] = {} THEN {0} ELSE Possible[d]
       /\ Governing[d] # 0 /\ Rules[Governing[d]].sup # {} =>
            /\ Superior[d] \in Dns /\ Governing[Superior[d]] \in Rules[Governing[d]].sup
            /\ \A x \in Directories : d \notin x.admins \union OneRdn

-----------------------------------------------------------------------------
(* Which structural classes an entry below another may have.                  *)

(* The rule in the entry itself, or the one of the possible rules that fits    *)
(* the rule of the superior entry; 0 if there is none or more than one.         *)
get_governing_structure_rule[d \in Dns \union {NoDn}] ==
  LET top == d \in dir.admins \union OneRdn
      rules == {r \in Possible[d] : top => Rules[r].sup = {}}
      above == IF d \in OneRdn THEN 0 ELSE get_governing_structure_rule[Superior[d]]
      fitting == IF Cardinality(rules) > 1 THEN rules \intersect Subordinates(above) ELSE rules
  IN IF d = NoDn THEN 0
     ELSE IF d \in dir.readable /\ Governing[d] # 0 THEN Governing[d]
     ELSE IF Cardinality(fitting) = 1 THEN CHOOSE r \in fitting : TRUE ELSE 0

(* {} is no restriction. *)
get_possible_soc(d) ==
  CASE dir.method = "rules" -> ClassesOf(Subordinates(get_governing_structure_rule[d]))
    [] dir.method = "children" -> OfKind("structural") \intersect dir.children[d]
    [] OTHER -> {}

Structural(d) == IF get_possible_soc(d) = {} THEN OfKind("structural") ELSE get_possible_soc(d)

(* What the server accepts below d. *)
Accepted(d) ==
  CASE dir.method = "rules" /\ Governing[d] # 0 -> ClassesOf(Subordinates(Governing[d]))
    [] dir.method = "children" /\ dir.children[d] # {} -> OfKind("structural") \intersect dir.children[d]
    [] OTHER -> OfKind("structural")

-----------------------------------------------------------------------------
(* The form for object classes: three select fields, a fourth for classes that  *)
(* are not in the schema.  The classes of the entry are selected.             *)

(* A single class that is not in the schema counts as structural. *)
object_class_categories(classes, k) ==
  {c \in classes : Kind[c] = k \/ (k = "structural" /\ Kind[c] = "unknown" /\ classes = {c})}

Soc(classes) == classes \intersect OfKind("structural")

Auxiliary(classes) ==
  {c \in OfKind("auxiliary") :
     \A s \in Soc(classes) \intersect DOMAIN ContentRule :
       work.cmd = "add" \/ dir.relax \/ c \in ContentRule[s]}

OptionsOf(classes, k) ==
  object_class_categories(classes, k)
  \union (CASE k = "structural" -> Structural(work.parent)
            [] k = "auxiliary" -> Auxiliary(classes)
            [] OTHER -> OfKind(k))

Misc(classes) == classes \ UNION {object_class_categories(classes, k) : k \in Kinds}

ClassOptions(classes) == (UNION {OptionsOf(classes, k) : k \in Kinds}) \union Misc(classes)

(* A page, with its hidden fields: in_oc, and in_at with objectClass set apart. *)
EmptyPage == [page |-> "", options |-> {}, marked |-> {}, in_oc |-> {}, classes |-> {}, attrs |-> {}, old |-> {}]

(* hidden_input_html() passes on all input, in_oc with it, but not in_ocf.     *)
ClassSelect(classes, in_oc, given, attrs) ==
  [page |-> "OC", options |-> ClassOptions(classes), marked |-> classes \intersect ClassOptions(classes),
   in_oc |-> in_oc, classes |-> given, attrs |-> attrs, old |-> form.old]

(* An LDIF template is offered where its parent can be read and its class       *)
(* belongs there.  Any template that cannot be read is an error.               *)
ParentOf(t) == IF LdifTemplates[t].parent = NoDn THEN work.parent ELSE LdifTemplates[t].parent
Fits(t) ==
  LET known == get_governing_structure_rule[ParentOf(t)] # 0
      soc == Soc(LdifTemplates[t].classes)
  IN soc # {} /\ soc \subseteq (IF dir.method = "rules" /\ known THEN get_possible_soc(ParentOf(t))
                                ELSE OfKind("structural"))
TemplateList == [EmptyPage EXCEPT !.page = "Templates",
                                  !.options = {t \in DOMAIN LdifTemplates : ParentOf(t) \in dir.open /\ Fits(t)}]

-----------------------------------------------------------------------------
(* The input form.                                                          *)

(* attribute_types(): extensibleObject and unknown classes allow nothing. *)
attribute_types(classes) ==
  (UNION {Allows[c] : c \in classes}) \ (Fixed \union IF dir.relax THEN {} ELSE Obsolete)

(* nomatching_attrs(): also each attribute with an option, by its full name. *)
nomatching_attrs(attrs, types) == {a \in attrs : a[1] \notin types \/ a[2] # ""}

(* Three tables: an attribute is in the one that has its type.              *)
Tables(attrs, types) ==
  {a \in attrs : a[1] \in types \/ <<a[1], "">> \in nomatching_attrs(attrs, types)}

(* The types on the HTML templates of the classes, but for a template that     *)
(* repeats a type.                                                          *)
Displayed(classes) ==
  FoldLeft(LAMBDA types, c :
             types \union IF c \in classes /\ HtmlTemplate[c] \intersect types = {} THEN HtmlTemplate[c] ELSE {},
           {}, Order)

(* The fields of the templates, and hidden fields for other types.          *)
TemplateOutput(attrs, types) ==
  {a \in attrs : IF a[1] \in types THEN a[2] = "" ELSE a[1] \notin Fixed}

InputForm(type, classes, attrs, old) ==
  LET html == type = "Template" /\ Displayed(classes) # {} /\ ~dir.relax
  IN [EmptyPage EXCEPT
        !.page = IF html THEN "Template" ELSE "Table",
        !.classes = classes,
        !.attrs = IF html THEN TemplateOutput(attrs, Displayed(classes)) ELSE Tables(attrs, attribute_types(classes)),
        !.old = old]

Inputs == {"Template", "Table"}

-----------------------------------------------------------------------------
(* Requests.                                                                *)

Init ==
  /\ dir \in Directories
  /\ \E d \in Dns :
       \/ work = [cmd |-> "add", parent |-> d, entry |-> [classes |-> {}, attrs |-> {}]]
       \/ \E e \in Edited : work = [cmd |-> "modify", parent |-> d, entry |-> e]
  /\ pc = MaxClicks
  /\ form = EmptyPage
  /\ report = ""
  /\ past = [classes |-> {}, attrs |-> {}, again |-> FALSE]

Click == pc > 0 /\ pc' = pc - 1

(* ErrorExit is for the whole page. *)
ShowTemplates ==
  /\ form' = IF dir.broken THEN EmptyPage ELSE TemplateList
  /\ report' = IF dir.broken THEN "error" ELSE ""

(* w2l_addform() and w2l_modifyform(). *)
ShowForm(type, in_oc, given, attrs, ocf) ==
  LET classes == IF in_oc # {} THEN in_oc ELSE given
      select == type = "OC" \/ (work.cmd = "add" /\ classes \union attrs = {})
  IN \/ select /\ work.cmd = "add" /\ ocf = "tmpl" /\ ShowTemplates
     \/ /\ select /\ (work.cmd = "modify" \/ ocf = "exp")
        /\ form' = ClassSelect(classes, in_oc, given, attrs)
        /\ report' = ""
     \/ /\ ~select
        /\ form' = InputForm(type, classes, attrs, form.old)
        /\ report' = ""

Seen(classes, attrs) == past' = [classes |-> classes, attrs |-> attrs, again |-> FALSE]

Open ==
  /\ Click /\ form = EmptyPage /\ report = ""
  /\ \/ /\ work.cmd = "modify"
        /\ form' = InputForm("Template", work.entry.classes, work.entry.attrs, work.entry.attrs)
        /\ UNCHANGED report
     \/ work.cmd = "add" /\ ShowTemplates
  /\ Seen(work.entry.classes, work.entry.attrs)
  /\ UNCHANGED <<dir, work>>

(* The links "Expert" and "Templates". *)
Menu ==
  /\ Click /\ work.cmd = "add" /\ form.page \in {"Templates", "OC"}
  /\ ShowForm("OC", {}, {}, {}, "exp") \/ ShowTemplates
  /\ Seen({}, {})
  /\ UNCHANGED <<dir, work>>

PickTemplate(t) ==
  /\ Click /\ form.page = "Templates" /\ t \in form.options
  /\ form' = InputForm("Template", LdifTemplates[t].classes, LdifTemplates[t].attrs, {})
  /\ Seen(LdifTemplates[t].classes, LdifTemplates[t].attrs)
  /\ work' = [work EXCEPT !.parent = ParentOf(t)]
  /\ UNCHANGED <<dir, report>>

(* The user changes the selection, by at most MaxToggled classes, or not. *)
Choose(selected, type) ==
  /\ Click /\ form.page = "OC" /\ selected \subseteq form.options
  /\ Cardinality((selected \ form.marked) \union (form.marked \ selected)) <= MaxToggled
  /\ ShowForm(type, form.in_oc \union selected, form.classes, form.attrs, "tmpl")
  /\ past' = [classes |-> IF selected = {} /\ form.in_oc = {} THEN form.classes ELSE selected,
              attrs |-> form.attrs, again |-> past.again \/ form.in_oc # {}]
  /\ UNCHANGED <<dir, work>>

Switch(type) ==
  /\ Click /\ form.page \in Inputs /\ type # form.page
  /\ ShowForm(type, {}, form.classes, form.attrs, "exp")
  /\ Seen(form.classes, form.attrs)
  /\ UNCHANGED <<dir, work>>

(* modify_modlist() deletes what was shown at first and is not in the input;    *)
(* work.entry is then what the server has.                                   *)
Save ==
  /\ Click /\ form.page \in Inputs
  /\ work' = [work EXCEPT !.entry =
       [classes |-> form.classes,
        attrs |-> form.attrs \union {a \in work.entry.attrs : a \notin form.old \/ (a[1] \in Fixed /\ ~dir.relax)}]]
  /\ form' = EmptyPage
  /\ report' = "saved"
  /\ past' = [past EXCEPT !.attrs = work.entry.attrs]
  /\ UNCHANGED dir

Next ==
  \/ Open \/ Menu \/ Save
  \/ \E t \in DOMAIN LdifTemplates : PickTemplate(t)
  \/ \E type \in Inputs \union {"OC"} :
       Switch(type) \/ \E selected \in SUBSET form.options : Choose(selected, type)

Spec == Init /\ [][Next]_vars

-----------------------------------------------------------------------------

TypeOK ==
  /\ pc \in 0..MaxClicks
  /\ form.page \in Inputs \union {"", "Templates", "OC"}
  /\ form.page # "Templates" => form.options \union form.classes \subseteq Classes
  /\ report \in {"", "error", "saved"}
  /\ work.cmd \in {"add", "modify"} /\ work.parent \in Dns

(* object_class_form(): the classes of the entry, those the schema does not      *)
(* have with them, are selected, and the input form is for those that were        *)
(* selected, unless the form was answered with the form type "OC" before: what   *)
(* was selected then cannot be taken back.                                   *)
ClassesAsChosen ==
  /\ form.page = "OC" /\ ~past.again => form.marked = past.classes
  /\ form.page \in Inputs => past.classes \subseteq form.classes /\ (~past.again => form.classes = past.classes)

(* Whatever classes are chosen, the input form has each attribute of the entry    *)
(* or LDIF template, but for some with an option, and for those that are not       *)
(* user-modifiable, which HTML templates leave out.                           *)
EntryKept ==
  form.page \in Inputs =>
    \A a \in past.attrs \ form.attrs : a[2] # "" \/ (form.page = "Template" /\ a[1] \in Fixed)

(* Over all requests only attributes with an option are lost when a form is       *)
(* saved that the user has not changed.                                      *)
OnlyOptionsLost ==
  report = "saved" /\ work.cmd = "modify" => \A a \in past.attrs \ work.entry.attrs : a[2] # ""

(* get_governing_structure_rule() finds the rule of the server or none.      *)
RuleIsTrue == \A d \in Dns : get_governing_structure_rule[d] \in {0, Governing[d]}

(* Every class and LDIF template the server accepts is offered, and with DIT     *)
(* structure rules only such templates, unless the rule cannot be found.       *)
OfferedSuffices ==
  LET usable == {t \in DOMAIN LdifTemplates :
                   Soc(LdifTemplates[t].classes) \intersect Accepted(ParentOf(t)) # {} /\ ParentOf(t) \in dir.open}
  IN /\ form.page = "OC" => Accepted(work.parent) \subseteq form.options
     /\ form.page = "Templates" =>
          /\ usable \subseteq form.options
          /\ dir.method = "rules" /\ (\A d \in Dns : get_governing_structure_rule[d] # 0) => form.options \subseteq usable
=============================================================================
