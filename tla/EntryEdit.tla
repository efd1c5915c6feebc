------------------------------ MODULE EntryEdit -----------------------------
(***************************************************************************)
(* app/modify.py with app/addmodifyform.py, app/entry.py and                *)
(* LDAPSession.modify(): a user edits an entry in a form, over several      *)
(* requests, while others change the entry and another thread of the same   *)
(* session reads the root DSE again.                                        *)
(*                                                                         *)
(* The form in the browser is all that is kept between two requests.  It    *)
(* has the values, the types of the attributes shown at first, and an       *)
(* assertion filter made of modifyTimestamp and modifiersName of the entry  *)
(* (the stamp).  w2l_modify() reads the entry again with that filter, makes *)
(* the delta, and sends it with the filter in the assertion control if the  *)
(* server has it.                                                           *)
(*                                                                         *)
(* Left out: rows added and removed, the relax rules control, read-only     *)
(* attributes, an LDIF text emptied altogether; object classes chosen anew   *)
(* and attributes with options, which ObjectClasses has.                    *)
(***************************************************************************)
EXTENDS Naturals

CONSTANTS
  Attrs,       \* attribute types, besides the operational ones in the stamp
  Binary,      \* those whose syntax class is not editable
  Replaced,    \* those without equality rule, whose values are replaced
  Contents,    \* sets of values an attribute can have
  Initial,     \* the values of the entry at first
  Identities,  \* whom the session can be bound as
  Readable,    \* the attributes each identity can read
  NoStamp,     \* the filter '(objectClass=*)'
  MaxTime,     \* bound of the clock, for model checking
  MaxChanges,  \* bound of the changes by others, for model checking
  MaxSubmits   \* bound of the requests, for model checking

Types == {"Template", "Table", "LDIF"}
Authors == {"me", "other"}
Stamps == [time : Nat, by : Authors]

ASSUME EditAssumption ==
  /\ Binary \subseteq Attrs
  /\ Replaced \subseteq Attrs
  /\ Initial \in [Attrs -> Contents]
  /\ {} \in Contents
  /\ \A c, d \in Contents : c \union d \in Contents /\ c \ d \in Contents
  /\ Readable \in [Identities -> SUBSET Attrs]
  /\ NoStamp \notin Stamps
  /\ MaxTime \in Nat
  /\ MaxChanges \in Nat
  /\ MaxSubmits \in Nat

VARIABLES
  now,       \* the time at the LDAP server, in seconds
  entry,     \* the entry: whether it exists, its values and its stamp
  asserts,   \* the server has the assertion control
  changes,   \* changes by others, against the bound MaxChanges
  identity,  \* whom the session is bound as
  ctrl,      \* supportedControl of the LDAPSession has the assertion control
  submits,   \* requests so far, against the bound MaxSubmits
  form,      \* the form in the browser
  seen,      \* the entry the form was first made of, and what was shown of it
  pc,
  ask,       \* the button pressed: "save", or the type of form to switch to
  again,     \* run() has dispatched the command a second time
  old,       \* old_entry, read again by the request
  writes,    \* modifications done by this user's forms
  blurred,   \* a change got the stamp the form was made with
  raced      \* the entry was changed since the request began

server == <<now, entry, asserts, changes>>
session == <<identity, ctrl>>
browser == <<submits, form, seen>>
request == <<pc, ask, again, old>>
ghosts == <<writes, blurred, raced>>
vars == <<server, session, browser, request, ghosts>>

Labels == {"Browser", "RootDSE", "Check", "Reread", "Modify", "Redisplay"}
Nothing == [a \in Attrs |-> {}]
NoForm == [shown |-> FALSE, type |-> "Template", vals |-> Nothing, stamp |-> NoStamp,
           assertion |-> NoStamp, oldtypes |-> {}]

Init ==
  /\ now = 0
  /\ entry = [there |-> TRUE, vals |-> Initial, stamp |-> [time |-> 0, by |-> "other"]]
  /\ asserts \in BOOLEAN
  /\ changes = 0
  /\ identity \in Identities
  /\ ctrl = FALSE
  /\ submits = 0
  /\ form = NoForm
  /\ seen = [vals |-> Nothing, stamp |-> NoStamp, shown |-> Nothing]
  /\ pc = "Browser" /\ ask = "save" /\ again = FALSE
  /\ old = Nothing
  /\ writes = 0 /\ blurred = FALSE /\ raced = FALSE

-----------------------------------------------------------------------------
(* The server and those who share it.                                       *)

Tick ==
  /\ now < MaxTime
  /\ now' = now + 1
  /\ UNCHANGED <<entry, asserts, changes, session, browser, request, ghosts>>

(* A modification at the server sets modifyTimestamp and modifiersName. *)
Write(vals, by) ==
  /\ entry' = [there |-> TRUE, vals |-> vals, stamp |-> [time |-> now, by |-> by]]
  /\ blurred' = (blurred \/ seen.stamp = [time |-> now, by |-> by])
  /\ raced' = TRUE

(* By another client, or by this user in another window. *)
OtherWrites(a, c, by) ==
  /\ changes < MaxChanges
  /\ changes' = changes + 1
  /\ entry.there /\ entry.vals[a] # c
  /\ Write([entry.vals EXCEPT ![a] = c], by)
  /\ UNCHANGED <<now, asserts, session, browser, request, writes>>

OtherDeletes ==
  /\ changes < MaxChanges
  /\ changes' = changes + 1
  /\ entry.there
  /\ entry' = [entry EXCEPT !.there = FALSE]
  /\ raced' = TRUE
  /\ UNCHANGED <<now, asserts, session, browser, request, writes, blurred>>

(* Another request of the session is in init_rootdse(): between             *)
(* _reset_rootdse_attrs() and the answer, or after an error, the session    *)
(* knows of no control.                                                      *)
OtherRootDSE ==
  /\ ctrl' \in {FALSE, asserts} /\ ctrl' # ctrl
  /\ UNCHANGED <<identity, server, browser, request, ghosts>>

-----------------------------------------------------------------------------
(* Forms.                                                                   *)

(* What each type of form has of these values: a syntax class that is not  *)
(* editable shows an empty field, the LDIF text has everything.             *)
ShownAs(type, vals) == [a \in Attrs |-> IF a \in Binary /\ type # "LDIF" THEN {} ELSE vals[a]]

(* Attributes of no user application are hidden fields of the table only.   *)
Carried(type, stamp) == IF type = "Table" THEN stamp ELSE NoStamp

(* The form made of an entry that was read or posted with this stamp: the  *)
(* mutant makes the filter of the entry as it is now.                        *)
FormOf_Reread(type, vals, stamp, oldtypes) ==
  [shown |-> TRUE, type |-> type, vals |-> ShownAs(type, vals), oldtypes |-> oldtypes,
   stamp |-> Carried(type, stamp), assertion |-> entry.stamp]
FormOf(type, vals, stamp, oldtypes) ==
  [shown |-> TRUE, type |-> type, vals |-> ShownAs(type, vals), oldtypes |-> oldtypes,
   stamp |-> Carried(type, stamp), assertion |-> stamp]

(* read_old_entry() *)
Read == [a \in Attrs |-> IF a \in Readable[identity] THEN entry.vals[a] ELSE {}]

(* The first request of an edit, without input. *)
OpenForm(type) ==
  /\ pc = "Browser" /\ submits < MaxSubmits
  /\ entry.there
  /\ submits' = submits + 1
  /\ form' = FormOf(type, Read, entry.stamp, {a \in Attrs : Read[a] # {}})
  /\ seen' = [vals |-> entry.vals, stamp |-> entry.stamp, shown |-> ShownAs(type, Read)]
  /\ blurred' = FALSE
  /\ ctrl' = asserts
  /\ UNCHANGED <<identity, server, request, writes, raced>>

(* The user changes a value and presses a button.  Between two requests the *)
(* session may have been bound as someone else, by the login form that       *)
(* keeps the input.                                                          *)
Submit(a, c, button, who) ==
  /\ pc = "Browser" /\ submits < MaxSubmits
  /\ form.shown
  /\ submits' = submits + 1
  /\ form' = [form EXCEPT !.vals[a] = c]
  /\ pc' = "RootDSE" /\ ask' = button /\ again' = FALSE
  /\ identity' = who
  /\ raced' = FALSE
  /\ UNCHANGED <<server, ctrl, seen, old, writes, blurred>>

-----------------------------------------------------------------------------
(* The request.                                                             *)

Goto(c) == pc' = c /\ UNCHANGED <<ask, again, old>>

(* The page is no form; the user can go back to the form. *)
Answer == Goto("Browser")

RootDSE ==
  /\ pc = "RootDSE"
  /\ ctrl' \in {FALSE, asserts}
  /\ Goto("Check")
  /\ UNCHANGED <<identity, server, browser, ghosts>>

(* The button is one that switches the form (in_ft, in_oc, in_mr). *)
Switched == ask # "save"

(* get_entry_input() finds the values valid or not; the input form is shown  *)
(* again to be switched or corrected.                                        *)
Check ==
  /\ pc = "Check"
  /\ (~Switched /\ Goto("Reread")) \/ Goto("Redisplay")
  /\ UNCHANGED <<server, session, browser, ghosts>>

(* w2l_modifyform() makes the filter of the values posted, which have the   *)
(* stamp only if the form before was a table.                                *)
Redisplay ==
  /\ pc = "Redisplay"
  /\ Answer
  /\ \/ /\ entry.there
        /\ form' = FormOf(IF ask = "save" THEN form.type ELSE ask, form.vals, form.stamp, form.oldtypes)
     \/ ~entry.there /\ UNCHANGED form
  /\ UNCHANGED <<server, session, submits, seen, ghosts>>

(* The filter in a search or in the assertion control. *)
Asserted == entry.there /\ form.assertion \in {NoStamp, entry.stamp}

(* The mutant reads the entry without the filter. *)
Reread_Unfiltered ==
  /\ pc = "Reread"
  /\ IF entry.there THEN pc' = "Modify" /\ old' = Read ELSE pc' = "Browser" /\ old' = old
  /\ UNCHANGED <<ask, again, server, session, browser, ghosts>>
Reread ==
  /\ pc = "Reread"
  /\ IF Asserted THEN pc' = "Modify" /\ old' = Read ELSE pc' = "Browser" /\ old' = old
  /\ UNCHANGED <<ask, again, server, session, browser, ghosts>>

(* Attributes that were not shown before are left alone, and those that     *)
(* cannot be edited, unless a new value was posted.                          *)
Ignored_Nothing == {a \in Binary : old[a] # {}}
Ignored == {a \in Attrs : old[a] # {} /\ (a \notin form.oldtypes \/ a \in Binary)}
Uploaded == {a \in Binary : form.vals[a] \notin {{}, old[a]}}
Modified == {a \in Attrs \ Ignored : form.vals[a] # old[a]} \union Uploaded

(* The modifications remove and add single values, or replace all of them.  *)
(* What they make of the values v an attribute has now, and when the server  *)
(* refuses them; values are added to an attribute the reader has not seen.   *)
Whole(a) == a \in Binary \/ (a \in Replaced /\ old[a] # {})
Gone(a) == old[a] \ form.vals[a]
New(a) == form.vals[a] \ old[a]
Change(a, v) == IF Whole(a) THEN form.vals[a] ELSE (v \ Gone(a)) \union New(a)
Fits(a, v) ==
  \/ Whole(a) /\ old[a] # {}
  \/ Gone(a) \subseteq v /\ New(a) \intersect v = {}

(* LDAPSession.modify() sends the assertion control if it knows that the    *)
(* server has it; the mutant never does.                                     *)
Guarded_Never == FALSE
Guarded == ctrl

Permitted == entry.there /\ (Guarded => Asserted) /\ \A a \in Modified : Fits(a, entry.vals[a])

Apply ==
  /\ Permitted
  /\ Write([a \in Attrs |-> IF a \in Modified THEN Change(a, entry.vals[a]) ELSE entry.vals[a]], "me")
  /\ writes' = writes + 1

NotApplied == UNCHANGED <<entry, ghosts>>

(* After SERVER_DOWN, before or after the server had done it, libldap's      *)
(* reconnecting object sends the modification again, or run() dispatches     *)
(* the command again, from the start.                                        *)
Repeat == again' = TRUE /\ ~again /\ pc' \in {"Modify", "Check"} /\ UNCHANGED <<ask, old>>

(* Other errors lead back to the form, or to another page. *)
Modify ==
  /\ pc = "Modify"
  /\ \/ Modified = {} /\ NotApplied /\ Answer
     \/ Modified # {} /\ Apply /\ (Answer \/ Repeat)
     \/ Modified # {} /\ NotApplied /\ (Goto("Redisplay") \/ Answer \/ Repeat)
  /\ UNCHANGED <<now, asserts, changes, session, browser>>

Others ==
  \/ Tick \/ OtherDeletes \/ OtherRootDSE
  \/ \E a \in Attrs, c \in Contents, by \in Authors : OtherWrites(a, c, by)

User ==
  \/ \E type \in Types : OpenForm(type)
  \/ \E a \in Attrs, c \in Contents, button \in Types \union {"save"}, who \in Identities :
        Submit(a, c, button, who)

Next == Others \/ User \/ RootDSE \/ Check \/ Redisplay \/ Reread \/ Modify

Spec == Init /\ [][Next]_vars

-----------------------------------------------------------------------------
(* Properties.                                                              *)

Vals == [Attrs -> Contents]
Forms == [shown : BOOLEAN, type : Types, vals : Vals, stamp : Stamps \union {NoStamp},
          assertion : Stamps \union {NoStamp}, oldtypes : SUBSET Attrs]

(* Every variable has its type. *)
TypeOK ==
  /\ now \in Nat
  /\ entry \in [there : BOOLEAN, vals : Vals, stamp : Stamps]
  /\ asserts \in BOOLEAN
  /\ changes \in Nat
  /\ identity \in Identities
  /\ ctrl \in BOOLEAN
  /\ submits \in Nat
  /\ form \in Forms
  /\ seen \in [vals : Vals, stamp : Stamps \union {NoStamp}, shown : Vals]
  /\ pc \in Labels
  /\ ask \in Types \union {"save"}
  /\ again \in BOOLEAN
  /\ old \in Vals
  /\ writes \in Nat
  /\ blurred \in BOOLEAN
  /\ raced \in BOOLEAN

(* A modification overwrites the entry the user has seen and no other, if   *)
(* its form names the stamp of the entry: with the assertion control always, *)
(* without it unless the entry changes during the request itself.  Stamps    *)
(* tell changes apart only if they are not made by one user in one second.   *)
NoLostUpdate ==
  [][(writes' # writes /\ form.assertion # NoStamp /\ ~blurred /\ (ctrl \/ ~raced))
       => entry.vals = seen.vals]_vars

(* A value the user has not touched is not changed by his modification, also *)
(* when it is applied to a later entry because there is no assertion control. *)
EditedOnly ==
  [][(writes' # writes /\ form.assertion # NoStamp /\ ~blurred)
       => \A a \in Readable[identity] : form.vals[a] = seen.shown[a] => entry'.vals[a] = entry.vals[a]]_vars

(* "All attributes currently read which were not visible before must be     *)
(* ignored to avoid problems with different access rights after possible     *)
(* re-login" (modify.py): no value of an attribute the form has never shown   *)
(* is removed, whatever the form has become over several requests.            *)
HiddenKept ==
  [][writes' # writes
       => \A a \in Attrs \ Binary : seen.shown[a] = {} => entry.vals[a] \subseteq entry'.vals[a]]_vars

(* "Old entry was removed or modified in between! You have to edit it       *)
(* again." (modify.py): what was changed before the request began is never   *)
(* overwritten.                                                              *)
EditStartsAgain ==
  [][(writes' # writes /\ ~blurred /\ ~raced) => entry.vals = seen.vals]_vars
=============================================================================
