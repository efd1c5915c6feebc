--------------------------- MODULE PasswordChange --------------------------
(***************************************************************************)
(* app/passwd.py: a password is set by the extended operation or by one     *)
(* modify request, with the attributes that go with it; whoever has changed   *)
(* the own password must log in again; run() dispatches the command a second   *)
(* time when the server is down.                                              *)
(*                                                                         *)
(* Whose password it is: "self" has the DN as LDAPSession.who writes it,      *)
(* "alias" the same DN written otherwise, "nobody" is any entry while nobody  *)
(* is logged in.  Left out: hash schemes, templates, the wording of pages.    *)
(***************************************************************************)
EXTENDS FiniteSets

CONSTANTS
  Schemas,     \* sets of what schema and server know, each a subset of Features
  Forms,       \* forms that are sent, each in FormType
  TupleSet     \* whether the site has configured passwd_modlist, a tuple

Features == {"extop", "readable", "pwdReset", "aux", "userPassword", "shadow", "nt", "ntTime"}
Generated == {"gen", "regen"}
Own == {"new"} \union Generated
Secrets == {"old", "foreign"} \union Own
FormType == [action : {"default", "passwdextop", "setuserpassword"},
             input : {"none", "single", "differ", "empty", "new"}, old : {"none", "right", "wrong"},
             force : BOOLEAN, ntsync : BOOLEAN, timesync : BOOLEAN,
             who : {"self", "alias", "other", "nobody"}]

PasswordAssumption ==
  Schemas \subseteq SUBSET Features /\ Forms \subseteq FormType /\ TupleSet \in BOOLEAN

VARIABLES
  pc,      \* the page in the browser, or the point the request has reached
  form,    \* its fields
  dir,     \* the entry, and what schema and server know
  work,    \* the password to be set; whose the session is and the bind l repeats; the dispatch
  report,  \* the passwords shown on a page
  past     \* history: an answer lost, what follows the setting of the password failed

vars == <<pc, form, dir, work, report, past>>

(* bound: app.ls.who is that of the entry; last: l repeats that bind when it *)
(* reconnects; reads: the session can still read what it could at first.      *)
Init ==
  /\ pc = "Form"
  /\ form \in Forms
  /\ dir \in [pw : {"old"}, nt : {"old"}, set : {{}}, knows : Schemas]
  /\ LET bound == form.who \in {"self", "alias"}
     IN  work = [secret |-> "", bound |-> bound, last |-> bound, again |-> FALSE, reads |-> TRUE]
  /\ report = {}
  /\ past = [lost |-> FALSE, cut |-> FALSE]

-----------------------------------------------------------------------------
(* What is asked for. *)

Action ==
  IF form.action # "default" THEN form.action
  ELSE IF "extop" \in dir.knows THEN "passwdextop" ELSE "setuserpassword"

(* password_self_change() compares two strings. *)
SelfChange == form.who = "nobody" \/ (form.who = "self" /\ work.bound)

(* get_all_attributes(): none if the object classes cannot be read. *)
AllAttrs == IF "readable" \in dir.knows /\ work.reads THEN dir.knows ELSE {}

(* The attributes in passwd_modlist, for each of the two ways; those of the *)
(* modify request besides the password itself.  The mutant has the block of   *)
(* sambaNTPassword in that of passwd_settimesync.                             *)
ForceChange == IF form.force THEN dir.knows \intersect {"pwdReset"} ELSE {}
AuxClass == IF "userPassword" \in AllAttrs THEN {} ELSE AllAttrs \intersect {"aux"}
Modlist_Indented ==
  ForceChange \union AuxClass
  \union IF form.timesync THEN AllAttrs \intersect ({"shadow"} \union IF form.ntsync THEN {"nt", "ntTime"} ELSE {}) ELSE {}
Modlist ==
  ForceChange \union AuxClass
  \union (IF form.timesync THEN AllAttrs \intersect {"shadow"} ELSE {})
  \union (IF form.ntsync THEN AllAttrs \intersect {"nt"} ELSE {})
  \union (IF form.ntsync /\ form.timesync /\ "nt" \in AllAttrs THEN AllAttrs \intersect {"ntTime"} ELSE {})

-----------------------------------------------------------------------------
(* The server is down.                                                       *)

(* Reconnecting, l binds again with what it has kept, and is refused if that *)
(* is a password the entry has not any more.                                  *)
Rebinds(d) == work.last => d.pw = "old"

(* SERVER_DOWN leaves w2l_passwd(): run() reconnects and dispatches the       *)
(* request once more; a second time, or if that fails, it ends in a page about  *)
(* the error.                                                                 *)
Redispatch(d) == IF Rebinds(d) /\ ~work.again THEN {"Dispatch"} ELSE {}

-----------------------------------------------------------------------------
(* The form. *)

Complete == form.input \in {"empty", "new"}

(* passwd_form(); "Repeat password!" is an error page. *)
Incomplete ==
  /\ pc = "Form"
  /\ \/ form.input \in {"none", "differ"} /\ pc' = "Form"
     \/ form.input = "single" /\ pc' = "Error"
  /\ UNCHANGED <<form, dir, work, report, past>>

(* The entry is read before anything else. *)
ReadFails ==
  /\ \/ pc \in {"Form", "Dispatch"} /\ pc' = "Error"
     \/ pc = "Form" /\ Complete /\ Rebinds(dir) /\ pc' = "Dispatch"
  /\ UNCHANGED <<form, dir, work, report, past>>

(* append() and extend() of a tuple raise AttributeError before anything is *)
(* sent.                                                                      *)
Fixed == TupleSet /\ (ForceChange # {} \/ Action = "setuserpassword")

(* Every dispatch generates a password of its own.                            *)
Submit ==
  /\ pc \in {"Form", "Dispatch"} /\ Complete
  /\ pc' = IF Fixed THEN "Error" ELSE IF Action = "passwdextop" THEN "ExtOp" ELSE "Modify"
  /\ work' = [work EXCEPT !.secret = IF form.input = "new" THEN "new" ELSE IF dir.pw = "gen" THEN "regen" ELSE "gen",
                          !.again = (pc = "Dispatch")]
  /\ UNCHANGED <<form, dir, report, past>>

-----------------------------------------------------------------------------
(* The server. *)

OtherChanges ==
  /\ pc \in {"ExtOp", "Modify"} /\ dir.pw = "old"
  /\ dir' = [dir EXCEPT !.pw = "foreign"]
  /\ UNCHANGED <<pc, form, work, report, past>>

(* An old password is sent by the extended operation if it was given, and   *)
(* as value to be deleted if it is the own password.                          *)
OldSent == form.old # "none" /\ (Action = "passwdextop" \/ SelfChange)
OldRight(d) == OldSent => form.old = "right" /\ d.pw = "old"

WithSecret(d, attrs) ==
  [d EXCEPT !.pw = work.secret, !.nt = IF "nt" \in attrs THEN work.secret ELSE @,
            !.set = @ \union (attrs \ {"nt"})]

(* The password is set with some attributes, and the command goes on; or the *)
(* answer is lost, and the request that l repeats is answered; or the request    *)
(* is refused.  Constraint violations and a wrong old password go back to the    *)
(* form, other errors to run().                                               *)
Request(attrs, next) ==
  \/ /\ OldRight(dir)
     /\ dir' = WithSecret(dir, attrs)
     /\ \/ pc' = next /\ UNCHANGED past
        \/ /\ \/ pc' \in {"Error"} \union Redispatch(dir')
              \/ pc' = "Form" /\ Rebinds(dir')
              \/ pc' = next /\ Rebinds(dir') /\ OldRight(dir')
           /\ past' = [past EXCEPT !.lost = TRUE]
  \/ /\ pc' \in {"Form", "Error"} \union Redispatch(dir)
     /\ UNCHANGED <<dir, past>>

ExtOp ==
  /\ pc = "ExtOp"
  /\ Request({}, IF ForceChange # {} \/ TupleSet THEN "ModifyRest" ELSE "Set")
  /\ UNCHANGED <<form, work, report>>

(* app.ls.modify() with the rest of the modlist: what it raises leaves to   *)
(* run(), and with it the message that has the password.                      *)
ModifyRest ==
  /\ pc = "ModifyRest"
  /\ \/ pc' = "Set" /\ dir' = [dir EXCEPT !.set = @ \union ForceChange] /\ UNCHANGED past
     \/ /\ pc' \in {"Error"} \union Redispatch(dir)
        /\ dir' \in {dir, [dir EXCEPT !.set = @ \union ForceChange]}
        /\ past' = [past EXCEPT !.cut = TRUE]
  /\ UNCHANGED <<form, work, report>>

(* All attributes in one request. *)
Modify ==
  /\ pc = "Modify"
  /\ Request(Modlist, "Set")
  /\ UNCHANGED <<form, work, report>>

-----------------------------------------------------------------------------
(* Afterwards. *)

(* The password of the message: one that was generated. *)
Shown == {work.secret} \intersect Generated

(* reconnect() without a bind: the session becomes anonymous and the login   *)
(* form has the message.                                                      *)
Relogin ==
  /\ pc = "Set" /\ SelfChange
  /\ pc' = "Login"
  /\ work' = [work EXCEPT !.bound = FALSE, !.last = FALSE]
  /\ report' = report \union Shown
  /\ UNCHANGED <<form, dir, past>>

(* Only INAPPROPRIATE_AUTH is caught: if the server is down the session keeps *)
(* its name, though l does not bind any more, and the message is lost.  Once     *)
(* more dispatched, the command may not read the entry any more.              *)
ReloginFails ==
  /\ pc = "Set" /\ SelfChange
  /\ pc' \in {"Error"} \union (IF work.again THEN {} ELSE {"Dispatch"})
  /\ \E reads \in {work.reads, FALSE} : work' = [work EXCEPT !.last = FALSE, !.reads = reads]
  /\ past' = [past EXCEPT !.cut = TRUE]
  /\ UNCHANGED <<form, dir, report>>

Message ==
  /\ pc = "Set" /\ ~SelfChange
  /\ pc' = "Message"
  /\ report' = report \union Shown
  /\ UNCHANGED <<form, dir, work, past>>

Next ==
  \/ Incomplete \/ ReadFails \/ Submit \/ OtherChanges
  \/ ExtOp \/ ModifyRest \/ Modify \/ Relogin \/ ReloginFails \/ Message

Spec == Init /\ [][Next]_vars

-----------------------------------------------------------------------------
(* Properties. *)

(* Every variable has its type. *)
TypeOK ==
  /\ pc \in {"Form", "Dispatch", "ExtOp", "ModifyRest", "Modify", "Set", "Login", "Message", "Error"}
  /\ form \in Forms
  /\ dir \in [pw : Secrets, nt : Secrets, set : SUBSET Features, knows : Schemas]
  /\ work \in [secret : {""} \union Own, bound : BOOLEAN, last : BOOLEAN, again : BOOLEAN, reads : BOOLEAN]
  /\ report \subseteq Generated
  /\ past \in [lost : BOOLEAN, cut : BOOLEAN]

(* Where both hashes are asked for and the entry can have both, the command *)
(* sets both or none, and to the same password, in whatever way it fails and     *)
(* however often it is dispatched; not if it could not read the entry the second *)
(* time.                                                                      *)
HashesInStep ==
  (Action = "setuserpassword" /\ form.ntsync /\ {"readable", "nt"} \subseteq dir.knows /\ work.reads)
    => (dir.pw \in Own \/ dir.nt \in Own => dir.pw = dir.nt)

(* A generated password is in the entry only if a page has shown it, once   *)
(* the command has ended.  The page of success always has it; an error page or   *)
(* the form may not, if an answer was lost or if what follows the setting of the  *)
(* password failed: the rest of the modlist, or the reconnect of the session.   *)
GeneratedIsShown ==
  /\ pc \in {"Login", "Message"} /\ dir.pw \in Generated => dir.pw \in report
  /\ pc \in {"Form", "Error"} /\ dir.pw \in Generated /\ ~past.lost /\ ~past.cut => dir.pw \in report

(* When the command shows success no session stays bound with a password    *)
(* that is not valid any more, but for a DN that is written in another way;    *)
(* and a user who is not logged in gets the login form.                       *)
SuccessEndsLogin ==
  /\ (pc = "Message" /\ work.bound) => form.who \in {"alias", "other"}
  /\ pc = "Login" => ~work.bound /\ ~work.last
  /\ pc = "Message" => form.who # "nobody"
=============================================================================
