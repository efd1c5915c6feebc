----------------------------- MODULE GroupAdmin ----------------------------
(***************************************************************************)
(* app/groupadm.py: an entry is added to groups and removed from groups,    *)
(* with one modify request per group, while other clients change groups.     *)
(*                                                                         *)
(* groupadm_defs names for each object class of groups the attribute of its *)
(* members and, for some, the attribute of the user's entry that is the       *)
(* value.  A group may have several of these classes.  Left out: names of    *)
(* groups to search for, search roots, the option groups of the page.        *)
(***************************************************************************)
EXTENDS FiniteSets, Naturals

CONSTANTS
  Groups,
  Classes,      \* groupadm_defs.keys()
  ByAttr,       \* classes whose members are named by an attribute of theirs
  Unsearched,   \* classes with False as third item in groupadm_defs
  ClassesOf,    \* the classes of each group
  Frozen,       \* groups the server does not let this user modify
  MaxChanges    \* bound of the changes by others, for model checking

GroupAssumption ==
  /\ ByAttr \subseteq Classes /\ Unsearched \subseteq Classes
  /\ ClassesOf \in [Groups -> SUBSET Classes]
  /\ Frozen \subseteq Groups
  /\ MaxChanges \in Nat

VARIABLES
  pc,      \* the point w2l_groupadm() has reached
  form,    \* groupadm_add and groupadm_remove
  dir,     \* the groups, the user's attribute, and the changes so far
  work,    \* locals of w2l_groupadm()
  report,  \* what the page says
  past     \* history: modifications the server has done, answers lost

vars == <<pc, form, dir, work, report, past>>

Init ==
  /\ pc = "ReadUser"
  /\ form \in {f \in [add : SUBSET Groups, remove : SUBSET Groups] : f.add \intersect f.remove = {}}
  /\ dir \in [there : {[g \in Groups |-> TRUE]},
              member : {m \in [Groups -> SUBSET Classes] : \A g \in Groups : m[g] \in {{}, ClassesOf[g]}},
              named : BOOLEAN, changes : {0}]
  /\ work = [found |-> {}, todo |-> {}, again |-> FALSE]
  /\ report = [done |-> {}, failed |-> {}, error |-> FALSE]
  /\ past = [modified |-> {}, lost |-> FALSE]

-----------------------------------------------------------------------------
(* Other clients. *)

OtherDeletes(g) ==
  /\ dir.changes < MaxChanges /\ dir.there[g]
  /\ dir' = [dir EXCEPT !.there[g] = FALSE, !.changes = @ + 1]
  /\ UNCHANGED <<pc, form, work, report, past>>

OtherChanges(g) ==
  /\ dir.changes < MaxChanges /\ dir.there[g]
  /\ dir' = [dir EXCEPT !.member[g] = ClassesOf[g] \ @, !.changes = @ + 1]
  /\ UNCHANGED <<pc, form, work, report, past>>

-----------------------------------------------------------------------------
(* The command. *)

(* SERVER_DOWN while it searches: run() dispatches the command again, once.  *)
Redispatch ==
  /\ pc \in {"ReadUser", "SearchAll", "SearchMember"}
  /\ pc' = IF work.again THEN "Error" ELSE "ReadUser"
  /\ work' = [found |-> {}, todo |-> {}, again |-> TRUE]
  /\ report' = [done |-> {}, failed |-> {}, error |-> FALSE]
  /\ past' = [modified |-> {}, lost |-> TRUE]
  /\ UNCHANGED <<form, dir>>

(* filter_components: classes whose value the user's entry has. *)
Searched == {c \in Classes \ Unsearched : c \in ByAttr => dir.named}

ReadUser ==
  /\ pc = "ReadUser"
  /\ pc' \in {"SearchAll", "Error"}                  \* no such entry
  /\ UNCHANGED <<form, dir, work, report, past>>

(* all_groups_dict; NO_SUCH_OBJECT or a limit leaves a part of it, with      *)
(* error_msg.                                                                 *)
SearchAll ==
  /\ pc = "SearchAll"
  /\ LET all == {g \in Groups : dir.there[g] /\ ClassesOf[g] \intersect Searched # {}}
     IN \/ work' = [work EXCEPT !.found = all, !.todo = form.add \union form.remove] /\ report' = report
        \/ \E part \in SUBSET all :
             /\ work' = [work EXCEPT !.found = part, !.todo = form.add \union form.remove]
             /\ report' = [report EXCEPT !.error = TRUE]
  /\ pc' = "Modify"
  /\ UNCHANGED <<form, dir, past>>

(* A group that is not found, any more, is left out. *)
Skip(g) ==
  /\ pc = "Modify" /\ g \in work.todo \ work.found
  /\ g \in form.remove => form.add \intersect work.todo = {}
  /\ work' = [work EXCEPT !.todo = @ \ {g}]
  /\ UNCHANGED <<pc, form, dir, report, past>>

(* A class needs an attribute the user does not have: ErrorExit, whatever    *)
(* was modified before.                                                       *)
Lacks(g) == ~dir.named /\ ClassesOf[g] \intersect ByAttr # {}

(* The classes of the modlist: all of the group, in one request.             *)
Modlist(g) == ClassesOf[g]

Accepted(g, d) ==
  /\ d.there[g] /\ g \notin Frozen
  /\ g \in form.add => Modlist(g) \intersect d.member[g] = {}
  /\ g \in form.remove => Modlist(g) \subseteq d.member[g]
Changed(g, d) ==
  [d EXCEPT !.member[g] = IF g \in form.add THEN @ \union Modlist(g) ELSE @ \ Modlist(g)]

(* The answer to one modify request.  The mutant counts as done what was     *)
(* not refused because it was not asked for.                                  *)
Answered_Always(g, ok) == [report EXCEPT !.done = @ \union {g}]
Answered(g, ok) ==
  IF ok THEN [report EXCEPT !.done = @ \union {g}] ELSE [report EXCEPT !.failed = @ \union {g}]

(* An answer that is lost is asked for again on a new connection, and the    *)
(* repetition is refused.                                                     *)
Modify(g) ==
  /\ pc = "Modify" /\ g \in work.todo \intersect work.found
  /\ g \in form.remove => form.add \intersect work.todo = {}
  /\ work' = [work EXCEPT !.todo = @ \ {g}]
  /\ \/ /\ Lacks(g) /\ pc' = "Error"
        /\ UNCHANGED <<dir, report, past>>
     \/ /\ ~Lacks(g) /\ pc' = pc /\ Accepted(g, dir)
        /\ dir' = Changed(g, dir)
        /\ \/ report' = Answered(g, TRUE) /\ past' = [past EXCEPT !.modified = @ \union {g}]
           \/ /\ report' = Answered(g, Accepted(g, dir'))
              /\ past' = [modified |-> past.modified \union {g}, lost |-> TRUE]
     \/ /\ ~Lacks(g) /\ pc' = pc /\ ~Accepted(g, dir)
        /\ report' = Answered(g, FALSE)
        /\ UNCHANGED <<dir, past>>
  /\ UNCHANGED form

Modified ==
  /\ pc = "Modify" /\ work.todo = {}
  /\ pc' = "SearchMember"
  /\ UNCHANGED <<form, dir, work, report, past>>

(* The second search; its NO_SUCH_OBJECT or limit replaces error_msg, with   *)
(* the errors of the modifications.                                           *)
SearchMember ==
  /\ pc = "SearchMember"
  /\ \/ report' = report
     \/ report' = [report EXCEPT !.failed = {}, !.error = TRUE]
  /\ pc' = "Page"
  /\ UNCHANGED <<form, dir, work, past>>

Others == \E g \in Groups : OtherDeletes(g) \/ OtherChanges(g)
Command ==
  \/ ReadUser \/ SearchAll \/ Modified \/ SearchMember \/ Redispatch
  \/ \E g \in Groups : Skip(g) \/ Modify(g)
Next == Others \/ Command

Spec == Init /\ [][Next]_vars

-----------------------------------------------------------------------------
(* Properties. *)

(* Every variable has its type. *)
TypeOK ==
  /\ pc \in {"ReadUser", "SearchAll", "Modify", "SearchMember", "Page", "Error"}
  /\ form \in [add : SUBSET Groups, remove : SUBSET Groups]
  /\ dir \in [there : [Groups -> BOOLEAN], member : [Groups -> SUBSET Classes],
              named : BOOLEAN, changes : Nat]
  /\ work \in [found : SUBSET Groups, todo : SUBSET Groups, again : BOOLEAN]
  /\ report \in [done : SUBSET Groups, failed : SUBSET Groups, error : BOOLEAN]
  /\ past \in [modified : SUBSET Groups, lost : BOOLEAN]

(* Each group is named on the page on one side only; "Added to" or "Removed *)
(* from" names none the server has not modified, and, unless an answer was    *)
(* lost, names all it has; what was selected and is not named was not found.  *)
GroupsNamed ==
  /\ report.done \intersect report.failed = {}
  /\ report.done \subseteq past.modified
  /\ ~past.lost => past.modified = report.done
  /\ (pc = "Page" /\ ~report.error) => form.add \union form.remove \subseteq
       report.done \union report.failed \union (Groups \ work.found)

(* A group of several classes has the user by all of them or by none: there *)
(* is one request per group, whatever fails between two groups.               *)
NoHalfMember == \A g \in Groups : dir.there[g] => dir.member[g] \in {{}, ClassesOf[g]}
=============================================================================
