--------------------------- MODULE RecursiveDelete --------------------------
(***************************************************************************)
(* app/delete.py: the command delete, from the confirmation to the entries *)
(* it removes.  LDAP servers delete leaf entries only, so delete_entries() *)
(* searches the subtree, deletes the leaf entries the search returns and   *)
(* repeats below the others, until nothing is left or 90 seconds are over.  *)
(*                                                                         *)
(* The results of a search are streamed: the server sends an entry with    *)
(* its hasSubordinates at any time between the start of the search and the *)
(* moment DeleteLeafs processes it, so what the client knows of an entry    *)
(* may be outdated by its own deletions and by other clients.  The server   *)
(* limits the entries a search returns and refuses to delete some.          *)
(***************************************************************************)
EXTENDS Integers, FiniteSets

CONSTANTS
  Entries,     \* all entries there can be
  Parent,      \* the parent of each entry, or NoEntry
  Above,       \* each entry with all entries above it
  NoEntry,
  Base,        \* the entry the command is applied to
  Initial,     \* the entries at first
  Scopes,      \* scopes to choose from, of "base", "onelevel", "subtree"
  Controls,    \* whether the tree delete control is used, of TRUE, FALSE
  Filters,     \* sets of entries a delete filter can match
  Refusals,    \* sets of entries the server refuses to delete
  Attributes,  \* whether entries have hasSubordinates, of TRUE, FALSE
  SizeLimits,  \* entries a search returns at most
  MaxChanges   \* bound of the changes by other clients, for model checking

ASSUME DeleteAssumption ==
  /\ IsFiniteSet(Entries)
  /\ NoEntry \notin Entries
  /\ Parent \in [Entries -> Entries \union {NoEntry}]
  /\ Above \in [Entries -> SUBSET Entries]
  /\ Base \in Initial
  /\ Initial \subseteq Entries
  /\ \A e \in Initial : Parent[e] \in Initial \union {NoEntry}
  /\ Scopes \subseteq {"base", "onelevel", "subtree"}
  /\ Controls \subseteq BOOLEAN
  /\ Filters \subseteq SUBSET Entries
  /\ Refusals \subseteq SUBSET Entries
  /\ Attributes \subseteq BOOLEAN
  /\ SizeLimits \subseteq Nat \ {0}
  /\ MaxChanges \in Nat

(* Parent and Above describe one tree. *)
ASSUME TreeAssumption ==
  /\ \A e \in Entries : e \in Above[e]
  /\ \A e \in Entries : Parent[e] = NoEntry => Above[e] = {e}
  /\ \A e \in Entries : Parent[e] # NoEntry => Above[e] = {e} \union Above[Parent[e]]
  /\ \A d, e \in Entries : e \in Above[d] => Above[e] \subseteq Above[d]
  /\ \A d, e \in Entries : e \in Above[d] /\ d \in Above[e] => d = e
  /\ \A e \in Entries : Parent[e] # e

VARIABLES
  tree,     \* the entries of the directory
  job,      \* what the user confirmed, and how the server behaves
  late,     \* time.time() > end_time
  changes,  \* changes by other clients, against the bound MaxChanges
  pc,
  dn,       \* the entry the current search is for
  round,    \* the loop of delete_entries() the search is in
  pending,  \* entries the search has found and the server has not sent
  arrived,  \* results [dn, sub] not yet processed
  sent,     \* how many results the server has sent
  leafs,    \* attributes of DeleteLeafs
  total,    \* local variables of delete_entries()
  removed   \* the entries this command has removed

serverVars == <<tree, job, late, changes>>
searchVars == <<dn, round, pending, arrived, sent>>
vars == <<serverVars, pc, searchVars, leafs, total, removed>>

Labels == {"Confirm", "First", "Rest", "Results", "Done", "Canceled", "Raised"}

NoLeafs == [deleted |-> 0, non_leaf |-> {}, non_deletable |-> {}]

Jobs == [confirm : BOOLEAN, scope : Scopes, ctrl : Controls, filter : Filters,
         refused : Refusals, attr : Attributes, limit : SizeLimits]

Init ==
  /\ tree = Initial
  /\ job \in Jobs
  /\ late = FALSE
  /\ changes = 0
  /\ pc = "Confirm"
  /\ dn = Base
  /\ round = "First"
  /\ pending = {}
  /\ arrived = {}
  /\ sent = 0
  /\ leafs = NoLeafs
  /\ total = NoLeafs
  /\ removed = {}

-----------------------------------------------------------------------------
(* The directory.                                                           *)

Children(e) == {c \in tree : Parent[c] = e}
Subtree(e) == {c \in tree : e \in Above[c]}

(* What a search from b with this scope finds; the mutant takes the base   *)
(* into a one-level search.                                                 *)
Found_Base(b, scope) ==
  {e \in tree : /\ e \in job.filter
                /\ \/ scope = "onelevel" /\ (Parent[e] = b \/ e = b)
                   \/ scope = "subtree" /\ b \in Above[e]}
Found(b, scope) ==
  {e \in tree : /\ e \in job.filter
                /\ \/ scope = "onelevel" /\ Parent[e] = b
                   \/ scope = "subtree" /\ b \in Above[e]}

(* Other clients add and delete entries at any time; what they add is new,  *)
(* so that removed can be a set.                                            *)
OtherAdds(e) ==
  /\ changes < MaxChanges
  /\ e \notin tree \union removed
  /\ Parent[e] \in tree
  /\ tree' = tree \union {e}
  /\ changes' = changes + 1
  /\ UNCHANGED <<job, late, pc, searchVars, leafs, total, removed>>

OtherDeletes(e) ==
  /\ changes < MaxChanges
  /\ e \in tree
  /\ Children(e) = {}
  /\ tree' = tree \ {e}
  /\ changes' = changes + 1
  /\ UNCHANGED <<job, late, pc, searchVars, leafs, total, removed>>

TimeOut ==
  /\ ~late
  /\ late' = TRUE
  /\ UNCHANGED <<tree, job, changes, pc, searchVars, leafs, total, removed>>

(* Deleting an entry, with the tree delete control everything below as     *)
(* well: the result codes, and the new content.                             *)
Removes(e, ctrl) == IF ctrl THEN Subtree(e) ELSE {e}
NoSuchObject(e) == e \notin tree
Refused(e, ctrl) == e \in tree /\ Removes(e, ctrl) \intersect job.refused # {}
NonLeaf(e, ctrl) == e \in tree /\ ~ctrl /\ Children(e) # {}
Deletable(e, ctrl) == e \in tree /\ ~Refused(e, ctrl) /\ ~NonLeaf(e, ctrl)
Delete(e, ctrl) ==
  /\ tree' = tree \ Removes(e, ctrl)
  /\ removed' = removed \union Removes(e, ctrl)

-----------------------------------------------------------------------------
(* w2l_delete() and delete_entries(), which searches in two loops.          *)

Raise == pc' = "Raised"

(* A single delete request: an entry, which gets no control, or a subtree. *)
DeleteBase(ctrl) ==
  \/ /\ Deletable(Base, ctrl)
     /\ Delete(Base, ctrl)
     /\ total' = [total EXCEPT !.deleted = 1]
     /\ pc' = "Done"
  \/ ~Deletable(Base, ctrl) /\ Raise /\ UNCHANGED <<tree, total, removed>>

(* Not confirmed; a single entry; the tree delete control for all at once; *)
(* or the recursive delete.                                                 *)
Confirm ==
  /\ pc = "Confirm"
  /\ \/ /\ ~job.confirm
        /\ pc' = "Canceled"
        /\ UNCHANGED <<tree, total, removed>>
     \/ /\ job.confirm
        /\ job.scope = "base"
        /\ DeleteBase(FALSE)
     \/ /\ job.confirm
        /\ job.scope = "subtree" /\ job.ctrl
        /\ DeleteBase(TRUE)
     \/ /\ job.confirm
        /\ job.scope = "onelevel" \/ (job.scope = "subtree" /\ ~job.ctrl)
        /\ pc' = "First"
        /\ UNCHANGED <<tree, total, removed>>
  /\ UNCHANGED <<job, late, changes, searchVars, leafs>>

StartSearch(b, scope, r) ==
  /\ b \in tree
  /\ dn' = b
  /\ round' = r
  /\ pending' = Found(b, scope)
  /\ arrived' = {}
  /\ sent' = 0
  /\ leafs' = NoLeafs
  /\ pc' = "Results"

(* Mutant: the time is tested inside the first loop, which nothing leaves. *)
First_Endless ==
  /\ pc = "First"
  /\ \/ ~late /\ StartSearch(Base, job.scope, "First") /\ UNCHANGED total
     \/ /\ ~late /\ Base \notin tree
        /\ pc' = "Rest"
        /\ UNCHANGED <<searchVars, leafs, total>>
     \/ late /\ UNCHANGED <<pc, searchVars, leafs, total>>
  /\ UNCHANGED <<serverVars, removed>>

(* The first loop repeats the whole search while a limit is exceeded. *)
First ==
  /\ pc = "First"
  /\ \/ /\ ~late
        /\ StartSearch(Base, job.scope, "First")
        /\ UNCHANGED total
     \/ \* NO_SUCH_OBJECT
        /\ ~late
        /\ Base \notin tree
        /\ pc' = "Rest"
        /\ UNCHANGED <<searchVars, leafs, total>>
     \/ /\ late
        /\ total' = [total EXCEPT !.non_deletable = @ \union total.non_leaf]
        /\ pc' = "Rest"
        /\ UNCHANGED <<searchVars, leafs>>
  /\ UNCHANGED <<serverVars, removed>>

(* The second loop searches below one of the non-leaf entries. *)
Rest ==
  /\ pc = "Rest"
  /\ \/ /\ total.non_leaf = {} \/ late
        /\ total' = [total EXCEPT !.non_deletable = @ \union total.non_leaf]
        /\ pc' = "Done"
        /\ UNCHANGED <<searchVars, leafs>>
     \/ /\ ~late
        /\ \E e \in total.non_leaf :
             /\ total' = [total EXCEPT !.non_leaf = @ \ {e}]
             /\ \/ e \in total.non_deletable /\ UNCHANGED <<pc, searchVars, leafs>>
                \/ e \notin total.non_deletable /\ StartSearch(e, "subtree", "Rest")
                \/ /\ e \notin total.non_deletable \union tree
                   /\ Raise
                   /\ UNCHANGED <<searchVars, leafs>>
  /\ UNCHANGED <<serverVars, removed>>

(* The server sends a result, unless another client deleted the entry. *)
Send(e) ==
  /\ pc = "Results"
  /\ e \in pending
  /\ sent < job.limit
  /\ pending' = pending \ {e}
  /\ IF e \in tree
       THEN /\ arrived' = arrived \union {[dn |-> e, sub |-> job.attr /\ Children(e) # {}]}
            /\ sent' = sent + 1
       ELSE UNCHANGED <<arrived, sent>>
  /\ UNCHANGED <<serverVars, pc, dn, round, leafs, total, removed>>

(* DeleteLeafs._process_result(): without hasSubordinates the server is the *)
(* one who knows.                                                           *)
ProcessResult(r) ==
  /\ pc = "Results"
  /\ r \in arrived
  /\ arrived' = arrived \ {r}
  /\ \/ /\ r.sub /\ ~job.ctrl
        /\ leafs' = [leafs EXCEPT !.non_leaf = @ \union {r.dn}]
        /\ UNCHANGED <<tree, pc, removed>>
     \/ /\ ~r.sub \/ job.ctrl
        /\ \/ NoSuchObject(r.dn) /\ UNCHANGED <<tree, pc, leafs, removed>>
           \/ /\ Refused(r.dn, job.ctrl)
              /\ leafs' = [leafs EXCEPT !.non_deletable = @ \union {r.dn}]
              /\ UNCHANGED <<tree, pc, removed>>
           \/ /\ NonLeaf(r.dn, job.ctrl)
              /\ ~job.attr
              /\ leafs' = [leafs EXCEPT !.non_leaf = @ \union {r.dn}]
              /\ UNCHANGED <<tree, pc, removed>>
           \/ \* ValueError, "should never be executed"
              /\ NonLeaf(r.dn, job.ctrl)
              /\ job.attr
              /\ Raise
              /\ UNCHANGED <<tree, leafs, removed>>
           \/ /\ Deletable(r.dn, job.ctrl)
              /\ Delete(r.dn, job.ctrl)
              /\ leafs' = [leafs EXCEPT !.deleted = @ + 1]
              /\ UNCHANGED pc
  /\ UNCHANGED <<job, late, changes, dn, round, pending, sent, total>>

AddToTotal(nl, nd) ==
  total' = [deleted |-> total.deleted + leafs.deleted,
            non_leaf |-> total.non_leaf \union nl,
            non_deletable |-> total.non_deletable \union nd]

(* Mutant: what was deleted before the limit was exceeded is not counted.  *)
LimitExceeded_Uncounted ==
  /\ pc = "Results"
  /\ arrived = {} /\ pending # {} /\ sent = job.limit
  /\ pc' = round
  /\ UNCHANGED <<serverVars, searchVars, leafs, total, removed>>

(* SIZELIMIT_EXCEEDED: the second loop will search below dn again. *)
LimitExceeded ==
  /\ pc = "Results"
  /\ arrived = {} /\ pending # {} /\ sent = job.limit
  /\ \/ round = "First" /\ AddToTotal(leafs.non_leaf, leafs.non_deletable)
     \/ round = "Rest" /\ AddToTotal({dn} \union leafs.non_leaf, {})
  /\ pc' = round
  /\ UNCHANGED <<serverVars, searchVars, leafs, removed>>

(* Mutant: a non-leaf entry below which nothing could be deleted is         *)
(* forgotten instead of being counted as skipped.                           *)
SearchEnds_Forgets ==
  /\ pc = "Results"
  /\ arrived = {} /\ pending = {}
  /\ \/ round = "First" /\ AddToTotal(leafs.non_leaf, leafs.non_deletable)
     \/ round = "Rest" /\ leafs.deleted = 0 /\ AddToTotal({}, {})
     \/ round = "Rest" /\ leafs.deleted # 0 /\ AddToTotal(leafs.non_leaf, {})
  /\ pc' = "Rest"
  /\ UNCHANGED <<serverVars, searchVars, leafs, removed>>

(* The end of the search: below an entry where nothing could be deleted     *)
(* nothing is tried again.                                                  *)
SearchEnds ==
  /\ pc = "Results"
  /\ arrived = {} /\ pending = {}
  /\ \/ round = "First" /\ AddToTotal(leafs.non_leaf, leafs.non_deletable)
     \/ round = "Rest" /\ leafs.deleted = 0 /\ AddToTotal({}, {dn})
     \/ round = "Rest" /\ leafs.deleted # 0 /\ AddToTotal(leafs.non_leaf, {})
  /\ pc' = "Rest"
  /\ UNCHANGED <<serverVars, searchVars, leafs, removed>>

Ended == pc \in {"Done", "Canceled", "Raised"} /\ UNCHANGED vars

DeleteStep ==
  \/ Confirm \/ First \/ Rest \/ LimitExceeded \/ SearchEnds
  \/ \E e \in Entries : Send(e)
  \/ \E r \in arrived : ProcessResult(r)

Others == \E e \in Entries : OtherAdds(e) \/ OtherDeletes(e)

Next == DeleteStep \/ TimeOut \/ Others \/ Ended

Spec == Init /\ [][Next]_vars

(* Searches and deletions end, and time passes. *)
FairSpec == Spec /\ WF_vars(DeleteStep) /\ WF_vars(TimeOut)

-----------------------------------------------------------------------------
(* Properties.                                                              *)

DeleteLeafs == [deleted : Nat, non_leaf : SUBSET Entries, non_deletable : SUBSET Entries]

(* Every variable has its type. *)
TypeOK ==
  /\ tree \subseteq Entries
  /\ job \in Jobs
  /\ late \in BOOLEAN
  /\ changes \in 0..MaxChanges
  /\ pc \in Labels
  /\ dn \in Entries
  /\ round \in {"First", "Rest"}
  /\ pending \subseteq Entries
  /\ arrived \subseteq [dn : Entries, sub : BOOLEAN]
  /\ sent \in Nat
  /\ leafs \in DeleteLeafs
  /\ total \in DeleteLeafs
  /\ removed \subseteq Entries

(* Without the tree delete control, which does not know of filters, only    *)
(* entries below the base that match the filter are removed; the base       *)
(* itself is kept when the scope is "All entries below this entry", also in *)
(* the second loop, which always searches with scope subtree.               *)
OnlyMatchingRemoved ==
  (~job.ctrl /\ job.scope # "base") =>
    /\ removed \subseteq job.filter
    /\ \A e \in removed : Base \in Above[e]
    /\ job.scope = "onelevel" => Base \notin removed

(* "Deleted entries" of the result page is the number of entries removed,   *)
(* through both loops, exceeded limits and entries removed by others.       *)
CountIsExact ==
  pc = "Done" /\ (~job.ctrl \/ job.scope = "base") => total.deleted = Cardinality(removed)

(* "Skipped: 0" is shown only if nothing is left that the search finds,     *)
(* unless the time is over or another client changed the directory; entries *)
(* the server refuses to delete are not all counted in the second loop.      *)
NothingSkipped ==
  pc = "Done" /\ ~late /\ changes = 0 /\ job.refused = {} /\ total.non_deletable = {} /\ job.scope # "base"
    => Found(Base, job.scope) = {}

(* The command ends, also when a limit is exceeded again and again by       *)
(* entries that cannot be deleted.                                          *)
DeleteEnds == <>(pc \in {"Done", "Canceled", "Raised"})

(* Docstring of delete_entries(): "Recursively delete entries below or      *)
(* including entry with name dn."  With no other client and a server that   *)
(* refuses nothing it comes to its end, in whatever order the set of        *)
(* non-leaf entries returns them.                                           *)
DeletesAll == job.refused = {} /\ changes = 0 /\ job.scope # "base" => pc # "Raised"

=============================================================================
