------------------------ MODULE RecursiveDeleteProofs -----------------------
(***************************************************************************)
(* Theorems about RecursiveDelete for every finite tree, and whatever other *)
(* clients change in it meanwhile.                                          *)
(*                                                                         *)
(* Matches(e) is what the command may remove.  It is handed on from one     *)
(* search to the next: what is found below a matching entry matches too, so *)
(* everything the command keeps for later (results, non-leaf entries, the   *)
(* entry searched below) has to match for the entries removed to match.     *)
(*                                                                         *)
(* The last part is about what is left: if nobody interferes and the        *)
(* server neither refuses nor cuts anything off, every entry found is       *)
(* pending, arrived, or below a non-leaf entry that is still to be searched.*)
(***************************************************************************)
EXTENDS RecursiveDelete, FiniteSetTheorems, TLAPS

(* What a recursive delete without tree delete control may remove. *)
Matches(e) ==
  /\ e \in job.filter
  /\ Base \in Above[e]
  /\ job.scope = "onelevel" => e # Base

Recursive == ~job.ctrl /\ job.scope # "base"

(* All the command knows of entries at any time. *)
AllMatch ==
  /\ \A e \in pending : Matches(e)
  /\ \A r \in arrived : Matches(r.dn)
  /\ \A e \in leafs.non_leaf : Matches(e)
  /\ \A e \in total.non_leaf : Matches(e)
  /\ \A e \in removed : Matches(e)
  /\ round = "Rest" => Matches(dn)

Searching == {"First", "Rest", "Results"}

(* A single entry is deleted at once; only other scopes search. *)
ScopeOK ==
  /\ pc \in Searching => job.scope # "base" /\ (job.scope = "subtree" => ~job.ctrl)
  /\ pc = "Confirm" => removed = {} /\ total = NoLeafs

MatchInv == TypeOK /\ ScopeOK /\ (Recursive => AllMatch)

Counted == total.deleted + (IF pc = "Results" THEN leafs.deleted ELSE 0)

(* Every entry removed is counted once, in total or in leafs. *)
CountInv ==
  /\ removed \intersect tree = {}
  /\ (~job.ctrl \/ job.scope = "base") /\ pc # "Raised" => Counted = Cardinality(removed)

USE DeleteAssumption

-----------------------------------------------------------------------------
(* Types.                                                                   *)

(* What is removed with an entry is an entry. *)
LEMMA RemovesEntries ==
  ASSUME TypeOK, NEW e \in tree, NEW ctrl
  PROVE  Removes(e, ctrl) \subseteq tree
BY DEF Removes, Subtree, TypeOK

(* The results of a search are entries. *)
LEMMA FoundEntries ==
  ASSUME TypeOK, NEW b, NEW scope
  PROVE  Found(b, scope) \subseteq Entries
BY DEF Found, TypeOK

(* The command starts with its types. *)
LEMMA TypeInit == Init => TypeOK
<1>1. NoLeafs \in DeleteLeafs
  BY DEF NoLeafs, DeleteLeafs
<1>2. Init => dn \in Entries
  BY DEF Init
<1>3. Init => /\ tree \subseteq Entries
              /\ changes \in 0..MaxChanges
              /\ sent \in Nat
  BY DEF Init
<1>4. QED BY <1>1, <1>2, <1>3 DEF Init, TypeOK, Labels

(* The type invariant, action by action. *)
LEMMA TypeStep == TypeOK /\ [Next]_vars => TypeOK'
<1> SUFFICES ASSUME TypeOK, [Next]_vars PROVE TypeOK'
  OBVIOUS
<1> USE DEF TypeOK, Labels, DeleteLeafs
<1>1. CASE Confirm
  <2>1. ASSUME NEW ctrl \in BOOLEAN, DeleteBase(ctrl)
        PROVE  tree' \subseteq Entries /\ removed' \subseteq Entries /\ total' \in DeleteLeafs /\ pc' \in Labels
    BY <2>1, RemovesEntries DEF DeleteBase, Deletable, Delete, Raise
  <2>2. tree' \subseteq Entries /\ removed' \subseteq Entries /\ total' \in DeleteLeafs /\ pc' \in Labels
    BY <1>1, <2>1 DEF Confirm
  <2>3. QED BY <1>1, <2>2 DEF Confirm, searchVars
<1>2. CASE First
  BY <1>2, FoundEntries DEF First, StartSearch, serverVars, searchVars, NoLeafs
<1>3. CASE Rest
  BY <1>3, FoundEntries DEF Rest, StartSearch, serverVars, searchVars, NoLeafs, Raise
<1>4. CASE LimitExceeded
  <2>1. total' \in DeleteLeafs
    BY <1>4 DEF LimitExceeded, AddToTotal
  <2>2. QED BY <1>4, <2>1 DEF LimitExceeded, serverVars, searchVars
<1>5. CASE SearchEnds
  <2>1. total' \in DeleteLeafs
    BY <1>5 DEF SearchEnds, AddToTotal
  <2>2. QED BY <1>5, <2>1 DEF SearchEnds, serverVars, searchVars
<1>6. ASSUME NEW e \in Entries, Send(e) PROVE TypeOK'
  <2>1. (job.attr /\ Children(e) # {}) \in BOOLEAN
    BY DEF Jobs
  <2>2. arrived' \subseteq [dn : Entries, sub : BOOLEAN]
    <3>1. [dn |-> e, sub |-> job.attr /\ Children(e) # {}] \in [dn : Entries, sub : BOOLEAN]
      BY <2>1, Zenon
    <3>2. \/ arrived' = arrived
          \/ arrived' = arrived \union {[dn |-> e, sub |-> job.attr /\ Children(e) # {}]}
      BY <1>6, Zenon DEF Send
    <3>3. QED BY <3>1, <3>2, Zenon
  <2>3. pending' \subseteq Entries /\ sent' \in Nat
    BY <1>6 DEF Send
  <2>4. UNCHANGED <<tree, job, late, changes, pc, dn, round, leafs, total, removed>>
    BY <1>6 DEF Send, serverVars
  <2>5. QED BY <2>2, <2>3, <2>4
<1>7. ASSUME NEW r \in arrived, ProcessResult(r) PROVE TypeOK'
  <2>1. tree' \subseteq Entries /\ removed' \subseteq Entries
    BY <1>7, RemovesEntries DEF ProcessResult, Deletable, Delete
  <2>2. leafs' \in DeleteLeafs
    BY <1>7 DEF ProcessResult
  <2>3. pc' \in Labels
    BY <1>7 DEF ProcessResult, Raise
  <2>4. QED BY <1>7, <2>1, <2>2, <2>3 DEF ProcessResult
<1>8. CASE TimeOut
  BY <1>8 DEF TimeOut, searchVars
<1>9. CASE Others
  BY <1>9 DEF Others, OtherAdds, OtherDeletes, searchVars
<1>10. CASE Ended \/ UNCHANGED vars
  BY <1>10 DEF Ended, vars, serverVars, searchVars
<1>11. QED
  BY <1>1, <1>2, <1>3, <1>4, <1>5, <1>6, <1>7, <1>8, <1>9, <1>10 DEF Next, DeleteStep

(* Every variable keeps its type. *)
THEOREM TypeCorrect == Spec => []TypeOK
BY TypeInit, TypeStep, PTL DEF Spec

-----------------------------------------------------------------------------
(* What is removed.                                                         *)

(* Below a matching entry, everything a search finds matches. *)
LEMMA FoundMatches ==
  ASSUME TypeOK, job.scope # "base",
         NEW b \in tree, NEW scope,
         \/ b = Base /\ scope = job.scope
         \/ Matches(b) /\ scope = "subtree"
  PROVE  \A e \in Found(b, scope) : Matches(e)
<1> SUFFICES ASSUME NEW e \in Found(b, scope) PROVE Matches(e)
  OBVIOUS
<1>1. e \in Entries /\ b \in Entries /\ Base \in Entries /\ e \in job.filter
  BY DEF Found, TypeOK
<1>2. CASE scope = "subtree"
  <2>1. b \in Above[e]
    BY <1>2 DEF Found
  <2>2. Base \in Above[b]
    BY <1>1, TreeAssumption DEF Matches
  <2>3. Base \in Above[e]
    BY <1>1, <2>1, <2>2, TreeAssumption
  <2>4. b # Base => e # Base
    BY <1>1, <2>1, <2>2, TreeAssumption
  <2>5. job.scope = "onelevel" => e # Base
    BY <1>2, <2>4 DEF Matches
  <2>6. QED BY <1>1, <2>3, <2>5 DEF Matches
<1>3. CASE scope # "subtree"
  <2>1. b = Base /\ Parent[e] = Base
    BY <1>3 DEF Found
  <2>2. Above[e] = {e} \union Above[Base]
    BY <1>1, <2>1, TreeAssumption
  <2>3. Base \in Above[e] /\ e # Base
    BY <1>1, <2>1, <2>2, TreeAssumption
  <2>4. QED BY <1>1, <2>3 DEF Matches
<1>4. QED BY <1>2, <1>3

(* Nothing has been found or removed at the start. *)
LEMMA MatchInit == Init => MatchInv
<1> SUFFICES ASSUME Init PROVE MatchInv
  OBVIOUS
<1>1. ScopeOK
  BY DEF Init, ScopeOK, Searching
<1>2. AllMatch
  BY DEF Init, AllMatch, NoLeafs
<1>3. QED BY <1>1, <1>2, TypeInit DEF MatchInv

(* Searching starts with a scope that needs it. *)
LEMMA ScopeStep ==
  ASSUME MatchInv, [Next]_vars
  PROVE  job' = job /\ ScopeOK'
<1> USE DEF MatchInv, ScopeOK, Searching, serverVars
<1>1. CASE Confirm
  BY <1>1 DEF Confirm, DeleteBase, Raise, TypeOK, Jobs
<1>2. CASE First
  BY <1>2 DEF First, StartSearch
<1>3. CASE Rest
  BY <1>3 DEF Rest, StartSearch, Raise
<1>4. CASE LimitExceeded \/ SearchEnds
  BY <1>4 DEF LimitExceeded, SearchEnds, TypeOK
<1>5. ASSUME NEW e \in Entries, Send(e) PROVE job' = job /\ ScopeOK'
  BY <1>5 DEF Send
<1>6. ASSUME NEW r \in arrived, ProcessResult(r) PROVE job' = job /\ ScopeOK'
  BY <1>6 DEF ProcessResult, Raise
<1>7. CASE TimeOut \/ Others
  BY <1>7 DEF TimeOut, Others, OtherAdds, OtherDeletes
<1>8. CASE Ended \/ UNCHANGED vars
  BY <1>8 DEF Ended, vars
<1>9. QED
  BY <1>1, <1>2, <1>3, <1>4, <1>5, <1>6, <1>7, <1>8 DEF Next, DeleteStep

(* Whatever the command keeps for later, or removes, matches. *)
LEMMA MatchStep ==
  ASSUME MatchInv, [Next]_vars, Recursive
  PROVE  AllMatch'
<1> USE DEF AllMatch, Recursive, serverVars, searchVars
<1>1. job' = job /\ AllMatch /\ TypeOK
  BY ScopeStep DEF MatchInv
<1>2. \A e : Matches(e)' <=> Matches(e)
  BY <1>1 DEF Matches
<1>3. CASE Confirm
  BY <1>1, <1>2, <1>3 DEF Confirm, DeleteBase, Raise, TypeOK, Jobs, DeleteLeafs, MatchInv, ScopeOK
<1>4. ASSUME NEW b, NEW scope, NEW rd, StartSearch(b, scope, rd),
             \/ b = Base /\ scope = job.scope /\ rd = "First"
             \/ Matches(b) /\ scope = "subtree"
      PROVE  /\ \A e \in pending' \union leafs'.non_leaf : Matches(e)
             /\ arrived' = {}
             /\ round' = "Rest" => Matches(dn')
  BY <1>1, <1>4, FoundMatches DEF StartSearch, NoLeafs
<1>5. CASE First
  BY <1>1, <1>2, <1>4, <1>5 DEF First, TypeOK, DeleteLeafs
<1>6. CASE Rest
  BY <1>1, <1>2, <1>4, <1>6 DEF Rest, TypeOK, DeleteLeafs
<1>7. CASE LimitExceeded
  BY <1>1, <1>2, <1>7 DEF LimitExceeded, AddToTotal
<1>8. CASE SearchEnds
  BY <1>1, <1>2, <1>8 DEF SearchEnds, AddToTotal
<1>9. ASSUME NEW e \in Entries, Send(e) PROVE AllMatch'
  BY <1>1, <1>2, <1>9 DEF Send
<1>10. ASSUME NEW r \in arrived, ProcessResult(r) PROVE AllMatch'
  <2>1. \A e \in removed' : Matches(e)
    BY <1>1, <1>10 DEF ProcessResult, Delete, Removes
  <2>2. \A e \in leafs'.non_leaf : Matches(e)
    BY <1>1, <1>10 DEF ProcessResult, TypeOK, DeleteLeafs
  <2>3. QED BY <1>1, <1>2, <1>10, <2>1, <2>2 DEF ProcessResult
<1>11. CASE TimeOut \/ Others
  BY <1>1, <1>2, <1>11 DEF TimeOut, Others, OtherAdds, OtherDeletes
<1>12. CASE Ended \/ UNCHANGED vars
  BY <1>1, <1>2, <1>12 DEF Ended, vars
<1>13. QED
  BY <1>3, <1>5, <1>6, <1>7, <1>8, <1>9, <1>10, <1>11, <1>12 DEF Next, DeleteStep

(* The invariant holds always. *)
LEMMA MatchInvariance == Spec => []MatchInv
<1>1. MatchInv /\ [Next]_vars => MatchInv'
  BY TypeStep, ScopeStep, MatchStep DEF MatchInv, Recursive
<1>2. QED BY MatchInit, <1>1, PTL DEF Spec

(* Without the tree delete control only matching entries below the base are *)
(* removed, in both loops of delete_entries().                              *)
THEOREM OnlyMatching == Spec => []OnlyMatchingRemoved
<1>1. MatchInv => OnlyMatchingRemoved
  BY DEF MatchInv, AllMatch, Recursive, Matches, OnlyMatchingRemoved
<1>2. QED BY MatchInvariance, <1>1, PTL

-----------------------------------------------------------------------------
(* How many entries are removed.                                            *)

(* Removing one entry adds one to the number of entries removed. *)
LEMMA RemovedOne ==
  ASSUME MatchInv, removed \intersect tree = {}, NEW e \in tree, Delete(e, FALSE)
  PROVE  Cardinality(removed') = Cardinality(removed) + 1
<1>1. IsFiniteSet(removed)
  BY FS_Subset DEF MatchInv, TypeOK
<1>2. removed' = removed \union {e} /\ e \notin removed
  BY DEF Delete, Removes
<1>3. QED BY <1>1, <1>2, FS_AddElement

(* The count, action by action. *)
LEMMA CountStep ==
  ASSUME MatchInv, CountInv, [Next]_vars
  PROVE  CountInv'
<1> DEFINE Counting == (~job.ctrl \/ job.scope = "base") /\ pc # "Raised"
<1> USE DEF CountInv, Counted, serverVars, searchVars
<1>1. TypeOK /\ ScopeOK /\ job' = job
  BY ScopeStep DEF MatchInv
<1>2. total.deleted \in Nat /\ leafs.deleted \in Nat
  BY <1>1 DEF TypeOK, DeleteLeafs
<1>3. CASE Confirm
  <2>1. pc = "Confirm" /\ removed = {} /\ total.deleted = 0
    BY <1>1, <1>3 DEF Confirm, ScopeOK, NoLeafs
  <2>2. ASSUME NEW ctrl \in BOOLEAN, DeleteBase(ctrl)
        PROVE  removed' \intersect tree' = {}
    BY <1>1, <2>1, <2>2, RemovesEntries DEF DeleteBase, Deletable, Delete
  <2>3. removed' \intersect tree' = {}
    BY <1>3, <2>1, <2>2 DEF Confirm
  <2>4. ASSUME DeleteBase(FALSE), pc' # "Raised"
        PROVE  total'.deleted = Cardinality(removed') /\ total'.deleted \in Nat /\ pc' = "Done"
    <3>1. Base \in tree /\ Delete(Base, FALSE) /\ pc' = "Done" /\ total' = [total EXCEPT !.deleted = 1]
      BY <2>4 DEF DeleteBase, Deletable, Raise
    <3>2. removed \intersect tree = {}
      OBVIOUS
    <3>3. Cardinality(removed') = Cardinality(removed) + 1
      BY <3>1, <3>2, RemovedOne
    <3>4. total'.deleted = 1
      BY <1>1, <3>1 DEF TypeOK, DeleteLeafs
    <3>5. QED BY <2>1, <3>1, <3>3, <3>4, FS_EmptySet
  <2>5. CASE ~job.confirm
    BY <1>1, <1>3, <2>1, <2>3, <2>5, FS_EmptySet DEF Confirm
  <2>6. CASE job.confirm /\ job.scope = "base"
    <3>1. DeleteBase(FALSE)
      BY <1>3, <2>6 DEF Confirm
    <3>2. QED BY <1>1, <2>3, <2>4, <3>1
  <2>7. CASE job.confirm /\ job.scope = "subtree" /\ job.ctrl
    BY <1>1, <1>3, <2>3, <2>7 DEF Confirm
  <2>8. CASE job.confirm /\ (job.scope = "onelevel" \/ (job.scope = "subtree" /\ ~job.ctrl))
    BY <1>1, <1>3, <2>1, <2>3, <2>8, FS_EmptySet DEF Confirm
  <2>9. \/ ~job.confirm
        \/ job.confirm /\ job.scope = "base"
        \/ job.confirm /\ job.scope = "subtree" /\ job.ctrl
        \/ job.confirm /\ (job.scope = "onelevel" \/ (job.scope = "subtree" /\ ~job.ctrl))
    BY <1>3 DEF Confirm
  <2>10. QED BY <2>5, <2>6, <2>7, <2>8, <2>9
<1>4. CASE First
  BY <1>1, <1>2, <1>4 DEF First, StartSearch, NoLeafs, TypeOK, DeleteLeafs
<1>5. CASE Rest
  BY <1>1, <1>2, <1>5 DEF Rest, StartSearch, NoLeafs, Raise, TypeOK, DeleteLeafs
<1>6. CASE LimitExceeded \/ SearchEnds
  <2>1. pc = "Results" /\ pc' # "Results" /\ pc' # "Raised"
    BY <1>1, <1>6 DEF LimitExceeded, SearchEnds, TypeOK
  <2>2. total'.deleted = total.deleted + leafs.deleted
    BY <1>6 DEF LimitExceeded, SearchEnds, AddToTotal
  <2>3. removed' = removed /\ tree' = tree
    BY <1>6 DEF LimitExceeded, SearchEnds
  <2>4. QED BY <1>1, <1>2, <2>1, <2>2, <2>3
<1>7. ASSUME NEW e \in Entries, Send(e) PROVE CountInv'
  BY <1>1, <1>7 DEF Send
<1>8. ASSUME NEW r \in arrived, ProcessResult(r) PROVE CountInv'
  <2>1. CASE Deletable(r.dn, job.ctrl) /\ Delete(r.dn, job.ctrl)
             /\ leafs' = [leafs EXCEPT !.deleted = leafs.deleted + 1] /\ pc' = pc
    <3>1. removed' \intersect tree' = {}
      BY <1>1, <2>1, RemovesEntries DEF Deletable, Delete
    <3>2. ASSUME Counting PROVE Cardinality(removed') = Cardinality(removed) + 1
      <4>1. ~job.ctrl
        BY <1>1, <1>8, <3>2 DEF ProcessResult, ScopeOK, Searching
      <4>2. job.ctrl = FALSE
        BY <1>1, <4>1 DEF TypeOK, Jobs
      <4>3. r.dn \in tree /\ Delete(r.dn, FALSE)
        BY <2>1, <4>2 DEF Deletable
      <4>4. removed \intersect tree = {}
        OBVIOUS
      <4>5. QED BY <4>3, <4>4, RemovedOne
    <3>3. leafs'.deleted = leafs.deleted + 1 /\ total' = total /\ pc = "Results"
      BY <1>1, <1>8, <2>1 DEF ProcessResult, TypeOK, DeleteLeafs
    <3>4. QED BY <1>1, <1>2, <2>1, <3>1, <3>2, <3>3
  <2>2. CASE tree' = tree /\ removed' = removed /\ leafs'.deleted = leafs.deleted
             /\ (pc' = pc \/ pc' = "Raised")
    BY <1>1, <1>8, <2>2 DEF ProcessResult
  <2>3. QED
    BY <1>1, <1>8, <2>1, <2>2 DEF ProcessResult, Raise, TypeOK, DeleteLeafs
<1>9. CASE TimeOut
  BY <1>1, <1>9 DEF TimeOut
<1>10. CASE Others
  BY <1>1, <1>10 DEF Others, OtherAdds, OtherDeletes
<1>11. CASE Ended \/ UNCHANGED vars
  BY <1>1, <1>11 DEF Ended, vars
<1>12. QED
  BY <1>3, <1>4, <1>5, <1>6, <1>7, <1>8, <1>9, <1>10, <1>11 DEF Next, DeleteStep

(* "Deleted entries" of the result page is the number of entries removed. *)
THEOREM CountCorrect == Spec => []CountIsExact
<1>1. Init => CountInv
  BY FS_EmptySet DEF Init, CountInv, Counted, NoLeafs
<1>2. MatchInv /\ CountInv /\ [Next]_vars => CountInv'
  BY CountStep
<1>3. CountInv /\ MatchInv => CountIsExact
  BY DEF CountInv, Counted, CountIsExact, MatchInv, TypeOK, DeleteLeafs
<1>4. QED BY MatchInvariance, <1>1, <1>2, <1>3, PTL DEF Spec

-----------------------------------------------------------------------------
(* Trees.  A tree is finite, so what is said of an entry whenever it holds   *)
(* of its parent holds of every entry; the provers have no induction, but    *)
(* they do have an entry with the fewest entries above it.                   *)

(* The parent has fewer entries above it. *)
LEMMA ParentAbove ==
  ASSUME NEW e \in Entries, Parent[e] # NoEntry
  PROVE  /\ Parent[e] \in Entries
         /\ Above[Parent[e]] \subseteq Above[e]
         /\ Above[Parent[e]] # Above[e]
<1>1. Parent[e] \in Entries
  OBVIOUS
<1>2. Above[e] = {e} \union Above[Parent[e]]
  BY TreeAssumption
<1>3. Parent[e] \in Above[e]
  BY <1>1, <1>2, TreeAssumption
<1>4. e \notin Above[Parent[e]]
  BY <1>1, <1>3, TreeAssumption
<1>5. QED BY <1>1, <1>2, <1>4

(* Of some entries, one is below none of the others. *)
LEMMA Topmost ==
  ASSUME NEW S, S \subseteq Entries, S # {}
  PROVE  \E e \in S : Parent[e] # NoEntry => Parent[e] \notin S
<1> DEFINE Sets == {Above[e] : e \in S}
<1>1. IsWellFoundedOn(StrictSubsetOrdering(Entries), SUBSET Entries)
  <2>1. FiniteSubsetsOf(Entries) = SUBSET Entries
    BY FS_FiniteSubsetsOfFinite
  <2>2. IsWellFoundedOn(StrictSubsetOrdering(Entries), FiniteSubsetsOf(Entries))
    BY FS_StrictSubsetOrderingWellFounded
  <2>3. QED BY <2>1, <2>2, Zenon
<1>2. Sets \subseteq SUBSET Entries /\ Sets # {}
  OBVIOUS
<1>3. PICK x \in Sets : \A y \in Sets : ~ (<<y, x>> \in StrictSubsetOrdering(Entries))
  <2> HIDE DEF Sets
  <2>1. QED BY <1>1, <1>2, WFMin
<1>4. PICK e \in S : x = Above[e]
  OBVIOUS
<1>5. ASSUME Parent[e] # NoEntry, Parent[e] \in S PROVE FALSE
  <2>1. Above[Parent[e]] \in Sets
    BY <1>5
  <2>2. Above[Parent[e]] \subseteq Above[e] /\ Above[Parent[e]] # Above[e]
    BY <1>5, ParentAbove
  <2>3. <<Above[Parent[e]], Above[e]>> \in StrictSubsetOrdering(Entries)
    BY <1>2, <1>4, <2>1, <2>2 DEF StrictSubsetOrdering
  <2>4. QED BY <1>3, <1>4, <2>1, <2>3
<1>6. QED BY <1>5

(* All entries above one of the directory are in the directory. *)
LEMMA InitialClosed == \A e \in Initial : Above[e] \subseteq Initial
<1> DEFINE S == {e \in Initial : ~ (Above[e] \subseteq Initial)}
<1> SUFFICES ASSUME S # {} PROVE FALSE
  OBVIOUS
<1>1. PICK e \in S : Parent[e] # NoEntry => Parent[e] \notin S
  <2>1. S \subseteq Entries
    OBVIOUS
  <2> HIDE DEF S
  <2>2. QED BY <2>1, Topmost
<1>2. e \in Entries /\ e \in Initial /\ Parent[e] \in Initial \union {NoEntry}
  OBVIOUS
<1>3. CASE Parent[e] = NoEntry
  BY <1>2, <1>3, TreeAssumption
<1>4. CASE Parent[e] # NoEntry
  <2>1. Above[Parent[e]] \subseteq Initial
    BY <1>1, <1>2, <1>4
  <2>2. Above[e] = {e} \union Above[Parent[e]]
    BY <1>2, <1>4, TreeAssumption
  <2>3. QED BY <1>2, <2>1, <2>2
<1>5. QED BY <1>3, <1>4

(* Between an entry and one above it there is a child of the one above. *)
LEMMA ChildBetween ==
  \A d \in Entries : \A e \in Above[d] :
    e # d => \E c \in Above[d] : Parent[c] = e
<1> DEFINE Linked(d) == \A e \in Above[d] : e # d => \E c \in Above[d] : Parent[c] = e
<1> DEFINE S == {d \in Entries : ~Linked(d)}
<1> SUFFICES ASSUME S # {} PROVE FALSE
  OBVIOUS
<1>1. PICK d \in S : Parent[d] # NoEntry => Parent[d] \notin S
  <2>1. S \subseteq Entries
    OBVIOUS
  <2> HIDE DEF S
  <2>2. QED BY <2>1, Topmost
<1>2. d \in Entries /\ ~Linked(d)
  OBVIOUS
<1>3. PICK e \in Above[d] : e # d /\ \A c \in Above[d] : Parent[c] # e
  BY <1>2
<1>4. CASE Parent[d] = NoEntry
  BY <1>2, <1>3, <1>4, TreeAssumption
<1>5. CASE Parent[d] # NoEntry
  <2>1. Above[d] = {d} \union Above[Parent[d]] /\ Parent[d] \in Entries
    BY <1>2, <1>5, ParentAbove, TreeAssumption
  <2>2. Linked(Parent[d])
    BY <1>1, <1>5, <2>1
  <2>3. e # Parent[d]
    BY <1>2, <1>3, TreeAssumption
  <2>4. e \in Above[Parent[d]]
    BY <1>3, <2>1
  <2>5. \E c \in Above[Parent[d]] : Parent[c] = e
    BY <2>2, <2>3, <2>4
  <2>6. QED BY <1>3, <2>1, <2>5
<1>6. QED BY <1>4, <1>5

-----------------------------------------------------------------------------
(* What is left.  An entry the command was to delete and has not deleted is *)
(* either still to come from the server, or to be processed, or at or below *)
(* a non-leaf entry the second loop will search again.  That one is itself  *)
(* in the directory, as the tree has no gaps, is why the command does not    *)
(* end while something is left.                                             *)

(* In time, alone, and with a server that deletes what it is asked to. *)
Undisturbed == ~late /\ changes = 0 /\ job.refused = {} /\ job.scope # "base"

Under(e, N) == \E n \in N : n \in Above[e]

(* All entries above one of the directory are in the directory. *)
TreeClosed == \A e \in tree : Above[e] \subseteq tree

(* No entry to be deleted is lost sight of. *)
ToCome ==
  pc = "Results" =>
    \A e \in Found(Base, job.scope) :
      \/ e \in pending
      \/ \E r \in arrived : r.dn = e
      \/ Under(e, total.non_leaf \union leafs.non_leaf)

(* The second loop can search for the rest of a search again. *)
BelowSearched == pc = "Results" /\ round = "Rest" => \A e \in pending : dn \in Above[e]

ToSearch == pc = "Rest" => \A e \in Found(Base, job.scope) : Under(e, total.non_leaf)

NothingLeft == pc = "Done" => Found(Base, job.scope) = {}

SkipInv ==
  /\ TreeClosed
  /\ Undisturbed /\ total.non_deletable = {} => ToCome /\ BelowSearched /\ ToSearch /\ NothingLeft

(* Removing a leaf, or a subtree, leaves no gap. *)
LEMMA RemovesWhole ==
  ASSUME TypeOK, TreeClosed, NEW e \in tree, NEW ctrl \in BOOLEAN, ctrl \/ Children(e) = {}
  PROVE  \A d \in tree \ Removes(e, ctrl) : Above[d] \subseteq tree \ Removes(e, ctrl)
<1> SUFFICES ASSUME NEW d \in tree \ Removes(e, ctrl), NEW x \in Above[d], x \in Removes(e, ctrl)
             PROVE  FALSE
  BY DEF TreeClosed
<1>1. d \in Entries /\ Above[d] \subseteq tree /\ x \in Entries
  BY DEF TypeOK, TreeClosed
<1>2. CASE ctrl
  <2>1. e \in Above[x] /\ e \notin Above[d]
    BY <1>2 DEF Removes, Subtree
  <2>2. QED BY <1>1, <2>1, TreeAssumption
<1>3. CASE ~ctrl
  <2>1. x = e /\ d # e
    BY <1>3 DEF Removes
  <2>2. PICK c \in Above[d] : Parent[c] = e
    BY <1>1, <2>1, ChildBetween
  <2>3. c \in Children(e)
    BY <1>1, <2>2 DEF Children
  <2>4. QED BY <1>3, <2>3
<1>4. QED BY <1>2, <1>3

(* The directory has no gaps, whatever the command and others do. *)
LEMMA ClosedStep ==
  ASSUME TypeOK, TreeClosed, [Next]_vars
  PROVE  TreeClosed'
<1>1. ASSUME NEW e, NEW ctrl \in BOOLEAN, Deletable(e, ctrl), Delete(e, ctrl)
      PROVE  TreeClosed'
  BY <1>1, RemovesWhole DEF Deletable, NonLeaf, Delete, TreeClosed
<1>2. CASE tree' = tree
  BY <1>2 DEF TreeClosed
<1>3. CASE Confirm
  BY <1>1, <1>2, <1>3 DEF Confirm, DeleteBase
<1>4. CASE First \/ Rest \/ LimitExceeded \/ SearchEnds
  BY <1>2, <1>4 DEF First, Rest, LimitExceeded, SearchEnds, serverVars
<1>5. ASSUME NEW e \in Entries, Send(e) PROVE TreeClosed'
  BY <1>2, <1>5 DEF Send, serverVars
<1>6. ASSUME NEW r \in arrived, ProcessResult(r) PROVE TreeClosed'
  <2>1. job.ctrl \in BOOLEAN
    BY DEF TypeOK, Jobs
  <2>2. QED BY <1>1, <1>2, <1>6, <2>1 DEF ProcessResult
<1>7. ASSUME NEW e \in Entries, OtherAdds(e) PROVE TreeClosed'
  <2>1. Parent[e] \in tree /\ Parent[e] # NoEntry /\ tree' = tree \union {e}
    BY <1>7 DEF OtherAdds, TypeOK
  <2>2. Above[e] = {e} \union Above[Parent[e]]
    BY <2>1, TreeAssumption
  <2>3. QED BY <2>1, <2>2 DEF TreeClosed
<1>8. ASSUME NEW e \in Entries, OtherDeletes(e) PROVE TreeClosed'
  <2>1. e \in tree /\ Children(e) = {} /\ tree' = tree \ {e}
    BY <1>8 DEF OtherDeletes
  <2>2. Removes(e, FALSE) = {e}
    BY DEF Removes
  <2>3. QED BY <2>1, <2>2, RemovesWhole DEF TreeClosed
<1>9. CASE TimeOut \/ Ended \/ UNCHANGED vars
  BY <1>2, <1>9 DEF TimeOut, Ended, vars, serverVars
<1>10. QED
  BY <1>3, <1>4, <1>5, <1>6, <1>7, <1>8, <1>9 DEF Next, DeleteStep, Others

(* The second loop searches below a remembered entry for all that is        *)
(* remembered by it.                                                        *)
LEMMA SearchFinds ==
  ASSUME NEW e \in Found(Base, job.scope), NEW n \in Above[e]
  PROVE  e \in Found(n, "subtree")
BY DEF Found

(* With the base nothing is left below it. *)
LEMMA NothingBelow ==
  ASSUME TypeOK, TreeClosed, Base \notin tree, NEW scope
  PROVE  Found(Base, scope) = {}
<1> SUFFICES ASSUME NEW e \in Found(Base, scope) PROVE FALSE
  OBVIOUS
<1>1. e \in tree /\ e \in Entries /\ (Parent[e] = Base \/ Base \in Above[e])
  BY DEF Found, TypeOK
<1>2. Base \in Entries /\ Base # NoEntry
  OBVIOUS
<1>3. Base \in Above[e]
  BY <1>1, <1>2, TreeAssumption
<1>4. QED BY <1>1, <1>3 DEF TreeClosed

(* Nothing is lost sight of, action by action. *)
LEMMA SkipStep ==
  ASSUME MatchInv, SkipInv, [Next]_vars, Undisturbed', total'.non_deletable = {}
  PROVE  ToCome' /\ BelowSearched' /\ ToSearch' /\ NothingLeft'
<1> DEFINE Kept == ToCome' /\ BelowSearched' /\ ToSearch' /\ NothingLeft'
<1> USE DEF serverVars, searchVars
<1>1. TypeOK /\ job' = job /\ TreeClosed
  BY ScopeStep DEF MatchInv, SkipInv
<1>2. total \in DeleteLeafs /\ leafs \in DeleteLeafs
  BY <1>1 DEF TypeOK
<1>3. Undisturbed
  <2>1. late' = late \/ late'
    BY DEF Next, DeleteStep, Confirm, First, Rest, LimitExceeded, SearchEnds, Send, ProcessResult, Others,
           OtherAdds, OtherDeletes, TimeOut, Ended, vars
  <2>2. changes' = changes \/ changes' = changes + 1
    BY DEF Next, DeleteStep, Confirm, First, Rest, LimitExceeded, SearchEnds, Send, ProcessResult, Others,
           OtherAdds, OtherDeletes, TimeOut, Ended, vars
  <2>3. QED BY <1>1, <2>1, <2>2 DEF Undisturbed, TypeOK
<1>4. total.non_deletable = {}
  <2>1. CASE total' = total
    BY <2>1
  <2>2. CASE Confirm
    BY <1>2, <2>2 DEF Confirm, DeleteBase, DeleteLeafs
  <2>3. CASE First
    BY <1>2, <2>3 DEF First, DeleteLeafs
  <2>4. CASE Rest
    BY <1>2, <2>4 DEF Rest, DeleteLeafs
  <2>5. CASE LimitExceeded \/ SearchEnds
    BY <1>2, <2>5 DEF LimitExceeded, SearchEnds, AddToTotal, DeleteLeafs
  <2>6. QED
    BY <2>1, <2>2, <2>3, <2>4, <2>5 DEF Next, DeleteStep, Send, ProcessResult, Others, OtherAdds, OtherDeletes,
           TimeOut, Ended, vars
<1>5. ToCome /\ BelowSearched /\ ToSearch /\ NothingLeft
  BY <1>3, <1>4 DEF SkipInv
<1>6. ASSUME NEW e, NEW N, NEW M, N \subseteq M, Under(e, N) PROVE Under(e, M)
  BY <1>6 DEF Under
<1>7. tree' \subseteq tree => \A scope : Found(Base, scope)' \subseteq Found(Base, scope)
  BY <1>1 DEF Found
<1>8. CASE Confirm
  <2>1. CASE ~job.confirm
    BY <1>8, <2>1 DEF Confirm, ToCome, BelowSearched, ToSearch, NothingLeft
  <2>2. CASE job.confirm /\ job.scope = "subtree" /\ job.ctrl
    <3>1. pc' = "Raised" \/ (pc' = "Done" /\ tree' = tree \ Subtree(Base))
      BY <1>8, <2>2 DEF Confirm, DeleteBase, Raise, Delete, Removes
    <3>2. tree' = tree \ Subtree(Base) => Found(Base, job.scope)' = {}
      BY <1>1, <2>2 DEF Found, Subtree
    <3>3. QED BY <1>1, <3>1, <3>2 DEF ToCome, BelowSearched, ToSearch, NothingLeft
  <2>3. CASE pc' = "First"
    BY <2>3 DEF ToCome, BelowSearched, ToSearch, NothingLeft
  <2>4. QED
    BY <1>3, <1>8, <2>1, <2>2, <2>3 DEF Confirm, Undisturbed
<1>9. CASE First
  <2>1. CASE StartSearch(Base, job.scope, "First")
    BY <1>1, <1>9, <2>1 DEF First, StartSearch, Found, ToCome, BelowSearched, ToSearch, NothingLeft
  <2>2. CASE Base \notin tree /\ pc' = "Rest"
    <3>1. Found(Base, job.scope)' = {}
      BY <1>1, <1>7, <1>9, <2>2, NothingBelow DEF First
    <3>2. QED BY <1>1, <2>2, <3>1 DEF ToCome, BelowSearched, ToSearch, NothingLeft
  <2>3. QED
    BY <1>3, <1>9, <2>1, <2>2 DEF First, Undisturbed
<1>10. CASE Rest
  <2>1. CASE total.non_leaf = {} /\ pc' = "Done"
    <3>1. Found(Base, job.scope) = {}
      BY <1>5, <1>10, <2>1 DEF Rest, ToSearch, Under
    <3>2. QED
      BY <1>1, <1>7, <1>10, <2>1, <3>1 DEF Rest, ToCome, BelowSearched, ToSearch, NothingLeft
  <2>2. ASSUME NEW n \in total.non_leaf, StartSearch(n, "subtree", "Rest"),
               total' = [total EXCEPT !.non_leaf = total.non_leaf \ {n}]
        PROVE  Kept
    <3>1. pc' = "Results" /\ round' = "Rest" /\ dn' = n /\ pending' = Found(n, "subtree")
      BY <2>2 DEF StartSearch
    <3>2. total'.non_leaf = total.non_leaf \ {n}
      BY <1>2, <2>2 DEF DeleteLeafs
    <3>3. tree' = tree
      BY <1>10 DEF Rest
    <3>4. \A e \in Found(Base, job.scope) : Under(e, total.non_leaf)
      BY <1>5, <1>10 DEF Rest, ToSearch
    <3>5. \A e \in Found(Base, job.scope) :
             e \in pending' \/ Under(e, total'.non_leaf \union leafs'.non_leaf)
      BY <3>1, <3>2, <3>4, SearchFinds DEF Under
    <3>6. Found(Base, job.scope)' = Found(Base, job.scope)
      BY <1>1, <3>3 DEF Found
    <3>7. \A e \in pending' : n \in Above[e]
      BY <3>1 DEF Found
    <3>8. ToCome'
      BY <1>1, <3>5, <3>6 DEF ToCome, Under
    <3>9. QED BY <3>1, <3>7, <3>8 DEF BelowSearched, ToSearch, NothingLeft
  <2>3. CASE pc' = "Raised"
    BY <2>3 DEF ToCome, BelowSearched, ToSearch, NothingLeft
  <2>4. QED
    BY <1>3, <1>4, <1>10, <2>1, <2>2, <2>3 DEF Rest, Raise, Undisturbed
<1>11. CASE LimitExceeded
  <2>1. CASE round = "First"
    BY <1>1, <1>11, <2>1 DEF LimitExceeded, ToCome, BelowSearched, ToSearch, NothingLeft
  <2>2. CASE round = "Rest"
    <3>1. pc = "Results" /\ pc' = "Rest" /\ arrived = {} /\ tree' = tree
      BY <1>11, <2>2 DEF LimitExceeded
    <3>2. total'.non_leaf = total.non_leaf \union ({dn} \union leafs.non_leaf)
      BY <1>11, <2>2 DEF LimitExceeded, AddToTotal
    <3>3. \A e \in Found(Base, job.scope) : Under(e, total'.non_leaf)
      BY <1>5, <2>2, <3>1, <3>2 DEF ToCome, BelowSearched, Under
    <3>4. Found(Base, job.scope)' = Found(Base, job.scope)
      BY <1>1, <3>1 DEF Found
    <3>5. ToSearch'
      BY <3>3, <3>4 DEF ToSearch, Under
    <3>6. QED BY <3>1, <3>5 DEF ToCome, BelowSearched, NothingLeft
  <2>3. QED BY <1>11, <2>1, <2>2 DEF LimitExceeded
<1>12. CASE SearchEnds
  <2>1. pc = "Results" /\ pc' = "Rest" /\ arrived = {} /\ pending = {} /\ tree' = tree
    BY <1>12 DEF SearchEnds
  <2>2. total'.non_leaf = total.non_leaf \union leafs.non_leaf
    BY <1>12 DEF SearchEnds, AddToTotal
  <2>3. \A e \in Found(Base, job.scope) : Under(e, total'.non_leaf)
    BY <1>5, <2>1, <2>2 DEF ToCome
  <2>4. Found(Base, job.scope)' = Found(Base, job.scope)
    BY <1>1, <2>1 DEF Found
  <2>5. ToSearch'
    BY <2>3, <2>4 DEF ToSearch, Under
  <2>6. QED BY <2>1, <2>5 DEF ToCome, BelowSearched, NothingLeft
<1>13. ASSUME NEW x \in Entries, Send(x) PROVE Kept
  <2>1. pc = "Results" /\ pc' = "Results" /\ tree' = tree /\ total' = total /\ leafs' = leafs
        /\ round' = round /\ dn' = dn /\ pending' = pending \ {x}
    BY <1>13 DEF Send
  <2>2. Found(Base, job.scope)' = Found(Base, job.scope)
    BY <1>1, <2>1 DEF Found
  <2>3. x \in Found(Base, job.scope) => \E r \in arrived' : r.dn = x
    <3> DEFINE sub == job.attr /\ Children(x) # {}
    <3>1. x \in tree => arrived' = arrived \union {[dn |-> x, sub |-> sub]}
      BY <1>13, Zenon DEF Send
    <3>2. x \in Found(Base, job.scope) => x \in tree
      BY DEF Found
    <3>3. [dn |-> x, sub |-> sub].dn = x
      BY Zenon
    <3>4. QED BY <3>1, <3>2, <3>3, Zenon
  <2>4. arrived \subseteq arrived'
    BY <1>13 DEF Send
  <2>5. ToCome'
    BY <1>1, <1>5, <2>1, <2>2, <2>3, <2>4 DEF ToCome, Under
  <2>6. QED BY <1>5, <2>1, <2>5 DEF BelowSearched, ToSearch, NothingLeft
<1>14. ASSUME NEW r \in arrived, ProcessResult(r) PROVE Kept
  <2>1. pc = "Results" /\ (pc' = "Results" \/ pc' = "Raised") /\ total' = total
        /\ round' = round /\ dn' = dn /\ pending' = pending /\ arrived' = arrived \ {r}
    BY <1>14 DEF ProcessResult, Raise
  <2>2. tree' \subseteq tree
    BY <1>14 DEF ProcessResult, Delete
  <2>3. r.dn \in Entries /\ r.dn \in Above[r.dn]
    BY <1>1, TreeAssumption DEF TypeOK
  <2>4. leafs.non_leaf \subseteq leafs'.non_leaf
    BY <1>2, <1>14 DEF ProcessResult, DeleteLeafs
  <2>5. ASSUME pc' = "Results", r.dn \in tree' PROVE r.dn \in leafs'.non_leaf
    <3>1. ~Refused(r.dn, job.ctrl)
      BY <1>3 DEF Refused, Undisturbed
    <3>2. ~ (Deletable(r.dn, job.ctrl) /\ Delete(r.dn, job.ctrl))
      BY <1>1, <2>3, <2>5 DEF Deletable, Delete, Removes, Subtree
    <3>3. ~NoSuchObject(r.dn)
      BY <2>2, <2>5 DEF NoSuchObject
    <3>4. QED
      BY <1>2, <1>14, <2>1, <2>5, <3>1, <3>2, <3>3 DEF ProcessResult, Raise, DeleteLeafs
  <2>6. ASSUME pc' = "Results", NEW e \in Found(Base, job.scope)'
        PROVE  \/ e \in pending'
               \/ \E q \in arrived' : q.dn = e
               \/ Under(e, total'.non_leaf \union leafs'.non_leaf)
    <3>1. e \in Found(Base, job.scope) /\ e \in tree'
      BY <1>1, <1>7, <2>2, <2>6 DEF Found
    <3>2. CASE e = r.dn
      BY <2>3, <2>5, <2>6, <3>1, <3>2 DEF Under
    <3>3. CASE e # r.dn /\ ~Under(e, total.non_leaf \union leafs.non_leaf)
      BY <1>5, <2>1, <3>1, <3>3 DEF ToCome
    <3>4. CASE Under(e, total.non_leaf \union leafs.non_leaf)
      BY <2>1, <2>4, <3>4 DEF Under
    <3>5. QED BY <3>2, <3>3, <3>4
  <2>7. ToCome'
    BY <1>1, <2>6 DEF ToCome, Under
  <2>8. QED BY <1>5, <2>1, <2>7 DEF BelowSearched, ToSearch, NothingLeft
<1>15. CASE TimeOut \/ Others
  BY <1>1, <1>3, <1>15 DEF TimeOut, Others, OtherAdds, OtherDeletes, Undisturbed, TypeOK
<1>16. CASE Ended \/ UNCHANGED vars
  BY <1>5, <1>16 DEF Ended, vars, ToCome, BelowSearched, ToSearch, NothingLeft, Found, Under
<1>17. QED
  BY <1>8, <1>9, <1>10, <1>11, <1>12, <1>13, <1>14, <1>15, <1>16 DEF Next, DeleteStep

(* "Skipped: 0" is shown only if the search would find nothing any more,    *)
(* unless the time is over, another client changed the directory or the     *)
(* server refused to delete an entry.                                       *)
THEOREM NothingLeftBehind == Spec => []NothingSkipped
<1>1. Init => SkipInv
  BY InitialClosed DEF Init, SkipInv, TreeClosed, ToCome, BelowSearched, ToSearch, NothingLeft
<1>2. MatchInv /\ SkipInv /\ [Next]_vars => SkipInv'
  BY ClosedStep, SkipStep DEF SkipInv, MatchInv
<1>3. SkipInv => NothingSkipped
  BY DEF SkipInv, Undisturbed, NothingLeft, NothingSkipped
<1>4. QED BY MatchInvariance, <1>1, <1>2, <1>3, PTL DEF Spec
=============================================================================
