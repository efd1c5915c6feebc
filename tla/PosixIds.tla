------------------------------ MODULE PosixIds ------------------------------
(***************************************************************************)
(* POSIX IDs given to new entries (app/plugins/posixautogen.py and           *)
(* AEGIDNumber in app/plugins/aedir.py).                                      *)
(*                                                                         *)
(* "autogen" suggests with the form the first number not in use: it searches *)
(* from minNewValue on, a class attribute of all threads, sessions and         *)
(* servers, which its loop raises.  "pool" takes a number from a pool entry    *)
(* when the form is sent.  The numbers are those of one attribute.            *)
(***************************************************************************)
EXTENDS FiniteSets, Integers

CONSTANTS
  Threads,
  Servers,
  maxNewValue,   \* numbers are 1..maxNewValue, for autogen
  Pooled,        \* servers whose entries get numbers of a pool
  Starts,        \* pairs: what each server has to begin with, requests sent
  MaxRequests,   \* bound of the requests, for model checking
  MaxChanges     \* bound of the changes by others, for model checking

Ids == 1..maxNewValue
Requests == [at : Servers, from : {"new", "edit", "clone"}, own : Ids \union {0}, typed : BOOLEAN]

PosixAssumption ==
  /\ maxNewValue \in Nat \ {0} /\ {MaxRequests, MaxChanges} \subseteq Nat
  /\ Servers # {} /\ Pooled \subseteq Servers
  /\ \A start \in Starts : start.used \in [Servers -> SUBSET Ids] /\ start.menu \subseteq Requests

VARIABLES
  pc,      \* where each thread is
  form,    \* its request
  dir,     \* the servers, and AutogenNumberMixIn.minNewValue
  work,    \* locals of each thread
  report,  \* number in the form or in the entry, 0 is none
  past     \* history, see below

vars == <<pc, form, dir, work, report, past>>

NoWork == [found |-> {}, i |-> 0]
Idle == [at |-> CHOOSE s \in Servers : TRUE, from |-> "new", own |-> 0, typed |-> FALSE]

(* holders counts the entries with each number; the pool entry has a number  *)
(* above all of them.  past.moved are threads whose search is outdated,        *)
(* because something was added or minNewValue was set meanwhile.               *)
Init ==
  /\ pc = [t \in Threads |-> "idle"]
  /\ form = [t \in Threads |-> Idle]
  /\ \E start \in Starts :
       /\ dir = [holders |-> [s \in Servers |-> [id \in Ids |-> IF id \in start.used[s] THEN 1 ELSE 0]],
                 pool |-> [s \in Servers |-> maxNewValue + 1], given |-> [s \in Servers |-> {}],
                 min |-> 1, changes |-> 0, requests |-> 0]
       /\ past = [used |-> UNION {start.used[s] : s \in Servers}, menu |-> start.menu,
                  moved |-> {}, cloned |-> FALSE, twice |-> FALSE]
  /\ work = [t \in Threads |-> NoWork]
  /\ report = [t \in Threads |-> 0]

Used(s) == {id \in Ids : dir.holders[s][id] > 0}
Goto(t, l) == pc' = [pc EXCEPT ![t] = l]
Searching == {t \in Threads : pc[t] \in {"found", "loop", "filled"}}

OtherAdds(s, id) ==
  /\ dir.changes < MaxChanges /\ s \notin Pooled /\ id \notin Used(s)
  /\ dir' = [dir EXCEPT !.holders[s][id] = 1, !.changes = @ + 1]
  /\ past' = [past EXCEPT !.used = @ \union {id}, !.moved = @ \union Searching]
  /\ UNCHANGED <<pc, form, work, report>>

OtherDeletes(s, id) ==
  /\ dir.changes < MaxChanges /\ id \in Used(s)
  /\ dir' = [dir EXCEPT !.holders[s][id] = 0, !.changes = @ + 1]
  /\ UNCHANGED <<pc, form, work, report, past>>

(* Form for a new entry, a clone of one, or an entry to be modified; a number *)
(* the entry has is in the form, unless the user removes it.                   *)
Request(t, r) ==
  /\ pc[t] = "idle" /\ dir.requests < MaxRequests
  /\ r.from = "new" <=> r.own = 0
  /\ r.own # 0 => r.own \in Used(r.at)
  /\ dir' = [dir EXCEPT !.requests = @ + 1]
  /\ form' = [form EXCEPT ![t] = r]
  /\ report' = [report EXCEPT ![t] = IF r.typed THEN r.own ELSE 0]
  /\ Goto(t, IF r.at \in Pooled THEN "reread" ELSE IF r.own # 0 /\ r.typed THEN "filled" ELSE "search")
  /\ past' = [past EXCEPT !.moved = @ \ {t}, !.cloned = @ \/ (r.from = "clone" /\ r.typed)]
  /\ UNCHANGED work

-----------------------------------------------------------------------------
(* AutogenNumberMixIn.form_value() *)

(* A search that fails or exceeds a limit: no suggestion.  The number of the *)
(* entry itself is taken as it is.                                            *)
Search(t) ==
  /\ pc[t] = "search"
  /\ LET found == {id \in Used(form[t].at) : id >= dir.min}
     IN \/ /\ Goto(t, "filled") /\ UNCHANGED <<work, report>>
        \/ /\ form[t].from = "edit" /\ form[t].own \in found
           /\ Goto(t, "filled")
           /\ report' = [report EXCEPT ![t] = form[t].own]
           /\ UNCHANGED work
        \/ /\ ~(form[t].from = "edit" /\ form[t].own \in found)
           /\ Goto(t, "found")
           /\ work' = [work EXCEPT ![t].found = found]
           /\ UNCHANGED report
  /\ UNCHANGED <<form, dir, past>>

(* range(minNewValue, maxNewValue+1) is evaluated once, after the search.     *)
LoopStart == dir.min
Loop(t) ==
  /\ pc[t] = "found"
  /\ Goto(t, "loop")
  /\ work' = [work EXCEPT ![t].i = LoopStart]
  /\ UNCHANGED <<form, dir, report, past>>

(* What minNewValue is set to when i is in use; the mutant goes a number too  *)
(* far.                                                                       *)
Raised_Next(t) == work[t].i + 1
Raised(t) == work[t].i

(* "idnumber > self.maxNewValue" is never true: where all numbers are in use *)
(* the last one is suggested.                                                 *)
Step(t) ==
  /\ pc[t] = "loop"
  /\ LET inUse == work[t].i \in work[t].found
         ends == ~inUse \/ work[t].i = maxNewValue
     IN /\ dir' = IF inUse THEN [dir EXCEPT !.min = Raised(t)] ELSE dir
        /\ past' = IF inUse /\ dir.min # Raised(t)
                   THEN [past EXCEPT !.moved = @ \union (Searching \ {t})] ELSE past
        /\ IF ends THEN Goto(t, "filled") /\ report' = [report EXCEPT ![t] = work[t].i] /\ UNCHANGED work
           ELSE work' = [work EXCEPT ![t].i = @ + 1] /\ UNCHANGED <<pc, report>>
  /\ UNCHANGED form

-----------------------------------------------------------------------------
(* AEGIDNumber.transmute() *)

(* A number in the form is kept; otherwise the entry at app.dn is read,      *)
(* which is the superior if an entry is added or cloned.  It may have been      *)
(* deleted, or not be readable.                                                *)
Reread(t) ==
  /\ pc[t] = "reread"
  /\ \/ report[t] # 0 /\ Goto(t, "filled") /\ UNCHANGED report
     \/ /\ report[t] = 0 /\ form[t].from = "edit" /\ form[t].own \in Used(form[t].at)
        /\ Goto(t, "filled")
        /\ report' = [report EXCEPT ![t] = form[t].own]
     \/ report[t] = 0 /\ Goto(t, "increment") /\ UNCHANGED report
  /\ UNCHANGED <<form, dir, work, past>>

(* _get_next_gid(): the number before a MOD_INCREMENT, in one request.  If    *)
(* its answer is lost it is sent again, and one number is not used.  The       *)
(* mutant takes the number of the first answer when that is lost.              *)
NextGid_First(s) == {dir.pool[s]} \X {dir.pool[s], dir.pool[s] + 1}
NextGid(s) == {<<dir.pool[s], dir.pool[s] + 1>>, <<dir.pool[s] + 1, dir.pool[s] + 2>>}

Increment(t) ==
  /\ pc[t] = "increment"
  /\ \E next \in NextGid(form[t].at) :
       /\ report' = [report EXCEPT ![t] = next[1]]
       /\ dir' = [dir EXCEPT !.pool[form[t].at] = next[2]]
  /\ Goto(t, "filled")
  /\ UNCHANGED <<form, work, past>>

-----------------------------------------------------------------------------
(* The entry is written, by a server that does not compare numbers; or the  *)
(* user goes away.                                                           *)

WithId(s, id, old) ==
  [dir EXCEPT !.holders[s] = [n \in Ids |-> @[n] + (IF n = id THEN 1 ELSE 0) - (IF n = old THEN 1 ELSE 0)],
              !.given[s] = IF id > maxNewValue THEN @ \union {id} ELSE @]

Write(t) ==
  /\ pc[t] = "filled"
  /\ LET s == form[t].at
         id == report[t]
         old == IF form[t].from = "edit" /\ form[t].own \in Used(s) THEN form[t].own ELSE 0
     IN \/ UNCHANGED <<dir, past>>
        \/ /\ id # 0
           /\ dir' = WithId(s, id, old)
           /\ past' = [past EXCEPT !.used = @ \union ({id} \intersect Ids), !.moved = @ \union (Searching \ {t}),
                                   !.twice = @ \/ id \in dir.given[s]
                                               \/ (form[t].from # "edit" /\ s \in Pooled /\ id \in Used(s))]
  /\ Goto(t, "idle")
  /\ work' = [work EXCEPT ![t] = NoWork]
  /\ report' = [report EXCEPT ![t] = 0]
  /\ form' = [form EXCEPT ![t] = Idle]

Thread(t) ==
  \/ \E r \in past.menu : Request(t, r)
  \/ Search(t) \/ Loop(t) \/ Step(t) \/ Reread(t) \/ Increment(t) \/ Write(t)
Next ==
  \/ \E s \in Servers, id \in Ids : OtherAdds(s, id) \/ OtherDeletes(s, id)
  \/ \E t \in Threads : Thread(t)

Spec == Init /\ [][Next]_vars

-----------------------------------------------------------------------------
(* Properties. *)

(* Every variable has its type. *)
TypeOK ==
  /\ pc \in [Threads -> {"idle", "search", "found", "loop", "reread", "increment", "filled"}]
  /\ form \in [Threads -> Requests]
  /\ dir.holders \in [Servers -> [Ids -> Nat]] /\ dir.pool \in [Servers -> Nat]
  /\ dir.given \in [Servers -> SUBSET Nat] /\ dir.min \in Ids
  /\ work \in [Threads -> [found : SUBSET Ids, i : Ids \union {0}]]
  /\ report \in [Threads -> Nat]
  /\ past.used \subseteq Ids /\ past.menu \subseteq Requests /\ past.moved \subseteq Threads
  /\ {past.cloned, past.twice} \subseteq BOOLEAN

(* What the search suggests is not in use, though minNewValue is shared with *)
(* other threads and servers: unless these added an entry or set minNewValue   *)
(* after the search, or all numbers from minNewValue on are in use.            *)
SuggestedIsFree ==
  \A t \in Threads : (pc[t] = "filled" /\ form[t].at \notin Pooled /\ form[t].own = 0
                      /\ report[t] \in Ids /\ t \notin past.moved)
    => report[t] \notin Used(form[t].at) \/ dir.min..maxNewValue \subseteq Used(form[t].at)

(* No number is passed over that was not in use at some time: numbers below *)
(* minNewValue are not searched any more.                                     *)
MinPassesUsed == 1..(dir.min - 1) \subseteq past.used

(* The pool gives a number to one entry only, also if answers are lost; but  *)
(* a clone keeps the number of the entry it was made of, if it is not removed *)
(* in the form.                                                               *)
PoolIdsUnique == past.twice => past.cloned
=============================================================================
