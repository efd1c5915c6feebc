---------------------------- MODULE PosixIdsProofs ---------------------------
(***************************************************************************)
(* Theorems about PosixIds for any number of threads, servers and numbers:  *)
(* what minNewValue, which all of them share, and the number pools promise  *)
(* whatever the threads, and other clients, do meanwhile.                    *)
(***************************************************************************)
EXTENDS PosixIds, TLAPS

-----------------------------------------------------------------------------
(* Types.  TypeOK says of the records what their fields are; a proof needs  *)
(* also that they have no others.                                            *)

Dirs == [holders : [Servers -> [Ids -> Nat]], pool : [Servers -> Nat], given : [Servers -> SUBSET Nat],
         min : Ids, changes : Nat, requests : Nat]
Pasts == [used : SUBSET Ids, menu : SUBSET Requests, moved : SUBSET Threads, cloned : BOOLEAN, twice : BOOLEAN]

Typed == TypeOK /\ dir \in Dirs /\ past \in Pasts

(* What each place in the code knows of the number in the form. *)
PhaseOK(t) ==
  /\ pc[t] = "loop" => work[t].i \in Ids
  /\ pc[t] \in {"search", "found", "loop"} => form[t].at \notin Pooled
  /\ pc[t] \in {"reread", "increment"} => form[t].at \in Pooled
  /\ pc[t] \in {"idle", "increment"} => report[t] = 0
  /\ (form[t].own = 0 /\ pc[t] \in {"search", "found", "loop", "reread"}) => report[t] = 0
  /\ form[t].at \notin Pooled => report[t] \in Ids \union {0}
  /\ pc[t] # "idle" => (form[t].own = 0 <=> form[t].from = "new")

TInv == Typed /\ \A t \in Threads : PhaseOK(t)

(* The server and the history start with their types. *)
LEMMA TypeInit ==
  ASSUME PosixAssumption, Init
  PROVE  TInv
<1> USE DEF PosixAssumption
<1>1. 1 \in Ids /\ maxNewValue + 1 \in Nat
  BY DEF Ids
<1>2. Idle \in Requests /\ NoWork \in [found : SUBSET Ids, i : Ids \union {0}]
  BY DEF Idle, Requests, NoWork
<1>3. PICK start \in Starts :
        /\ dir = [holders |-> [s \in Servers |-> [id \in Ids |-> IF id \in start.used[s] THEN 1 ELSE 0]],
                  pool |-> [s \in Servers |-> maxNewValue + 1], given |-> [s \in Servers |-> {}],
                  min |-> 1, changes |-> 0, requests |-> 0]
        /\ past = [used |-> UNION {start.used[s] : s \in Servers}, menu |-> start.menu,
                   moved |-> {}, cloned |-> FALSE, twice |-> FALSE]
  BY DEF Init
<1>4. dir \in Dirs
  <2>1. [s \in Servers |-> [id \in Ids |-> IF id \in start.used[s] THEN 1 ELSE 0]] \in [Servers -> [Ids -> Nat]]
    OBVIOUS
  <2>2. [s \in Servers |-> maxNewValue + 1] \in [Servers -> Nat] /\ [s \in Servers |-> {}] \in [Servers -> SUBSET Nat]
    BY <1>1
  <2>3. QED BY <1>1, <1>3, <2>1, <2>2 DEF Dirs
<1>5. past \in Pasts
  <2>1. UNION {start.used[s] : s \in Servers} \subseteq Ids
    OBVIOUS
  <2>2. start.menu \subseteq Requests
    OBVIOUS
  <2>3. QED BY <1>3, <2>1, <2>2 DEF Pasts
<1>6. TypeOK
  BY <1>2, <1>4, <1>5 DEF Init, TypeOK, Dirs, Pasts
<1>7. \A t \in Threads : PhaseOK(t)
  BY DEF Init, PhaseOK
<1>8. QED BY <1>4, <1>5, <1>6, <1>7 DEF TInv, Typed

Labels == {"idle", "search", "found", "loop", "reread", "increment", "filled"}
Works == [found : SUBSET Ids, i : Ids \union {0}]

(* What Typed says, without repeating the fields. *)
LEMMA TypedIs ==
  Typed <=> /\ pc \in [Threads -> Labels] /\ form \in [Threads -> Requests]
            /\ work \in [Threads -> Works] /\ report \in [Threads -> Nat]
            /\ dir \in Dirs /\ past \in Pasts
BY DEF Typed, TypeOK, Labels, Works, Dirs, Pasts

(* The same of the next state. *)
LEMMA TypedNext ==
  Typed' <=> /\ pc' \in [Threads -> Labels] /\ form' \in [Threads -> Requests]
             /\ work' \in [Threads -> Works] /\ report' \in [Threads -> Nat]
             /\ dir' \in Dirs /\ past' \in Pasts
BY DEF Typed, TypeOK, Labels, Works, Dirs, Pasts

(* Other clients change the entries only. *)
LEMMA OthersType ==
  ASSUME TInv, NEW s \in Servers, NEW id \in Ids, OtherAdds(s, id) \/ OtherDeletes(s, id)
  PROVE  TInv'
<1>1. dir' \in Dirs
  <2>1. dir \in Dirs
    BY TypedIs DEF TInv
  <2>2. PICK n \in {0, 1} : dir' = [dir EXCEPT !.holders = [dir.holders EXCEPT ![s][id] = n],
                                             !.changes = dir.changes + 1]
    BY DEF OtherAdds, OtherDeletes
  <2> DEFINE h == [dir.holders EXCEPT ![s][id] = n]
  <2>3. h \in [Servers -> [Ids -> Nat]]
    BY <2>1 DEF Dirs
  <2>4. dir' = [dir EXCEPT !.holders = h, !.changes = dir.changes + 1]
    BY <2>2
  <2> HIDE DEF h
  <2> DEFINE c == dir.changes + 1
  <2>5. c \in Nat
    BY <2>1 DEF Dirs
  <2>6. dir' = [dir EXCEPT !.holders = h, !.changes = c]
    BY <2>4
  <2> HIDE DEF c
  <2>7. QED BY <2>1, <2>3, <2>5, <2>6 DEF Dirs
<1>2. past' \in Pasts
  <2>1. Searching \subseteq Threads
    BY DEF Searching
  <2>2. past \in Pasts
    BY TypedIs DEF TInv
  <2>3. CASE past' = [past EXCEPT !.used = past.used \union {id}, !.moved = past.moved \union Searching]
    BY <2>1, <2>2, <2>3 DEF Pasts
  <2>4. QED BY <2>2, <2>3 DEF OtherAdds, OtherDeletes
<1>3. UNCHANGED <<pc, form, work, report>>
  BY DEF OtherAdds, OtherDeletes
<1>4. Typed'
  BY <1>1, <1>2, <1>3, TypedIs DEF TInv, Typed, TypeOK, Dirs, Pasts
<1>5. \A t \in Threads : PhaseOK(t)'
  BY <1>3 DEF TInv, PhaseOK
<1>6. QED BY <1>4, <1>5 DEF TInv

(* A step of t, for the other threads. *)
LEMMA OthersKeep ==
  ASSUME TInv, NEW t \in Threads, Thread(t)
  PROVE  \A u \in Threads \ {t} : /\ pc'[u] = pc[u] /\ form'[u] = form[u]
                                  /\ work'[u] = work[u] /\ report'[u] = report[u]
<1> SUFFICES ASSUME NEW u \in Threads \ {t}
             PROVE  /\ pc'[u] = pc[u] /\ form'[u] = form[u]
                    /\ work'[u] = work[u] /\ report'[u] = report[u]
  OBVIOUS
<1> USE TypedIs DEF TInv, Goto
<1>1. ASSUME NEW r \in past.menu, Request(t, r)
      PROVE  pc'[u] = pc[u] /\ form'[u] = form[u] /\ work'[u] = work[u] /\ report'[u] = report[u]
  BY <1>1 DEF Request
<1>2. CASE Search(t) \/ Loop(t)
  BY <1>2 DEF Search, Loop
<1>3. CASE Step(t)
  BY <1>3 DEF Step
<1>4. CASE Reread(t)
  BY <1>4 DEF Reread
<1>5. CASE Increment(t)
  BY <1>5 DEF Increment
<1>6. CASE Write(t)
  BY <1>6 DEF Write
<1>7. QED BY <1>1, <1>2, <1>3, <1>4, <1>5, <1>6 DEF Thread

(* The number t takes from the pool, and what is there afterwards. *)
LEMMA PoolTaken ==
  ASSUME TInv, NEW t \in Threads, Increment(t)
  PROVE  \E n \in Nat : /\ n >= dir.pool[form[t].at]
                        /\ report'[t] = n
                        /\ dir' = [dir EXCEPT !.pool[form[t].at] = n + 1]
<1>1. form[t].at \in Servers /\ dir.pool[form[t].at] \in Nat
  BY TypedIs DEF TInv, Dirs, Requests
<1>2. PICK next \in NextGid(form[t].at) :
         report' = [report EXCEPT ![t] = next[1]] /\ dir' = [dir EXCEPT !.pool[form[t].at] = next[2]]
  BY DEF Increment
<1>3. next[1] \in Nat /\ next[1] >= dir.pool[form[t].at] /\ next[2] = next[1] + 1
  BY <1>1 DEF NextGid
<1>4. report'[t] = next[1]
  BY <1>2, TypedIs DEF TInv
<1>5. QED BY <1>2, <1>3, <1>4

(* What TInv says of one thread. *)
LEMMA ThreadTypes ==
  ASSUME TInv, NEW t \in Threads
  PROVE  /\ dir \in Dirs /\ past \in Pasts
         /\ form[t] \in Requests /\ work[t] \in Works /\ report[t] \in Nat /\ pc[t] \in Labels
         /\ form[t].at \in Servers /\ form[t].own \in Ids \union {0}
         /\ Used(form[t].at) \subseteq Ids
         /\ PhaseOK(t)
BY TypedIs DEF TInv, Requests, Used

(* A request that begins, with what is in its form. *)
LEMMA RequestType ==
  ASSUME PosixAssumption, TInv, NEW t \in Threads, NEW r \in past.menu, Request(t, r)
  PROVE  Typed' /\ PhaseOK(t)'
<1>1. dir \in Dirs /\ past \in Pasts /\ pc[t] = "idle"
  BY ThreadTypes DEF Request
<1>2. r \in Requests /\ r.own \in Nat /\ r.typed \in BOOLEAN
  BY <1>1 DEF Pasts, Requests, Ids, PosixAssumption
<1>3. dir' \in Dirs
  <2> DEFINE n == dir.requests + 1
  <2>1. n \in Nat /\ dir' = [dir EXCEPT !.requests = n]
    BY <1>1 DEF Request, Dirs
  <2> HIDE DEF n
  <2>2. QED BY <1>1, <2>1 DEF Dirs
<1>4. past' \in Pasts
  <2> DEFINE c == past.cloned \/ (r.from = "clone" /\ r.typed)
  <2>1. c \in BOOLEAN /\ past' = [past EXCEPT !.moved = past.moved \ {t}, !.cloned = c]
    BY <1>1, <1>2, Zenon DEF Request, Pasts
  <2> HIDE DEF c
  <2>2. QED BY <1>1, <2>1 DEF Pasts
<1>5. pc' \in [Threads -> Labels] /\ form' \in [Threads -> Requests] /\ work' = work /\ report' \in [Threads -> Nat]
  BY <1>2, TypedIs DEF TInv, Request, Goto, Labels
<1>6. PhaseOK(t)'
  <2>1. form'[t] = r /\ report'[t] = (IF r.typed THEN r.own ELSE 0)
        /\ pc'[t] = (IF r.at \in Pooled THEN "reread" ELSE IF r.own # 0 /\ r.typed THEN "filled" ELSE "search")
    BY TypedIs DEF TInv, Request, Goto
  <2>2. r.own \in Ids \union {0} /\ (r.from = "new" <=> r.own = 0)
    BY <1>2 DEF Request, Requests
  <2>3. QED BY <1>2, <2>1, <2>2 DEF PhaseOK
<1>7. QED BY <1>3, <1>4, <1>5, <1>6, TypedIs, TypedNext DEF TInv

(* The search for numbers in use, and the loop over the numbers. *)
LEMMA SearchType ==
  ASSUME PosixAssumption, TInv, NEW t \in Threads, Search(t) \/ Loop(t) \/ Reread(t)
  PROVE  Typed' /\ PhaseOK(t)'
<1>1. dir \in Dirs /\ past \in Pasts /\ work[t] \in Works /\ report[t] \in Nat /\ PhaseOK(t)
      /\ Used(form[t].at) \subseteq Ids /\ form[t].own \in Ids \union {0}
  BY ThreadTypes
<1>2. UNCHANGED <<form, dir, past>>
  BY DEF Search, Loop, Reread
<1>3. Ids \subseteq Nat /\ dir.min \in Ids
  BY <1>1 DEF Ids, PosixAssumption, Dirs
<1>4. pc' \in [Threads -> Labels] /\ report' \in [Threads -> Nat]
  BY <1>1, <1>3, TypedIs DEF TInv, Search, Loop, Reread, Goto, Labels
<1>5. work' \in [Threads -> Works]
  BY <1>1, <1>3, TypedIs DEF TInv, Search, Loop, Reread, LoopStart, Works
<1>6. PhaseOK(t)'
  <2>1. CASE Search(t)
    BY <1>1, <1>2, <1>3, <2>1, TypedIs DEF TInv, Search, Goto, PhaseOK
  <2>2. CASE Loop(t)
    BY <1>1, <1>2, <1>3, <2>2, TypedIs DEF TInv, Loop, LoopStart, Goto, PhaseOK, Works
  <2>3. CASE Reread(t)
    BY <1>1, <1>2, <1>3, <2>3, TypedIs DEF TInv, Reread, Goto, PhaseOK
  <2>4. QED BY <2>1, <2>2, <2>3
<1>7. QED BY <1>1, <1>2, <1>4, <1>5, <1>6, TypedIs, TypedNext DEF TInv

(* A step of the loop stays within the numbers. *)
LEMMA StepType ==
  ASSUME PosixAssumption, TInv, NEW t \in Threads, Step(t)
  PROVE  Typed' /\ PhaseOK(t)'
<1>1. dir \in Dirs /\ past \in Pasts /\ work[t] \in Works /\ report[t] \in Nat /\ PhaseOK(t) /\ pc[t] = "loop"
  BY ThreadTypes DEF Step
<1>2. work[t].i \in Ids /\ work[t].i \in Nat
  BY <1>1 DEF PhaseOK, Ids, PosixAssumption
<1>3. dir' \in Dirs
  BY <1>1, <1>2 DEF Step, Raised, Dirs
<1>4. past' \in Pasts
  <2>1. Searching \ {t} \subseteq Threads
    BY DEF Searching
  <2>2. QED BY <1>1, <2>1 DEF Step, Pasts
<1>5. form' = form /\ pc' \in [Threads -> Labels] /\ report' \in [Threads -> Nat]
  BY <1>2, TypedIs DEF TInv, Step, Goto, Labels
<1>6. work[t].i # maxNewValue => work[t].i + 1 \in Ids
  BY <1>2 DEF Ids, PosixAssumption
<1>7. work' \in [Threads -> Works] /\ (pc'[t] = "loop" => work'[t].i \in Ids)
  <2>1. CASE pc' = pc
    <3>1. work' = [work EXCEPT ![t].i = work[t].i + 1] /\ work[t].i # maxNewValue
      <4>1. pc'[t] # "filled"
        BY <1>1, <2>1
      <4>2. QED BY <4>1, TypedIs DEF TInv, Step, Goto
    <3> DEFINE n == work[t].i + 1
    <3>2. n \in Ids /\ work' = [work EXCEPT ![t].i = n]
      BY <1>6, <3>1
    <3> HIDE DEF n
    <3>3. QED BY <3>2, TypedIs DEF TInv, Works
  <2>2. CASE pc' # pc
    <3>1. work' = work /\ pc'[t] = "filled"
      BY <2>2, TypedIs DEF TInv, Step, Goto
    <3>2. QED BY <3>1, TypedIs DEF TInv
  <2>3. QED BY <2>1, <2>2
<1>8. PhaseOK(t)'
  <2>1. (pc'[t] = "loop" /\ report' = report) \/ (pc'[t] = "filled" /\ report'[t] = work[t].i)
    BY <1>1, TypedIs DEF TInv, Step, Goto
  <2>2. QED BY <1>1, <1>2, <1>5, <1>7, <2>1 DEF PhaseOK
<1>9. QED BY <1>3, <1>4, <1>5, <1>7, <1>8, TypedIs, TypedNext DEF TInv

(* A number is taken from the pool. *)
LEMMA IncrementType ==
  ASSUME PosixAssumption, TInv, NEW t \in Threads, Increment(t)
  PROVE  Typed' /\ PhaseOK(t)'
<1>1. dir \in Dirs /\ past \in Pasts /\ PhaseOK(t) /\ pc[t] = "increment" /\ form[t].at \in Servers
  BY ThreadTypes DEF Increment
<1>2. PICK n \in Nat : report'[t] = n /\ dir' = [dir EXCEPT !.pool[form[t].at] = n + 1]
  BY PoolTaken
<1>3. dir' \in Dirs
  <2> DEFINE p == [dir.pool EXCEPT ![form[t].at] = n + 1]
  <2>1. p \in [Servers -> Nat] /\ dir' = [dir EXCEPT !.pool = p]
    BY <1>1, <1>2 DEF Dirs
  <2> HIDE DEF p
  <2>2. QED BY <1>1, <2>1 DEF Dirs
<1>4. UNCHANGED <<form, work, past>> /\ pc' \in [Threads -> Labels] /\ pc'[t] = "filled"
  BY TypedIs DEF TInv, Increment, Goto, Labels
<1>5. report' \in [Threads -> Nat]
  <2>1. PICK next \in NextGid(form[t].at) : report' = [report EXCEPT ![t] = next[1]]
    BY DEF Increment
  <2>2. next[1] = n
    BY <1>2, <2>1, TypedIs DEF TInv
  <2>3. QED BY <2>1, <2>2, TypedIs DEF TInv
<1>6. PhaseOK(t)'
  BY <1>1, <1>4 DEF PhaseOK
<1>7. QED BY <1>1, <1>3, <1>4, <1>5, <1>6, TypedIs, TypedNext DEF TInv

(* What a thread that writes its entry does to the server. *)
Written(t) ==
  LET s == form[t].at
      id == report[t]
      old == IF form[t].from = "edit" /\ form[t].own \in Used(s) THEN form[t].own ELSE 0
  IN /\ id # 0
     /\ dir' = WithId(s, id, old)
     /\ past' = [past EXCEPT !.used = @ \union ({id} \intersect Ids), !.moved = @ \union (Searching \ {t}),
                             !.twice = @ \/ id \in dir.given[s]
                                         \/ (form[t].from # "edit" /\ s \in Pooled /\ id \in Used(s))]

(* Writing either changes nothing or counts the entry with its number. *)
LEMMA WriteCases ==
  ASSUME NEW t, Write(t)
  PROVE  (dir' = dir /\ past' = past) \/ Written(t)
BY DEF Write, Written

(* The entries with each number, and the numbers of the pool in use, after  *)
(* an entry is written.                                                      *)
LEMMA WrittenDir ==
  ASSUME PosixAssumption, TInv, NEW t \in Threads, Written(t)
  PROVE  /\ dir' \in Dirs
         /\ \A s \in Servers : Used(s)' \subseteq Used(s) \union (IF s = form[t].at THEN {report[t]} ELSE {})
         /\ dir'.pool = dir.pool /\ dir'.min = dir.min
         /\ dir'.given = [dir.given EXCEPT ![form[t].at] =
                            IF report[t] > maxNewValue THEN @ \union {report[t]} ELSE @]
<1> DEFINE s == form[t].at
           id == report[t]
           old == IF form[t].from = "edit" /\ form[t].own \in Used(s) THEN form[t].own ELSE 0
           row == [n \in Ids |-> dir.holders[s][n] + (IF n = id THEN 1 ELSE 0) - (IF n = old THEN 1 ELSE 0)]
           h == [dir.holders EXCEPT ![s] = row]
           g == [dir.given EXCEPT ![s] = IF id > maxNewValue THEN @ \union {id} ELSE @]
<1>1. dir \in Dirs /\ s \in Servers /\ id \in Nat
  BY ThreadTypes
<1>2. dir.holders \in [Servers -> [Ids -> Nat]] /\ dir.given \in [Servers -> SUBSET Nat]
  BY <1>1 DEF Dirs
<1>3. row \in [Ids -> Nat]
  <2>1. \A n \in Ids : dir.holders[s][n] \in Nat /\ (n = old => dir.holders[s][n] > 0)
    <3>1. 0 \notin Ids
      BY DEF Ids
    <3>2. QED BY <1>1, <1>2, <3>1 DEF Used
  <2>2. \A n \in Ids : dir.holders[s][n] + (IF n = id THEN 1 ELSE 0) - (IF n = old THEN 1 ELSE 0) \in Nat
    <3> HIDE DEF old
    <3>1. QED BY <2>1
  <2>3. QED BY <2>2
<1>4. \A n \in Ids : row[n] > 0 => dir.holders[s][n] > 0 \/ n = id
  <2>1. \A n \in Ids : dir.holders[s][n] \in Nat
    BY <1>1, <1>2
  <2> HIDE DEF old
  <2>2. QED BY <2>1
<1>5. dir' = [dir EXCEPT !.holders = h, !.given = g]
  BY DEF Written, WithId
<1> HIDE DEF row
<1>6. h \in [Servers -> [Ids -> Nat]] /\ g \in [Servers -> SUBSET Nat]
  BY <1>1, <1>2, <1>3
<1>7. h[s] = row /\ \A u \in Servers \ {s} : h[u] = dir.holders[u]
  BY <1>1, <1>2
<1> HIDE DEF h, g
<1>8. dir' \in Dirs /\ dir'.holders = h /\ dir'.given = g /\ dir'.pool = dir.pool /\ dir'.min = dir.min
  BY <1>1, <1>5, <1>6 DEF Dirs
<1>9. \A u \in Servers : Used(u)' \subseteq Used(u) \union (IF u = s THEN {id} ELSE {})
  <2> SUFFICES ASSUME NEW u \in Servers, NEW n \in Ids, h[u][n] > 0
               PROVE  dir.holders[u][n] > 0 \/ (u = s /\ n = id)
    BY <1>8 DEF Used
  <2>1. QED BY <1>4, <1>7
<1>10. QED BY <1>8, <1>9 DEF g

(* The history after an entry is written. *)
LEMMA WrittenPast ==
  ASSUME TInv, NEW t \in Threads, Written(t)
  PROVE  /\ past' \in Pasts
         /\ past'.used = past.used \union ({report[t]} \intersect Ids)
         /\ past'.moved = past.moved \union (Searching \ {t})
         /\ past'.menu = past.menu /\ past'.cloned = past.cloned
         /\ past'.twice = (past.twice \/ report[t] \in dir.given[form[t].at]
                            \/ (form[t].from # "edit" /\ form[t].at \in Pooled /\ report[t] \in Used(form[t].at)))
<1> DEFINE w == past.twice \/ report[t] \in dir.given[form[t].at]
                  \/ (form[t].from # "edit" /\ form[t].at \in Pooled /\ report[t] \in Used(form[t].at))
           m == past.moved \union (Searching \ {t})
           v == past.used \union ({report[t]} \intersect Ids)
<1>1. past \in Pasts
  BY ThreadTypes
<1>2. w \in BOOLEAN
  BY <1>1 DEF Pasts
<1>3. m \in SUBSET Threads /\ v \in SUBSET Ids
  BY <1>1 DEF Pasts, Searching
<1>4. past' = [past EXCEPT !.used = v, !.moved = m, !.twice = w]
  BY Zenon DEF Written
<1> HIDE DEF w, m, v
<1>5. past' \in Pasts /\ past'.used = v /\ past'.moved = m /\ past'.twice = w
      /\ past'.menu = past.menu /\ past'.cloned = past.cloned
  BY <1>1, <1>2, <1>3, <1>4 DEF Pasts
<1>6. QED BY <1>5, Zenon DEF w, m, v

(* The thread that wrote its entry is idle. *)
LEMMA WriteType ==
  ASSUME PosixAssumption, TInv, NEW t \in Threads, Write(t)
  PROVE  Typed' /\ PhaseOK(t)'
<1>1. dir \in Dirs /\ past \in Pasts
  BY ThreadTypes
<1>2. dir' \in Dirs
  BY <1>1, WriteCases, WrittenDir
<1>3. past' \in Pasts
  BY <1>1, WriteCases, WrittenPast
<1>4. Idle \in Requests /\ NoWork \in Works /\ Idle.own = 0 /\ Idle.from = "new"
  BY DEF Idle, Requests, NoWork, Works, PosixAssumption
<1>5. /\ pc' \in [Threads -> Labels] /\ form' \in [Threads -> Requests]
      /\ work' \in [Threads -> Works] /\ report' \in [Threads -> Nat]
      /\ pc'[t] = "idle" /\ report'[t] = 0
  BY <1>4, TypedIs DEF TInv, Write, Goto, Labels
<1>6. PhaseOK(t)'
  BY <1>5 DEF PhaseOK
<1>7. QED BY <1>2, <1>3, <1>5, <1>6, TypedNext

(* Every step keeps the types. *)
LEMMA TypeStep ==
  ASSUME PosixAssumption, TInv, [Next]_vars
  PROVE  TInv'
<1>1. ASSUME NEW s \in Servers, NEW id \in Ids, OtherAdds(s, id) \/ OtherDeletes(s, id)
      PROVE  TInv'
  BY <1>1, OthersType
<1>2. ASSUME NEW t \in Threads, Thread(t)
      PROVE  TInv'
  <2>1. Typed' /\ PhaseOK(t)'
    BY <1>2, RequestType, SearchType, StepType, IncrementType, WriteType DEF Thread
  <2>2. \A u \in Threads \ {t} : PhaseOK(u)'
    BY <1>2, OthersKeep DEF TInv, PhaseOK
  <2>3. QED BY <2>1, <2>2 DEF TInv
<1>3. CASE UNCHANGED vars
  BY <1>3 DEF vars, TInv, Typed, TypeOK, PhaseOK
<1>4. QED BY <1>1, <1>2, <1>3 DEF Next

(* The types, and what each place in the code knows of the number. *)
LEMMA Types ==
  ASSUME PosixAssumption
  PROVE  Spec => []TInv
BY TypeInit, TypeStep, PTL DEF Spec

-----------------------------------------------------------------------------
(* No number is passed over.  minNewValue is set to a number that a loop has *)
(* come to; a loop begins at minNewValue, and goes on after numbers that     *)
(* were in use when it searched.                                              *)

Below(n) == 1..(n - 1)

PassedUsed(t) ==
  /\ pc[t] \in {"found", "loop"} => work[t].found \subseteq past.used
  /\ pc[t] = "loop" => Below(work[t].i) \subseteq past.used

MinInv ==
  /\ \A s \in Servers : Used(s) \subseteq past.used
  /\ \A t \in Threads : PassedUsed(t)
  /\ MinPassesUsed

(* The history of the numbers only grows. *)
LEMMA UsedGrows ==
  ASSUME TInv, [Next]_vars
  PROVE  past.used \subseteq past'.used
<1> USE TypedIs DEF TInv, Pasts
<1>1. past \in Pasts
  OBVIOUS
<1>2. ASSUME NEW s \in Servers, NEW id \in Ids, OtherAdds(s, id) \/ OtherDeletes(s, id)
      PROVE  past.used \subseteq past'.used
  BY <1>1, <1>2 DEF OtherAdds, OtherDeletes
<1>3. ASSUME NEW t \in Threads, NEW r \in past.menu, Request(t, r)
      PROVE  past.used \subseteq past'.used
  BY <1>1, <1>3 DEF Request
<1>4. ASSUME NEW t \in Threads, Search(t) \/ Loop(t) \/ Reread(t) \/ Increment(t)
      PROVE  past.used \subseteq past'.used
  BY <1>4 DEF Search, Loop, Reread, Increment
<1>5. ASSUME NEW t \in Threads, Step(t)
      PROVE  past.used \subseteq past'.used
  BY <1>1, <1>5 DEF Step
<1>6. ASSUME NEW t \in Threads, Write(t)
      PROVE  past.used \subseteq past'.used
  BY <1>6, WriteCases, WrittenPast
<1>7. CASE UNCHANGED vars
  BY <1>7 DEF vars
<1>8. QED BY <1>2, <1>3, <1>4, <1>5, <1>6, <1>7 DEF Next, Thread

(* The entries with each number, after another client changed one. *)
LEMMA OthersHolders ==
  ASSUME dir \in Dirs, NEW s \in Servers, NEW id \in Ids, OtherAdds(s, id) \/ OtherDeletes(s, id)
  PROVE  \E n \in {0, 1} :
           /\ \A u \in Servers, k \in Ids :
                dir'.holders[u][k] = IF u = s /\ k = id THEN n ELSE dir.holders[u][k]
           /\ dir'.pool = dir.pool /\ dir'.given = dir.given /\ dir'.min = dir.min
           /\ OtherDeletes(s, id) => n = 0
<1>1. ASSUME NEW n \in {0, 1},
             dir' = [dir EXCEPT !.holders = [dir.holders EXCEPT ![s][id] = n], !.changes = dir.changes + 1]
      PROVE  /\ \A u \in Servers, k \in Ids :
                  dir'.holders[u][k] = IF u = s /\ k = id THEN n ELSE dir.holders[u][k]
             /\ dir'.pool = dir.pool /\ dir'.given = dir.given /\ dir'.min = dir.min
  <2> DEFINE h == [dir.holders EXCEPT ![s][id] = n]
             c == dir.changes + 1
  <2>1. dir' = [dir EXCEPT !.holders = h, !.changes = c]
    BY <1>1
  <2>2. dir.holders \in [Servers -> [Ids -> Nat]]
    BY DEF Dirs
  <2>3. \A u \in Servers, k \in Ids : h[u][k] = IF u = s /\ k = id THEN n ELSE dir.holders[u][k]
    BY <2>2
  <2> HIDE DEF h, c
  <2>4. dir'.holders = h /\ dir'.pool = dir.pool /\ dir'.given = dir.given /\ dir'.min = dir.min
    BY <2>1 DEF Dirs
  <2>5. QED BY <2>3, <2>4
<1>2. CASE OtherDeletes(s, id)
  <2>1. dir' = [dir EXCEPT !.holders = [dir.holders EXCEPT ![s][id] = 0], !.changes = dir.changes + 1]
    BY <1>2, Zenon DEF OtherDeletes
  <2>2. QED BY <1>1, <2>1
<1>3. CASE OtherAdds(s, id) /\ ~OtherDeletes(s, id)
  <2>1. dir' = [dir EXCEPT !.holders = [dir.holders EXCEPT ![s][id] = 1], !.changes = dir.changes + 1]
    BY <1>3, Zenon DEF OtherAdds
  <2>2. QED BY <1>1, <1>3, <2>1
<1>4. QED BY <1>2, <1>3

(* Whoever adds an entry adds its number to the history. *)
LEMMA UsedStep ==
  ASSUME PosixAssumption, TInv, MinInv, [Next]_vars
  PROVE  \A s \in Servers : Used(s)' \subseteq past'.used
<1>1. dir \in Dirs /\ past \in Pasts /\ past.used \subseteq past'.used
  BY UsedGrows, TypedIs DEF TInv
<1>2. dir' = dir => \A s \in Servers : Used(s)' \subseteq past'.used
  BY <1>1 DEF MinInv, Used
<1>3. ASSUME NEW s \in Servers, NEW id \in Ids, OtherAdds(s, id) \/ OtherDeletes(s, id)
      PROVE  \A u \in Servers : Used(u)' \subseteq past'.used
  <2>1. OtherAdds(s, id) => id \in past'.used
    BY <1>1 DEF OtherAdds, Pasts
  <2>2. \A u \in Servers, k \in Ids : dir'.holders[u][k] > 0 => k \in past'.used \/ dir.holders[u][k] > 0
    BY <1>1, <1>3, <2>1, OthersHolders
  <2>3. QED BY <1>1, <2>2 DEF MinInv, Used
<1>4. ASSUME NEW t \in Threads, NEW r \in past.menu, Request(t, r)
      PROVE  \A u \in Servers : Used(u)' \subseteq past'.used
  <2>1. dir'.holders = dir.holders
    BY <1>1, <1>4 DEF Request, Dirs
  <2>2. QED BY <1>1, <2>1 DEF MinInv, Used
<1>5. ASSUME NEW t \in Threads, Search(t) \/ Loop(t) \/ Reread(t)
      PROVE  \A u \in Servers : Used(u)' \subseteq past'.used
  BY <1>2, <1>5 DEF Search, Loop, Reread
<1>6. ASSUME NEW t \in Threads, Step(t) \/ Increment(t)
      PROVE  \A u \in Servers : Used(u)' \subseteq past'.used
  <2>1. dir'.holders = dir.holders
    BY <1>1, <1>6 DEF Step, Increment, Dirs
  <2>2. QED BY <1>1, <2>1 DEF MinInv, Used
<1>7. ASSUME NEW t \in Threads, Write(t)
      PROVE  \A u \in Servers : Used(u)' \subseteq past'.used
  <2>1. CASE Written(t)
    <3>1. {report[t]} \intersect Ids \subseteq past'.used
      BY <1>1, <2>1 DEF Written, Pasts
    <3>2. \A u \in Servers : Used(u)' \subseteq Used(u) \union {report[t]}
      BY <2>1, WrittenDir
    <3>3. \A u \in Servers : Used(u)' \subseteq Ids
      BY DEF Used
    <3>4. QED BY <1>1, <3>1, <3>2, <3>3 DEF MinInv
  <2>2. QED BY <1>2, <1>7, <2>1, WriteCases
<1>8. CASE UNCHANGED vars
  BY <1>2, <1>8 DEF vars
<1>9. QED BY <1>3, <1>4, <1>5, <1>6, <1>7, <1>8 DEF Next, Thread

(* What a thread has passed was in use, action by action. *)
LEMMA PassedStep ==
  ASSUME PosixAssumption, TInv, MinInv, [Next]_vars
  PROVE  MinPassesUsed' /\ \A t \in Threads : PassedUsed(t)'
<1>1. dir \in Dirs /\ past \in Pasts /\ past.used \subseteq past'.used
  BY UsedGrows, TypedIs DEF TInv
<1>2. Below(dir.min) \subseteq past.used
  BY DEF MinInv, MinPassesUsed, Below
<1>3. ASSUME NEW t \in Threads, pc'[t] = pc[t], work'[t] = work[t]
      PROVE  PassedUsed(t)'
  BY <1>1, <1>3 DEF MinInv, PassedUsed, Below
<1>4. dir'.min = dir.min => MinPassesUsed'
  BY <1>1 DEF MinInv, MinPassesUsed
<1>5. ASSUME NEW s \in Servers, NEW id \in Ids, OtherAdds(s, id) \/ OtherDeletes(s, id)
      PROVE  MinPassesUsed' /\ \A t \in Threads : PassedUsed(t)'
  <2>1. dir'.min = dir.min
    BY <1>1, <1>5 DEF OtherAdds, OtherDeletes, Dirs
  <2>2. QED BY <1>3, <1>4, <1>5, <2>1 DEF OtherAdds, OtherDeletes
<1>6. ASSUME NEW t \in Threads, Thread(t)
      PROVE  MinPassesUsed' /\ \A u \in Threads : PassedUsed(u)'
  <2>1. \A u \in Threads \ {t} : PassedUsed(u)'
    BY <1>3, <1>6, OthersKeep
  <2>2. ASSUME NEW r \in past.menu, Request(t, r) PROVE MinPassesUsed' /\ PassedUsed(t)'
    <3>1. dir'.min = dir.min
      BY <1>1, <2>2 DEF Request, Dirs
    <3>2. pc'[t] \notin {"found", "loop"}
      BY <2>2, TypedIs DEF TInv, Request, Goto
    <3>3. QED BY <1>4, <3>1, <3>2 DEF PassedUsed
  <2>3. CASE Search(t)
    <3>1. dir' = dir /\ past' = past
      BY <2>3 DEF Search
    <3>2. pc'[t] = "filled" \/ (pc'[t] = "found" /\ work'[t].found \subseteq Used(form[t].at))
      BY <2>3, TypedIs DEF TInv, Search, Goto, Works
    <3>3. form[t].at \in Servers
      BY ThreadTypes
    <3>4. QED BY <1>4, <2>1, <3>1, <3>2, <3>3 DEF PassedUsed, MinInv
  <2>4. CASE Loop(t)
    <3>1. dir' = dir /\ past' = past /\ pc[t] = "found"
      BY <2>4 DEF Loop
    <3>2. work'[t].found = work[t].found /\ work'[t].i = dir.min
      BY <2>4, TypedIs DEF TInv, Loop, LoopStart, Works
    <3>3. QED BY <1>2, <1>4, <2>1, <3>1, <3>2 DEF PassedUsed, MinInv, Below
  <2>5. CASE Step(t)
    <3>1. pc[t] = "loop" /\ work[t].i \in Nat /\ work[t].i >= 1 /\ work[t] \in Works
      BY <2>5, ThreadTypes DEF Step, PhaseOK, Ids, PosixAssumption
    <3>2. Below(work[t].i) \subseteq past.used /\ work[t].found \subseteq past.used
      BY <3>1 DEF MinInv, PassedUsed
    <3>3. dir'.min = dir.min \/ dir'.min = work[t].i
      BY <1>1, <2>5 DEF Step, Raised, Dirs
    <3>4. MinPassesUsed'
      BY <1>1, <1>4, <3>2, <3>3 DEF MinPassesUsed, Below
    <3>5. \/ pc'[t] = "filled"
          \/ /\ work[t].i \in work[t].found
             /\ work'[t].found = work[t].found /\ work'[t].i = work[t].i + 1
      BY <2>5, <3>1, TypedIs DEF TInv, Step, Goto, Works
    <3>6. work[t].i \in past.used => Below(work[t].i + 1) \subseteq past.used
      BY <3>1, <3>2 DEF Below
    <3>7. PassedUsed(t)'
      BY <1>1, <3>2, <3>5, <3>6 DEF PassedUsed, Below
    <3>8. QED BY <2>1, <3>4, <3>7
  <2>6. CASE Reread(t) \/ Increment(t) \/ Write(t)
    <3>1. dir'.min = dir.min
      BY <1>1, <2>6, WriteCases, WrittenDir DEF Reread, Increment, Dirs
    <3>2. pc'[t] \notin {"found", "loop"}
      BY <2>6, TypedIs DEF TInv, Reread, Increment, Write, Goto
    <3>3. QED BY <1>4, <2>1, <3>1, <3>2 DEF PassedUsed
  <2>7. QED BY <1>6, <2>1, <2>2, <2>3, <2>4, <2>5, <2>6 DEF Thread
<1>7. CASE UNCHANGED vars
  BY <1>3, <1>4, <1>7 DEF vars
<1>8. QED BY <1>5, <1>6, <1>7 DEF Next

(* A number below minNewValue, which no search will find again, has been in *)
(* use, whatever loops other threads are in, on this or another server.       *)
THEOREM NoNumberPassedOver ==
  ASSUME PosixAssumption
  PROVE  Spec => []MinPassesUsed
<1>1. Init => MinInv
  <2> SUFFICES ASSUME Init PROVE MinInv
    OBVIOUS
  <2>1. PICK start \in Starts :
          /\ dir = [holders |-> [s \in Servers |-> [id \in Ids |-> IF id \in start.used[s] THEN 1 ELSE 0]],
                    pool |-> [s \in Servers |-> maxNewValue + 1], given |-> [s \in Servers |-> {}],
                    min |-> 1, changes |-> 0, requests |-> 0]
          /\ past = [used |-> UNION {start.used[s] : s \in Servers}, menu |-> start.menu,
                     moved |-> {}, cloned |-> FALSE, twice |-> FALSE]
    BY DEF Init
  <2>2. \A s \in Servers : Used(s) \subseteq past.used
    BY <2>1 DEF Used
  <2>3. MinPassesUsed
    BY <2>1 DEF MinPassesUsed
  <2>4. QED BY <2>2, <2>3 DEF Init, MinInv, PassedUsed
<1>2. TInv /\ MinInv /\ [Next]_vars => MinInv'
  BY UsedStep, PassedStep DEF MinInv
<1>3. MinInv => MinPassesUsed
  BY DEF MinInv
<1>4. QED BY Types, <1>1, <1>2, <1>3, PTL DEF Spec

-----------------------------------------------------------------------------
(* What is suggested is free.  A thread that is not in past.moved has searched *)
(* the numbers as they are, or more of them: what it has not found is free.    *)

Fresh(t) ==
  (t \notin past.moved /\ form[t].own = 0 /\ form[t].at \notin Pooled) =>
    /\ pc[t] \in {"found", "loop"} => \A id \in Used(form[t].at) : id >= dir.min => id \in work[t].found
    /\ pc[t] = "loop" => work[t].i >= dir.min
    /\ (pc[t] = "filled" /\ report[t] \in Ids)
         => report[t] \notin Used(form[t].at) \/ (dir.min = maxNewValue /\ report[t] = maxNewValue)

(* What others do that is not recorded in past.moved leaves what a thread  *)
(* has found valid.                                                           *)
LEMMA FoundValid ==
  ASSUME PosixAssumption, TInv, NEW u \in Threads, u \in Searching, u \notin past'.moved,
         \/ \E s \in Servers, id \in Ids : OtherAdds(s, id) \/ OtherDeletes(s, id)
         \/ \E t \in Threads \ {u} : Thread(t)
  PROVE  /\ u \notin past.moved /\ dir'.min = dir.min
         /\ \A s \in Servers : Used(s)' \subseteq Used(s)
<1>1. dir \in Dirs /\ past \in Pasts
  BY ThreadTypes
<1>2. ASSUME NEW s \in Servers, NEW id \in Ids, OtherAdds(s, id)
      PROVE  FALSE
  BY <1>1, <1>2 DEF OtherAdds, Pasts
<1>3. ASSUME NEW s \in Servers, NEW id \in Ids, OtherDeletes(s, id)
      PROVE  /\ u \notin past.moved /\ dir'.min = dir.min
             /\ \A k \in Servers : Used(k)' \subseteq Used(k)
  <2>1. \E n \in {0, 1} :
           /\ \A k \in Servers, i \in Ids :
                dir'.holders[k][i] = IF k = s /\ i = id THEN n ELSE dir.holders[k][i]
           /\ dir'.min = dir.min
           /\ n = 0
    BY <1>1, <1>3, OthersHolders
  <2>2. past' = past
    BY <1>3 DEF OtherDeletes
  <2>3. QED BY <2>1, <2>2 DEF Used
<1>4. ASSUME NEW t \in Threads \ {u}, Thread(t)
      PROVE  /\ u \notin past.moved /\ dir'.min = dir.min
             /\ \A k \in Servers : Used(k)' \subseteq Used(k)
  <2> DEFINE Valid == /\ u \notin past.moved /\ dir'.min = dir.min
                      /\ \A k \in Servers : Used(k)' \subseteq Used(k)
  <2>1. ASSUME dir'.holders = dir.holders, dir'.min = dir.min, u \notin past.moved PROVE Valid
    BY <2>1 DEF Used
  <2>2. ASSUME NEW r \in past.menu, Request(t, r) PROVE Valid
    <3>1. dir'.holders = dir.holders /\ dir'.min = dir.min
      BY <1>1, <2>2 DEF Request, Dirs
    <3>2. past'.moved = past.moved \ {t}
      BY <1>1, <2>2 DEF Request, Pasts
    <3>3. QED BY <2>1, <3>1, <3>2
  <2>3. CASE Search(t) \/ Loop(t) \/ Reread(t)
    BY <2>1, <2>3 DEF Search, Loop, Reread
  <2>4. CASE Step(t)
    <3>1. dir'.holders = dir.holders
      BY <1>1, <2>4 DEF Step, Dirs
    <3>2. u \notin past.moved /\ (dir'.min # dir.min => FALSE)
      BY <1>1, <2>4 DEF Step, Dirs, Pasts
    <3>3. QED BY <2>1, <3>1, <3>2
  <2>5. CASE Increment(t)
    <3>1. dir'.holders = dir.holders /\ dir'.min = dir.min /\ past' = past
      BY <1>1, <2>5 DEF Increment, Dirs
    <3>2. QED BY <2>1, <3>1
  <2>6. CASE Write(t)
    <3>1. ~Written(t)
      BY WrittenPast
    <3>2. dir' = dir /\ past' = past
      BY <2>6, <3>1, WriteCases
    <3>3. QED BY <2>1, <3>2
  <2>7. QED BY <1>4, <2>2, <2>3, <2>4, <2>5, <2>6 DEF Thread
<1>5. QED BY <1>2, <1>3, <1>4

(* The thread that makes a step knows what it has found. *)
LEMMA FreshStep ==
  ASSUME PosixAssumption, TInv, NEW t \in Threads, Fresh(t), Thread(t)
  PROVE  Fresh(t)'
<1>1. dir \in Dirs /\ past \in Pasts /\ work[t] \in Works /\ PhaseOK(t) /\ form[t].at \in Servers
  BY ThreadTypes
<1>2. ASSUME NEW r \in past.menu, Request(t, r) PROVE Fresh(t)'
  <2>1. form'[t] = r
        /\ pc'[t] = (IF r.at \in Pooled THEN "reread" ELSE IF r.own # 0 /\ r.typed THEN "filled" ELSE "search")
    BY <1>2, TypedIs DEF TInv, Request, Goto
  <2>2. QED BY <2>1 DEF Fresh
<1>3. CASE Search(t)
  <2>1. dir' = dir /\ past' = past /\ form' = form /\ pc[t] = "search"
    BY <1>3 DEF Search
  <2>2. form[t].own = 0 => report[t] = 0
    BY <1>1, <2>1 DEF PhaseOK
  <2>3. 0 \notin Ids
    BY DEF Ids
  <2>4. \/ pc'[t] = "filled" /\ (report'[t] = report[t] \/ form[t].from = "edit")
        \/ pc'[t] = "found" /\ work'[t].found = {id \in Used(form[t].at) : id >= dir.min}
    BY <1>3, TypedIs DEF TInv, Search, Goto, Works
  <2>5. form[t].own = 0 => form[t].from # "edit"
    BY <1>1, <2>1 DEF PhaseOK
  <2>6. QED BY <2>1, <2>2, <2>3, <2>4, <2>5 DEF Fresh, Used
<1>4. CASE Loop(t)
  <2>1. dir' = dir /\ past' = past /\ form' = form /\ pc[t] = "found" /\ pc'[t] = "loop"
        /\ work'[t].found = work[t].found /\ work'[t].i = dir.min
    BY <1>4, TypedIs DEF TInv, Loop, LoopStart, Goto, Works
  <2>2. dir.min \in Nat
    BY <1>1 DEF Dirs, Ids
  <2>3. QED BY <2>1, <2>2 DEF Fresh, Used
<1>5. CASE Step(t)
  <2>1. pc[t] = "loop" /\ form' = form /\ work[t].i \in Ids /\ work[t].i \in Nat /\ dir.min \in Nat
        /\ maxNewValue \in Nat
    BY <1>1, <1>5 DEF Step, PhaseOK, Ids, Dirs, PosixAssumption
  <2>2. /\ dir'.holders = dir.holders
        /\ dir'.min = IF work[t].i \in work[t].found THEN work[t].i ELSE dir.min
    BY <1>1, <1>5 DEF Step, Raised, Dirs
  <2>3. t \notin past'.moved => t \notin past.moved
    BY <1>1, <1>5 DEF Step, Pasts
  <2>4. \/ /\ pc'[t] = "filled" /\ report'[t] = work[t].i
           /\ work[t].i \notin work[t].found \/ work[t].i = maxNewValue
        \/ /\ pc'[t] = "loop" /\ work[t].i \in work[t].found
           /\ work'[t].found = work[t].found /\ work'[t].i = work[t].i + 1
    BY <1>1, <1>5, <2>1, TypedIs DEF TInv, Step, Goto, Works
  <2>5. \A s : Used(s)' = Used(s)
    BY <2>2 DEF Used
  <2>6. \A id \in Ids : id \in Nat
    BY DEF Ids
  <2>7. ASSUME t \notin past'.moved, form[t].own = 0, form[t].at \notin Pooled
        PROVE  /\ pc'[t] = "loop" => \A id \in Used(form[t].at) : id >= dir'.min => id \in work'[t].found
               /\ pc'[t] = "loop" => work'[t].i >= dir'.min
               /\ (pc'[t] = "filled" /\ report'[t] \in Ids)
                    => report'[t] \notin Used(form[t].at) \/ (dir'.min = maxNewValue /\ report'[t] = maxNewValue)
    <3>1. /\ \A id \in Used(form[t].at) : id >= dir.min => id \in work[t].found
          /\ work[t].i >= dir.min
      BY <2>1, <2>3, <2>7 DEF Fresh
    <3>2. Used(form[t].at) \subseteq Nat
      BY <2>6 DEF Used
    <3>3. QED BY <2>1, <2>2, <2>4, <3>1, <3>2
  <2>8. QED BY <2>1, <2>4, <2>5, <2>7 DEF Fresh
<1>6. CASE Reread(t) \/ Increment(t)
  <2>1. form' = form /\ pc[t] \in {"reread", "increment"}
    BY <1>6 DEF Reread, Increment
  <2>2. QED BY <1>1, <2>1 DEF Fresh, PhaseOK
<1>7. CASE Write(t)
  <2>1. pc'[t] = "idle"
    BY <1>7, TypedIs DEF TInv, Write, Goto
  <2>2. QED BY <2>1 DEF Fresh
<1>8. QED BY <1>2, <1>3, <1>4, <1>5, <1>6, <1>7 DEF Thread

(* A suggested number is free, though minNewValue is shared, unless others  *)
(* changed entries or minNewValue after the search, or all numbers from        *)
(* minNewValue on are in use.                                                  *)
THEOREM SuggestionFree ==
  ASSUME PosixAssumption
  PROVE  Spec => []SuggestedIsFree
<1> DEFINE FInv == \A t \in Threads : Fresh(t)
<1>1. Init => FInv
  BY DEF Init, Fresh
<1>2. TInv /\ FInv /\ [Next]_vars => FInv'
  <2> SUFFICES ASSUME TInv, FInv, [Next]_vars, NEW u \in Threads PROVE Fresh(u)'
    OBVIOUS
  <2>1. CASE Thread(u)
    BY <2>1, FreshStep
  <2>2. CASE UNCHANGED vars
    BY <2>2 DEF vars, Fresh, Used
  <2>3. CASE \/ \E s \in Servers, id \in Ids : OtherAdds(s, id) \/ OtherDeletes(s, id)
             \/ \E t \in Threads \ {u} : Thread(t)
    <3>1. pc'[u] = pc[u] /\ form'[u] = form[u] /\ work'[u] = work[u] /\ report'[u] = report[u]
      BY <2>3, OthersKeep DEF OtherAdds, OtherDeletes
    <3>2. form[u].at \in Servers
      BY ThreadTypes
    <3>3. CASE u \in Searching /\ u \notin past'.moved
      <4>1. /\ u \notin past.moved /\ dir'.min = dir.min
            /\ \A s \in Servers : Used(s)' \subseteq Used(s)
        BY <2>3, <3>3, FoundValid
      <4>2. Used(form[u].at)' \subseteq Used(form[u].at)
        BY <3>1, <3>2, <4>1 DEF Used
      <4>3. QED BY <3>1, <4>1, <4>2 DEF Fresh
    <3>4. CASE u \notin Searching
      BY <3>1, <3>4 DEF Fresh, Searching
    <3>5. QED BY <3>3, <3>4 DEF Fresh
  <2>4. QED BY <2>1, <2>2, <2>3 DEF Next
<1>3. TInv /\ FInv => SuggestedIsFree
  <2> SUFFICES ASSUME TInv, FInv, NEW t \in Threads, pc[t] = "filled", form[t].at \notin Pooled,
                      form[t].own = 0, report[t] \in Ids, t \notin past.moved,
                      report[t] \in Used(form[t].at)
               PROVE  dir.min..maxNewValue \subseteq Used(form[t].at)
    BY DEF SuggestedIsFree
  <2>1. dir.min = maxNewValue /\ report[t] = maxNewValue
    BY DEF Fresh
  <2>2. dir.min..maxNewValue = {report[t]}
    BY <2>1 DEF PosixAssumption
  <2>3. QED BY <2>2
<1>4. QED BY Types, <1>1, <1>2, <1>3, PTL DEF Spec

-----------------------------------------------------------------------------
(* Numbers of a pool.  They are above maxNewValue and below the number of    *)
(* the pool entry, and are drawn for one form only; the other numbers in a    *)
(* form are those of an entry that is modified, or cloned.                     *)

Own(t) == report[t] \in Ids /\ (form[t].from = "edit" \/ past.cloned)

Drawn(t) ==
  /\ report[t] > maxNewValue /\ report[t] < dir.pool[form[t].at]
  /\ report[t] \notin dir.given[form[t].at]
  /\ \A u \in Threads \ {t} :
       (pc[u] = "filled" /\ form[u].at = form[t].at) => report[u] # report[t]

PoolOK(t) ==
  (form[t].at \in Pooled /\ report[t] # 0) =>
    /\ pc[t] = "reread" => Own(t)
    /\ pc[t] = "filled" => Own(t) \/ Drawn(t)

PoolInv ==
  /\ \A s \in Servers : /\ dir.pool[s] > maxNewValue
                        /\ \A n \in dir.given[s] : n > maxNewValue /\ n < dir.pool[s]
  /\ \A t \in Threads : PoolOK(t)
  /\ PoolIdsUnique

(* Steps that neither draw a number nor write an entry. *)
LEMMA PoolSame ==
  ASSUME PosixAssumption, TInv, PoolInv, NEW t \in Threads,
         /\ dir'.pool = dir.pool /\ dir'.given = dir.given
         /\ past.cloned => past'.cloned
         /\ past'.twice = past.twice
         /\ \A u \in Threads \ {t} : /\ pc'[u] = pc[u] /\ form'[u] = form[u] /\ report'[u] = report[u]
         /\ form'[t].at \in Pooled /\ report'[t] # 0 /\ pc'[t] \in {"reread", "filled"} => Own(t)'
  PROVE  PoolInv'
<1>0. past.cloned => past'.cloned
  OBVIOUS
<1>1. ASSUME NEW u \in Threads \ {t} PROVE PoolOK(u)'
  <2>1. pc'[u] = pc[u] /\ form'[u] = form[u] /\ report'[u] = report[u] /\ PoolOK(u)
    BY DEF PoolInv
  <2>2. Own(u) => Own(u)'
    BY <1>0, <2>1 DEF Own
  <2>3. ASSUME Drawn(u), form[u].at \in Pooled, pc[u] = "filled" PROVE Drawn(u)'
    <3>1. report'[t] = report[u] /\ pc'[t] = "filled" /\ form'[t].at = form[u].at => FALSE
      <4>1. report[u] \notin Ids
        BY <2>3, ThreadTypes DEF Drawn, Ids, PosixAssumption
      <4>2. report[u] # 0
        BY <2>3 DEF Drawn, PosixAssumption
      <4>3. QED BY <2>3, <4>1, <4>2 DEF Own
    <3>2. QED BY <2>1, <2>3, <3>1 DEF Drawn
  <2>4. QED BY <2>1, <2>2, <2>3 DEF PoolOK
<1>2. PoolOK(t)'
  BY DEF PoolOK
<1>3. PoolIdsUnique'
  BY <1>0 DEF PoolInv, PoolIdsUnique
<1>4. QED BY <1>1, <1>2, <1>3 DEF PoolInv

(* A number that is drawn has not been drawn before. *)
LEMMA PoolDrawn ==
  ASSUME PosixAssumption, TInv, PoolInv, NEW t \in Threads, Increment(t)
  PROVE  PoolInv'
<1>1. dir \in Dirs /\ form[t].at \in Servers /\ form[t].at \in Pooled
  BY ThreadTypes DEF Increment, PhaseOK
<1>2. UNCHANGED <<form, past>> /\ pc'[t] = "filled" /\ pc[t] = "increment"
  BY TypedIs DEF TInv, Increment, Goto
<1>3. PICK n \in Nat : /\ n >= dir.pool[form[t].at] /\ report'[t] = n
                       /\ dir' = [dir EXCEPT !.pool[form[t].at] = n + 1]
  BY PoolTaken
<1>4. /\ dir.pool \in [Servers -> Nat] /\ dir.given \in [Servers -> SUBSET Nat] /\ maxNewValue \in Nat
  BY <1>1 DEF Dirs, PosixAssumption
<1>5. dir'.given = dir.given /\ dir'.pool = [dir.pool EXCEPT ![form[t].at] = n + 1]
  <2> DEFINE p == [dir.pool EXCEPT ![form[t].at] = n + 1]
  <2>1. dir' = [dir EXCEPT !.pool = p]
    BY <1>3
  <2> HIDE DEF p
  <2>2. dir'.given = dir.given /\ dir'.pool = p
    BY <1>1, <2>1 DEF Dirs
  <2>3. QED BY <2>2 DEF p
<1>6. \A s \in Servers : dir'.pool[s] >= dir.pool[s]
  BY <1>3, <1>4, <1>5
<1>7. \A s \in Servers : /\ dir'.pool[s] > maxNewValue
                         /\ \A k \in dir'.given[s] : k > maxNewValue /\ k < dir'.pool[s]
  BY <1>4, <1>5, <1>6 DEF PoolInv
<1>8. ASSUME NEW u \in Threads \ {t} PROVE PoolOK(u)'
  <2>1. pc'[u] = pc[u] /\ form'[u] = form[u] /\ report'[u] = report[u] /\ PoolOK(u)
    BY OthersKeep DEF PoolInv, Thread
  <2>2. form[u].at \in Servers /\ report[u] \in Nat
    BY ThreadTypes
  <2>3. Own(u) => Own(u)'
    BY <1>2, <2>1 DEF Own
  <2>4. Drawn(u) => Drawn(u)'
    <3> SUFFICES ASSUME Drawn(u) PROVE Drawn(u)'
      OBVIOUS
    <3>1. report[u] < dir.pool[form[u].at]
      BY DEF Drawn
    <3>2. report[u] < dir'.pool[form[u].at]
      BY <1>4, <1>5, <1>6, <2>2, <3>1
    <3>3. form[u].at = form[t].at => report'[t] # report[u]
      BY <1>3, <1>4, <2>2, <3>1
    <3>4. \A w \in Threads \ {u} :
             (pc'[w] = "filled" /\ form'[w].at = form'[u].at) => report'[w] # report'[u]
      <4> SUFFICES ASSUME NEW w \in Threads \ {u}, pc'[w] = "filled", form'[w].at = form'[u].at
                   PROVE  report'[w] # report'[u]
        OBVIOUS
      <4>1. CASE w = t
        BY <1>2, <2>1, <3>3, <4>1
      <4>2. CASE w # t
        BY <2>1, <4>2, OthersKeep DEF Thread, Drawn
      <4>3. QED BY <4>1, <4>2
    <3>5. QED BY <1>5, <2>1, <3>2, <3>4 DEF Drawn
  <2>5. QED BY <2>1, <2>3, <2>4 DEF PoolOK
<1>9. Drawn(t)'
  <2>1. report'[t] > maxNewValue
    BY <1>1, <1>3, <1>4 DEF PoolInv
  <2>2. report'[t] < dir'.pool[form[t].at]
    BY <1>1, <1>3, <1>4, <1>5
  <2>3. report'[t] \notin dir.given[form[t].at]
    BY <1>1, <1>3, <1>4 DEF PoolInv
  <2>4. ASSUME NEW u \in Threads \ {t}, pc[u] = "filled", form[u].at = form[t].at
        PROVE  report[u] # n
    <3>1. PoolOK(u) /\ report[u] \in Nat
      BY ThreadTypes DEF PoolInv
    <3>2. report[u] < dir.pool[form[t].at]
      BY <1>1, <1>4, <2>4, <3>1 DEF PoolOK, Own, Drawn, Ids, PoolInv
    <3>3. QED BY <1>1, <1>3, <1>4, <3>1, <3>2
  <2>5. QED BY <1>2, <1>3, <1>5, <2>1, <2>2, <2>3, <2>4, OthersKeep DEF Drawn, Thread
<1>10. PoolOK(t)'
  BY <1>2, <1>9 DEF PoolOK
<1>11. PoolIdsUnique'
  BY <1>2 DEF PoolInv, PoolIdsUnique
<1>12. QED BY <1>7, <1>8, <1>10, <1>11 DEF PoolInv

(* An entry written with a drawn number uses it up. *)
LEMMA PoolWritten ==
  ASSUME PosixAssumption, TInv, PoolInv, NEW t \in Threads, Write(t)
  PROVE  PoolInv'
<1>1. dir \in Dirs /\ past \in Pasts /\ form[t].at \in Servers /\ report[t] \in Nat /\ PhaseOK(t)
      /\ Used(form[t].at) \subseteq Ids
  BY ThreadTypes
<1>2. pc[t] = "filled" /\ pc'[t] = "idle" /\ report'[t] = 0
  BY TypedIs DEF TInv, Write, Goto
<1>3. CASE dir' = dir /\ past' = past
  BY <1>2, <1>3, PoolSame, OthersKeep DEF Thread
<1>4. CASE Written(t)
  <2>1. /\ dir'.pool = dir.pool
        /\ dir'.given = [dir.given EXCEPT ![form[t].at] =
                            IF report[t] > maxNewValue THEN @ \union {report[t]} ELSE @]
        /\ past'.cloned = past.cloned
        /\ past'.twice = (past.twice \/ report[t] \in dir.given[form[t].at]
                            \/ (form[t].from # "edit" /\ form[t].at \in Pooled /\ report[t] \in Used(form[t].at)))
    BY <1>4, WrittenDir, WrittenPast
  <2>2. dir.pool \in [Servers -> Nat] /\ dir.given \in [Servers -> SUBSET Nat] /\ maxNewValue \in Nat
    BY <1>1 DEF Dirs, PosixAssumption
  <2>3. report[t] # 0
    BY <1>4 DEF Written
  <2>4. \/ report[t] \in Ids /\ (form[t].at \in Pooled => form[t].from = "edit" \/ past.cloned)
        \/ form[t].at \in Pooled /\ Drawn(t)
    BY <1>1, <1>2, <2>3 DEF PhaseOK, PoolInv, PoolOK, Own
  <2>5. report[t] \in Ids => report[t] <= maxNewValue
    BY <2>2 DEF Ids
  <2>6. report[t] \notin dir.given[form[t].at]
    BY <1>1, <2>2, <2>4, <2>5 DEF PoolInv, Drawn
  <2>7. report[t] \in Ids \/ report[t] \notin Used(form[t].at)
    BY <1>1
  <2>8. PoolIdsUnique'
    <3>1. past.twice => past.cloned
      BY DEF PoolInv, PoolIdsUnique
    <3>2. (form[t].from # "edit" /\ form[t].at \in Pooled /\ report[t] \in Used(form[t].at)) => past.cloned
      <4>1. report[t] \in Used(form[t].at) => ~Drawn(t)
        BY <1>1, <2>2, <2>5 DEF Drawn
      <4>2. QED BY <2>4, <4>1
    <3>3. QED BY <2>1, <2>6, <3>1, <3>2, Zenon DEF PoolIdsUnique
  <2>9. \A s \in Servers : /\ dir'.pool[s] > maxNewValue
                           /\ \A k \in dir'.given[s] : k > maxNewValue /\ k < dir'.pool[s]
    <3>1. report[t] > maxNewValue => report[t] < dir.pool[form[t].at]
      BY <1>1, <2>2, <2>4, <2>5 DEF Drawn
    <3>2. QED BY <1>1, <2>1, <2>2, <3>1 DEF PoolInv
  <2>10. ASSUME NEW u \in Threads \ {t} PROVE PoolOK(u)'
    <3>1. pc'[u] = pc[u] /\ form'[u] = form[u] /\ report'[u] = report[u] /\ PoolOK(u)
      BY OthersKeep DEF PoolInv, Thread
    <3>2. form[u].at \in Servers
      BY ThreadTypes
    <3>3. Own(u) => Own(u)'
      BY <2>1, <3>1 DEF Own
    <3>4. ASSUME Drawn(u), pc[u] = "filled" PROVE Drawn(u)'
      <4>1. form[u].at = form[t].at => report[u] # report[t]
        BY <1>2, <3>4 DEF Drawn
      <4>2. dir'.given[form[u].at] \subseteq
              dir.given[form[u].at] \union (IF form[u].at = form[t].at THEN {report[t]} ELSE {})
        BY <1>1, <2>1, <2>2, <3>2
      <4>3. report[u] \notin dir'.given[form[u].at]
        BY <3>4, <4>1, <4>2 DEF Drawn
      <4>4. \A w \in Threads \ {u} :
               (pc'[w] = "filled" /\ form'[w].at = form[u].at) => report'[w] # report[u]
        <5> SUFFICES ASSUME NEW w \in Threads \ {u}, pc'[w] = "filled", form'[w].at = form[u].at
                     PROVE  report'[w] # report[u]
          OBVIOUS
        <5>1. w # t
          BY <1>2
        <5>2. QED BY <3>4, <5>1, OthersKeep DEF Thread, Drawn
      <4>5. QED BY <2>1, <3>1, <3>4, <4>3, <4>4 DEF Drawn
    <3>5. QED BY <3>1, <3>3, <3>4 DEF PoolOK
  <2>11. PoolOK(t)'
    BY <1>2 DEF PoolOK
  <2>12. QED BY <2>8, <2>9, <2>10, <2>11 DEF PoolInv
<1>5. QED BY <1>3, <1>4, WriteCases

(* Numbers of a pool stay what they are, action by action. *)
LEMMA PoolStep ==
  ASSUME PosixAssumption, TInv, PoolInv, [Next]_vars
  PROVE  PoolInv'
<1>1. dir \in Dirs /\ past \in Pasts
  BY TypedIs DEF TInv
<1>2. CASE UNCHANGED vars
  BY <1>2 DEF vars, PoolInv, PoolOK, Own, Drawn, PoolIdsUnique
<1>3. ASSUME NEW s \in Servers, NEW id \in Ids, OtherAdds(s, id) \/ OtherDeletes(s, id)
      PROVE  PoolInv'
  <2>1. dir'.pool = dir.pool /\ dir'.given = dir.given
    BY <1>1, <1>3, OthersHolders
  <2>2. past'.cloned = past.cloned /\ past'.twice = past.twice
    BY <1>1, <1>3 DEF OtherAdds, OtherDeletes, Pasts
  <2>3. UNCHANGED <<pc, form, work, report>>
    BY <1>3 DEF OtherAdds, OtherDeletes
  <2>4. QED BY <2>1, <2>2, <2>3 DEF PoolInv, PoolOK, Own, Drawn, PoolIdsUnique
<1>4. ASSUME NEW t \in Threads, Thread(t) PROVE PoolInv'
  <2>1. \A u \in Threads \ {t} : pc'[u] = pc[u] /\ form'[u] = form[u] /\ report'[u] = report[u]
    BY <1>4, OthersKeep
  <2>2. ASSUME NEW r \in past.menu, Request(t, r) PROVE PoolInv'
    <3>1. dir'.pool = dir.pool /\ dir'.given = dir.given
      BY <1>1, <2>2 DEF Request, Dirs
    <3>2. r \in Requests
      BY <1>1 DEF Pasts
    <3>3. past'.twice = past.twice /\ past'.cloned \in BOOLEAN
          /\ (past.cloned \/ (r.from = "clone" /\ r.typed) => past'.cloned)
      <4> DEFINE c == past.cloned \/ (r.from = "clone" /\ r.typed)
      <4>1. c \in BOOLEAN /\ past' = [past EXCEPT !.moved = past.moved \ {t}, !.cloned = c]
        BY <1>1, <2>2, Zenon DEF Request, Pasts
      <4> HIDE DEF c
      <4>2. past'.twice = past.twice /\ past'.cloned = c
        BY <1>1, <4>1 DEF Pasts
      <4>3. QED BY <4>1, <4>2, Zenon DEF c
    <3>4. form'[t] = r /\ report'[t] = IF r.typed THEN r.own ELSE 0
      BY <2>2, TypedIs DEF TInv, Request
    <3>5. r.own \in Ids \union {0} /\ (r.from = "new" <=> r.own = 0) /\ r.from \in {"new", "edit", "clone"}
      BY <2>2, <3>2 DEF Request, Requests
    <3>6. report'[t] # 0 => Own(t)'
      BY <3>3, <3>4, <3>5 DEF Own
    <3>7. QED BY <2>1, <3>1, <3>3, <3>6, PoolSame
  <2>3. CASE Search(t) \/ Loop(t)
    <3>1. dir' = dir /\ past' = past /\ form' = form /\ form[t].at \notin Pooled
      BY <2>3, ThreadTypes DEF Search, Loop, PhaseOK
    <3>2. QED BY <2>1, <3>1, PoolSame
  <2>4. CASE Step(t)
    <3>1. form' = form /\ form[t].at \notin Pooled
      BY <2>4, ThreadTypes DEF Step, PhaseOK
    <3>2. dir'.pool = dir.pool /\ dir'.given = dir.given
      BY <1>1, <2>4 DEF Step, Dirs
    <3>3. past'.cloned = past.cloned /\ past'.twice = past.twice
      BY <1>1, <2>4 DEF Step, Pasts
    <3>4. QED BY <2>1, <3>1, <3>2, <3>3, PoolSame
  <2>5. CASE Reread(t)
    <3>1. dir' = dir /\ past' = past /\ form' = form /\ pc[t] = "reread"
      BY <2>5 DEF Reread
    <3>2. \/ report'[t] = report[t]
          \/ report'[t] = form[t].own /\ form[t].from = "edit" /\ form[t].own \in Used(form[t].at)
      BY <2>5, TypedIs DEF TInv, Reread
    <3>3. Used(form[t].at) \subseteq Ids
      BY ThreadTypes
    <3>4. form[t].at \in Pooled /\ report'[t] # 0 => Own(t)'
      BY <3>1, <3>2, <3>3 DEF PoolInv, PoolOK, Own
    <3>5. QED BY <2>1, <3>1, <3>4, PoolSame
  <2>6. QED BY <1>4, <2>2, <2>3, <2>4, <2>5, PoolDrawn, PoolWritten DEF Thread
<1>5. QED BY <1>2, <1>3, <1>4 DEF Next

(* A number of a pool is the number of one entry only, also where answers   *)
(* of the pool are lost and several threads draw numbers, unless an entry is   *)
(* cloned with its number.                                                    *)
THEOREM PoolNumbersUnique ==
  ASSUME PosixAssumption
  PROVE  Spec => []PoolIdsUnique
<1>1. Init => PoolInv
  <2> SUFFICES ASSUME Init PROVE PoolInv
    OBVIOUS
  <2>1. /\ dir.pool = [s \in Servers |-> maxNewValue + 1] /\ dir.given = [s \in Servers |-> {}]
        /\ ~past.twice
    BY DEF Init
  <2>2. \A t \in Threads : PoolOK(t)
    BY DEF Init, PoolOK
  <2>3. QED BY <2>1, <2>2 DEF PoolInv, PoolIdsUnique, PosixAssumption
<1>2. TInv /\ PoolInv /\ [Next]_vars => PoolInv'
  BY PoolStep
<1>3. PoolInv => PoolIdsUnique
  BY DEF PoolInv
<1>4. QED BY Types, <1>1, <1>2, <1>3, PTL DEF Spec
=============================================================================
