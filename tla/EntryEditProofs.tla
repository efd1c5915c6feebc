-------------------------- MODULE EntryEditProofs ---------------------------
(***************************************************************************)
(* Theorems about EntryEdit for every set of attributes, values and         *)
(* identities, every number of changes by others and of requests.           *)
(*                                                                         *)
(* The properties speak of the step that modifies the entry, and all it has *)
(* is the form and old_entry.  So the invariant says what these two tell of *)
(* the entry the user has seen: its stamp or none, what was hidden, and,    *)
(* when the entry was read with its stamp, its values.                      *)
(***************************************************************************)
EXTENDS EntryEdit, TLAPS

(* What the forms of one edit keep of the entry the user has seen. *)
FilterKept == form.assertion \in {NoStamp, seen.stamp} /\ form.stamp \in {NoStamp, seen.stamp}
HiddenKnown == \A a \in Attrs \ Binary : seen.shown[a] = {} => a \notin form.oldtypes
ShownSeen == \A a \in Attrs : seen.shown[a] \in {{}, seen.vals[a]}

(* The stamp stands for the values. *)
StampTells == (entry.stamp = seen.stamp /\ ~blurred) => entry.vals = seen.vals

(* What old_entry tells of the entry, until the modification. *)
ReadAsSeen ==
  (pc = "Modify" /\ form.assertion # NoStamp) =>
    /\ ~raced => form.assertion = entry.stamp
    /\ ~blurred => \A a \in Readable[identity] : old[a] = seen.vals[a]

EditInv == FilterKept /\ HiddenKnown /\ ShownSeen /\ StampTells /\ ReadAsSeen

-----------------------------------------------------------------------------
(* Types.                                                                   *)

(* What an identity can read of an entry are values of the attributes. *)
LEMMA ReadType == ASSUME TypeOK PROVE Read \in Vals
  BY EditAssumption DEF TypeOK, Read, Vals

(* A form made of values and a stamp is a form, and shows such values. *)
LEMMA FormType ==
  ASSUME NEW type \in Types, NEW vals \in Vals, NEW stamp \in Stamps \union {NoStamp},
         NEW oldtypes \in SUBSET Attrs
  PROVE  /\ FormOf(type, vals, stamp, oldtypes) \in Forms
         /\ ShownAs(type, vals) \in Vals
  BY EditAssumption DEF FormOf, ShownAs, Carried, Forms, Vals

(* A modification makes values of values. *)
LEMMA ChangeType ==
  ASSUME TypeOK, NEW a \in Attrs
  PROVE  Change(a, entry.vals[a]) \in Contents
<1>1. form.vals[a] \in Contents /\ old[a] \in Contents /\ entry.vals[a] \in Contents
  BY DEF TypeOK, Forms, Vals
<1>2. Gone(a) \in Contents /\ New(a) \in Contents
  BY <1>1, EditAssumption DEF Gone, New
<1>3. entry.vals[a] \ Gone(a) \in Contents
  BY <1>1, <1>2, EditAssumption
<1>4. (entry.vals[a] \ Gone(a)) \union New(a) \in Contents
  BY <1>2, <1>3, EditAssumption
<1> QED
  BY <1>1, <1>4 DEF Change

(* Every step keeps the types. *)
LEMMA TypeStep == TypeOK /\ [Next]_vars => TypeOK'
<1> SUFFICES ASSUME TypeOK, [Next]_vars PROVE TypeOK'
  OBVIOUS
<1> USE DEF server, session, browser, request, ghosts
<1>1. CASE Tick
  BY <1>1, EditAssumption DEF Tick, TypeOK
<1>2. CASE OtherDeletes
  <2>1. entry' \in [there : BOOLEAN, vals : Vals, stamp : Stamps]
    <3>1. entry \in [there : BOOLEAN, vals : Vals, stamp : Stamps] /\ entry' = [entry EXCEPT !.there = FALSE]
      BY <1>2 DEF OtherDeletes, TypeOK
    <3> QED
      BY <3>1
  <2> QED
    BY <1>2, <2>1, EditAssumption DEF OtherDeletes, TypeOK
<1>3. CASE OtherRootDSE
  BY <1>3 DEF OtherRootDSE, TypeOK
<1>4. ASSUME NEW a \in Attrs, NEW c \in Contents, NEW by \in Authors, OtherWrites(a, c, by)
      PROVE  TypeOK'
  <2>1. [entry.vals EXCEPT ![a] = c] \in Vals /\ [time |-> now, by |-> by] \in Stamps
    BY DEF TypeOK, Vals, Stamps
  <2>2. entry' \in [there : BOOLEAN, vals : Vals, stamp : Stamps] /\ blurred' \in BOOLEAN /\ raced' \in BOOLEAN
    BY <1>4, <2>1 DEF OtherWrites, Write, TypeOK
  <2> QED
    BY <1>4, <2>2, EditAssumption DEF OtherWrites, TypeOK
<1>5. ASSUME NEW type \in Types, OpenForm(type) PROVE TypeOK'
  <2>1. entry.stamp \in Stamps \union {NoStamp} /\ entry.vals \in Vals
    BY DEF TypeOK
  <2>2. form' \in Forms /\ ShownAs(type, Read) \in Vals
    BY <1>5, <2>1, ReadType, FormType DEF OpenForm
  <2>3. seen' \in [vals : Vals, stamp : Stamps \union {NoStamp}, shown : Vals]
    BY <1>5, <2>1, <2>2 DEF OpenForm
  <2>4. submits' \in Nat
    BY <1>5 DEF OpenForm, TypeOK
  <2> QED
    BY <1>5, <2>2, <2>3, <2>4 DEF OpenForm, TypeOK
<1>6. ASSUME NEW a \in Attrs, NEW c \in Contents, NEW button \in Types \union {"save"},
             NEW who \in Identities, Submit(a, c, button, who)
      PROVE  TypeOK'
  <2>1. form' \in Forms
    <3>1. form \in Forms /\ form' = [form EXCEPT !.vals = [form.vals EXCEPT ![a] = c]]
      BY <1>6 DEF Submit, TypeOK
    <3>2. form.vals \in Vals
      BY <3>1 DEF Forms
    <3>3. [form.vals EXCEPT ![a] = c] \in Vals
      BY <3>2 DEF Vals
    <3> QED
      BY <3>1, <3>3 DEF Forms
  <2>2. submits' \in Nat
    BY <1>6 DEF Submit, TypeOK
  <2> QED
    BY <1>6, <2>1, <2>2 DEF Submit, TypeOK, Labels
<1>7. CASE RootDSE
  BY <1>7 DEF RootDSE, Goto, TypeOK, Labels
<1>8. CASE Check
  BY <1>8 DEF Check, Goto, TypeOK, Labels
<1>9. CASE Redisplay
  <2>1. form' \in Forms
    <3>1. (IF ask = "save" THEN form.type ELSE ask) \in Types /\ form.vals \in Vals
          /\ form.stamp \in Stamps \union {NoStamp} /\ form.oldtypes \in SUBSET Attrs
      BY DEF TypeOK, Forms
    <3>2. FormOf(IF ask = "save" THEN form.type ELSE ask, form.vals, form.stamp, form.oldtypes) \in Forms
      BY <3>1, FormType
    <3> QED
      BY <1>9, <3>2 DEF Redisplay, TypeOK
  <2> QED
    BY <1>9, <2>1 DEF Redisplay, Answer, Goto, TypeOK, Labels
<1>10. CASE Reread
  BY <1>10, ReadType DEF Reread, TypeOK, Labels
<1>11. CASE Modify
  <2>1. entry' \in [there : BOOLEAN, vals : Vals, stamp : Stamps] /\ writes' \in Nat
        /\ blurred' \in BOOLEAN /\ raced' \in BOOLEAN
    <3>1. CASE Apply
      <4>1. [a \in Attrs |-> IF a \in Modified THEN Change(a, entry.vals[a]) ELSE entry.vals[a]] \in Vals
        BY ChangeType DEF TypeOK, Vals
      <4>2. [time |-> now, by |-> "me"] \in Stamps
        BY DEF TypeOK, Stamps, Authors
      <4> QED
        BY <3>1, <4>1, <4>2 DEF Apply, Write, TypeOK
    <3>2. CASE NotApplied
      BY <3>2 DEF NotApplied, TypeOK
    <3> QED
      BY <1>11, <3>1, <3>2 DEF Modify
  <2>2. pc' \in Labels /\ again' \in BOOLEAN /\ ask' = ask /\ old' = old
    BY <1>11 DEF Modify, Answer, Repeat, Goto, TypeOK, Labels
  <2> QED
    BY <1>11, <2>1, <2>2 DEF Modify, TypeOK
<1>12. CASE UNCHANGED vars
  BY <1>12 DEF vars, TypeOK
<1> QED
  BY <1>1, <1>2, <1>3, <1>4, <1>5, <1>6, <1>7, <1>8, <1>9, <1>10, <1>11, <1>12
  DEF Next, Others, User

(* Every variable keeps its type. *)
THEOREM TypeCorrect == Spec => []TypeOK
<1>1. Init => TypeOK
  <2> SUFFICES ASSUME Init PROVE TypeOK
    OBVIOUS
  <2>1. Nothing \in Vals /\ Initial \in Vals
    BY EditAssumption DEF Nothing, Vals
  <2>2. NoForm \in Forms
    BY <2>1 DEF NoForm, Forms, Types
  <2>3. entry \in [there : BOOLEAN, vals : Vals, stamp : Stamps]
    BY <2>1 DEF Init, Stamps, Authors
  <2>4. seen \in [vals : Vals, stamp : Stamps \union {NoStamp}, shown : Vals]
    BY <2>1 DEF Init
  <2> QED
    BY <2>1, <2>2, <2>3, <2>4 DEF Init, TypeOK, Labels
<1> QED
  BY <1>1, TypeStep, PTL DEF Spec

-----------------------------------------------------------------------------
(* The invariant, one lemma per part.                                       *)

(* Forms that are switched or shown again pass on the filter or drop it, and *)
(* pass on the types of the attributes shown at first.                       *)
LEMMA FormStep ==
  ASSUME TypeOK, FilterKept, HiddenKnown, ShownSeen, [Next]_vars
  PROVE  FilterKept' /\ HiddenKnown' /\ ShownSeen'
<1> USE DEF server, session, browser, request, ghosts, FilterKept, HiddenKnown, ShownSeen
<1>1. CASE Tick
  BY <1>1 DEF Tick
<1>2. CASE OtherDeletes
  BY <1>2 DEF OtherDeletes
<1>3. CASE OtherRootDSE
  BY <1>3 DEF OtherRootDSE
<1>4. ASSUME NEW a \in Attrs, NEW c \in Contents, NEW by \in Authors, OtherWrites(a, c, by)
      PROVE  FilterKept' /\ HiddenKnown' /\ ShownSeen'
  BY <1>4 DEF OtherWrites
<1>5. ASSUME NEW type \in Types, OpenForm(type)
      PROVE  FilterKept' /\ HiddenKnown' /\ ShownSeen'
  <2>1. FilterKept'
    BY <1>5 DEF OpenForm, FormOf, Carried
  <2>2. HiddenKnown'
    BY <1>5 DEF OpenForm, FormOf, ShownAs
  <2>3. ShownSeen'
    BY <1>5 DEF OpenForm, ShownAs, Read
  <2> QED
    BY <2>1, <2>2, <2>3
<1>6. ASSUME NEW a \in Attrs, NEW c \in Contents, NEW button \in Types \union {"save"},
             NEW who \in Identities, Submit(a, c, button, who)
      PROVE  FilterKept' /\ HiddenKnown' /\ ShownSeen'
  <2>1. form \in Forms /\ form' = [form EXCEPT !.vals = [form.vals EXCEPT ![a] = c]] /\ seen' = seen
    BY <1>6 DEF Submit, TypeOK
  <2>2. form'.assertion = form.assertion /\ form'.stamp = form.stamp /\ form'.oldtypes = form.oldtypes
    BY <2>1 DEF Forms
  <2> QED
    BY <2>1, <2>2
<1>7. CASE RootDSE
  BY <1>7 DEF RootDSE
<1>8. CASE Check
  BY <1>8 DEF Check
<1>9. CASE Redisplay
  <2>1. seen' = seen
    BY <1>9 DEF Redisplay
  <2>2. \/ form' = form
        \/ /\ form'.assertion = form.stamp
           /\ form'.stamp \in {NoStamp, form.stamp}
           /\ form'.oldtypes = form.oldtypes
    BY <1>9 DEF Redisplay, FormOf, Carried
  <2> QED
    BY <2>1, <2>2
<1>10. CASE Reread
  BY <1>10 DEF Reread
<1>11. CASE Modify
  BY <1>11 DEF Modify
<1>12. CASE UNCHANGED vars
  BY <1>12 DEF vars
<1> QED
  BY <1>1, <1>2, <1>3, <1>4, <1>5, <1>6, <1>7, <1>8, <1>9, <1>10, <1>11, <1>12
  DEF Next, Others, User

(* A modification that gets the stamp of another is noted as blurred.        *)
LEMMA WriteStamp ==
  ASSUME NEW vals, NEW by, Write(vals, by), seen' = seen
  PROVE  StampTells'
  BY DEF Write, StampTells

(* The stamp of the entry and the form's own are the same for no other       *)
(* values, whoever changes the entry.                                        *)
LEMMA StampStep ==
  ASSUME TypeOK, StampTells, [Next]_vars
  PROVE  StampTells'
<1> USE DEF server, session, browser, request, ghosts
<1>1. CASE Tick
  BY <1>1 DEF Tick, StampTells
<1>2. CASE OtherDeletes
  <2>1. entry \in [there : BOOLEAN, vals : Vals, stamp : Stamps] /\ entry' = [entry EXCEPT !.there = FALSE]
    BY <1>2 DEF OtherDeletes, TypeOK
  <2>2. entry'.vals = entry.vals /\ entry'.stamp = entry.stamp
    BY <2>1
  <2> QED
    BY <1>2, <2>2 DEF OtherDeletes, StampTells
<1>3. CASE OtherRootDSE
  BY <1>3 DEF OtherRootDSE, StampTells
<1>4. ASSUME NEW a \in Attrs, NEW c \in Contents, NEW by \in Authors, OtherWrites(a, c, by)
      PROVE  StampTells'
  BY <1>4, WriteStamp DEF OtherWrites
<1>5. ASSUME NEW type \in Types, OpenForm(type) PROVE StampTells'
  BY <1>5 DEF OpenForm, StampTells
<1>6. ASSUME NEW a \in Attrs, NEW c \in Contents, NEW button \in Types \union {"save"},
             NEW who \in Identities, Submit(a, c, button, who)
      PROVE  StampTells'
  BY <1>6 DEF Submit, StampTells
<1>7. CASE RootDSE
  BY <1>7 DEF RootDSE, StampTells
<1>8. CASE Check
  BY <1>8 DEF Check, StampTells
<1>9. CASE Redisplay
  BY <1>9 DEF Redisplay, StampTells
<1>10. CASE Reread
  BY <1>10 DEF Reread, StampTells
<1>11. CASE Modify
  <2>1. CASE Apply
    BY <1>11, <2>1, WriteStamp DEF Modify, Apply
  <2>2. CASE NotApplied
    BY <1>11, <2>2 DEF Modify, NotApplied, StampTells
  <2> QED
    BY <1>11, <2>1, <2>2 DEF Modify
<1>12. CASE UNCHANGED vars
  BY <1>12 DEF vars, StampTells
<1> QED
  BY <1>1, <1>2, <1>3, <1>4, <1>5, <1>6, <1>7, <1>8, <1>9, <1>10, <1>11, <1>12
  DEF Next, Others, User

(* old_entry is the entry the user has seen, if it was read with its stamp.  *)
LEMMA ReadStep ==
  ASSUME TypeOK, FilterKept, StampTells, ReadAsSeen, [Next]_vars
  PROVE  ReadAsSeen'
<1> USE DEF server, session, browser, request, ghosts
<1>1. CASE Tick
  BY <1>1 DEF Tick, ReadAsSeen
<1>2. CASE OtherDeletes
  BY <1>2 DEF OtherDeletes, ReadAsSeen
<1>3. CASE OtherRootDSE
  BY <1>3 DEF OtherRootDSE, ReadAsSeen
<1>4. ASSUME NEW a \in Attrs, NEW c \in Contents, NEW by \in Authors, OtherWrites(a, c, by)
      PROVE  ReadAsSeen'
  BY <1>4 DEF OtherWrites, Write, ReadAsSeen
<1>5. ASSUME NEW type \in Types, OpenForm(type) PROVE ReadAsSeen'
  BY <1>5 DEF OpenForm, ReadAsSeen
<1>6. ASSUME NEW a \in Attrs, NEW c \in Contents, NEW button \in Types \union {"save"},
             NEW who \in Identities, Submit(a, c, button, who)
      PROVE  ReadAsSeen'
  BY <1>6 DEF Submit, ReadAsSeen
<1>7. CASE RootDSE
  BY <1>7 DEF RootDSE, Goto, ReadAsSeen
<1>8. CASE Check
  BY <1>8 DEF Check, Goto, ReadAsSeen
<1>9. CASE Redisplay
  BY <1>9 DEF Redisplay, Answer, Goto, ReadAsSeen
<1>10. CASE Reread
  <2> SUFFICES ASSUME pc' = "Modify", form.assertion # NoStamp
               PROVE  /\ form.assertion = entry.stamp
                      /\ ~blurred => \A a \in Readable[identity] : old'[a] = seen.vals[a]
    BY <1>10 DEF Reread, ReadAsSeen
  <2>1. Asserted /\ old' = Read
    BY <1>10 DEF Reread
  <2>2. form.assertion = entry.stamp /\ entry.stamp = seen.stamp
    BY <2>1 DEF Asserted, FilterKept
  <2>3. ~blurred => entry.vals = seen.vals
    BY <2>2 DEF StampTells
  <2>4. Readable[identity] \subseteq Attrs
    BY EditAssumption DEF TypeOK
  <2> QED
    BY <2>1, <2>2, <2>3, <2>4 DEF Read
<1>11. CASE Modify
  <2>1. pc = "Modify" /\ old' = old /\ UNCHANGED <<form, seen, identity>>
    BY <1>11 DEF Modify, Answer, Repeat, Goto
  <2>2. CASE Apply
    BY <2>1, <2>2 DEF Apply, Write, ReadAsSeen
  <2>3. CASE NotApplied
    BY <2>1, <2>3 DEF NotApplied, ReadAsSeen
  <2> QED
    BY <1>11, <2>2, <2>3 DEF Modify
<1>12. CASE UNCHANGED vars
  BY <1>12 DEF vars, ReadAsSeen
<1> QED
  BY <1>1, <1>2, <1>3, <1>4, <1>5, <1>6, <1>7, <1>8, <1>9, <1>10, <1>11, <1>12
  DEF Next, Others, User

(* The invariant holds in every state. *)
LEMMA InvariantHolds == Spec => [](TypeOK /\ EditInv)
<1>1. Init => EditInv
  <2> SUFFICES ASSUME Init PROVE EditInv
    OBVIOUS
  <2>1. entry.stamp \in Stamps
    BY DEF Init, Stamps, Authors
  <2>2. FilterKept /\ HiddenKnown /\ ShownSeen
    BY DEF Init, NoForm, Nothing, FilterKept, HiddenKnown, ShownSeen
  <2>3. StampTells
    BY <2>1, EditAssumption DEF Init, StampTells
  <2>4. ReadAsSeen
    BY DEF Init, ReadAsSeen
  <2> QED
    BY <2>2, <2>3, <2>4 DEF EditInv
<1>2. TypeOK /\ EditInv /\ [Next]_vars => EditInv'
  BY FormStep, StampStep, ReadStep DEF EditInv
<1> QED
  BY <1>1, <1>2, TypeCorrect, PTL DEF Spec

-----------------------------------------------------------------------------
(* The properties.                                                          *)

(* Only the modification by the user's own form counts as his. *)
LEMMA WritesByModify ==
  ASSUME [Next]_vars, writes' # writes
  PROVE  pc = "Modify" /\ Modify /\ Apply
<1> USE DEF server, session, browser, request, ghosts
<1>1. Modify
  BY DEF Next, Others, User, Tick, OtherDeletes, OtherRootDSE, OtherWrites, OpenForm, Submit,
         RootDSE, Check, Redisplay, Reread, vars
<1> QED
  BY <1>1 DEF Modify, NotApplied

(* With the assertion control, and without it if nothing happens during the  *)
(* request, no change by others is overwritten by a form with a stamp.        *)
THEOREM NothingOverwritten == Spec => NoLostUpdate
<1>1. TypeOK /\ EditInv /\ [Next]_vars
        => [(writes' # writes /\ form.assertion # NoStamp /\ ~blurred /\ (ctrl \/ ~raced))
              => entry.vals = seen.vals]_vars
  <2> SUFFICES ASSUME TypeOK, EditInv, [Next]_vars,
                      writes' # writes, form.assertion # NoStamp, ~blurred, ctrl \/ ~raced
               PROVE  entry.vals = seen.vals
    OBVIOUS
  <2>1. pc = "Modify" /\ Apply
    BY WritesByModify
  <2>2. form.assertion = entry.stamp
    BY <2>1 DEF Apply, Permitted, Guarded, Asserted, EditInv, ReadAsSeen
  <2>3. entry.stamp = seen.stamp
    BY <2>2 DEF EditInv, FilterKept
  <2> QED
    BY <2>3 DEF EditInv, StampTells
<1> QED
  BY <1>1, InvariantHolds, PTL DEF Spec, NoLostUpdate

(* What the modification makes of an attribute. *)
LEMMA Effect ==
  ASSUME TypeOK, Apply, NEW a \in Attrs
  PROVE  entry'.vals[a] = IF a \in Modified THEN Change(a, entry.vals[a]) ELSE entry.vals[a]
BY DEF Apply, Write

(* No value of an attribute that can be edited and has not been in the first *)
(* form is removed by any later form, with whatever rights it is sent.        *)
THEOREM HiddenNotRemoved == Spec => HiddenKept
<1>1. TypeOK /\ EditInv /\ [Next]_vars
        => [writes' # writes
              => \A a \in Attrs \ Binary : seen.shown[a] = {} => entry.vals[a] \subseteq entry'.vals[a]]_vars
  <2> SUFFICES ASSUME TypeOK, EditInv, [Next]_vars, writes' # writes,
                      NEW a \in Attrs \ Binary, seen.shown[a] = {}
               PROVE  entry.vals[a] \subseteq entry'.vals[a]
    OBVIOUS
  <2>1. Apply
    BY WritesByModify
  <2>2. a \notin form.oldtypes
    BY DEF EditInv, HiddenKnown
  <2>3. CASE a \in Modified
    <3>1. old[a] = {}
      BY <2>2, <2>3, EditAssumption DEF Modified, Ignored, Uploaded
    <3>2. ~Whole(a) /\ Gone(a) = {}
      BY <3>1 DEF Whole, Gone
    <3>3. Change(a, entry.vals[a]) = entry.vals[a] \union New(a)
      BY <3>2 DEF Change
    <3> QED
      BY <2>1, <2>3, <3>3, Effect
  <2>4. CASE a \notin Modified
    BY <2>1, <2>4, Effect
  <2> QED
    BY <2>3, <2>4
<1> QED
  BY <1>1, InvariantHolds, PTL DEF Spec, HiddenKept

(* A form with a stamp leaves alone what its user has left alone, also when  *)
(* it is applied to an entry that was changed after it was read again.       *)
THEOREM UntouchedKept == Spec => EditedOnly
<1>1. TypeOK /\ EditInv /\ [Next]_vars
        => [(writes' # writes /\ form.assertion # NoStamp /\ ~blurred)
              => \A a \in Readable[identity] :
                   form.vals[a] = seen.shown[a] => entry'.vals[a] = entry.vals[a]]_vars
  <2> SUFFICES ASSUME TypeOK, EditInv, [Next]_vars, writes' # writes, form.assertion # NoStamp, ~blurred,
                      NEW a \in Readable[identity], form.vals[a] = seen.shown[a]
               PROVE  entry'.vals[a] = entry.vals[a]
    OBVIOUS
  <2>1. pc = "Modify" /\ Apply
    BY WritesByModify
  <2>2. a \in Attrs
    BY EditAssumption DEF TypeOK
  <2>3. old[a] = seen.vals[a]
    BY <2>1 DEF EditInv, ReadAsSeen
  <2>4. form.vals[a] \in {{}, old[a]}
    BY <2>2, <2>3 DEF EditInv, ShownSeen
  <2>5. a \notin Modified
    <3>1. CASE form.vals[a] = old[a]
      BY <3>1 DEF Modified, Uploaded
    <3>2. CASE form.vals[a] = {} /\ old[a] # {}
      <4>1. a \in Binary \/ a \notin form.oldtypes
        BY <2>2, <3>2 DEF EditInv, HiddenKnown
      <4>2. a \in Ignored
        BY <2>2, <3>2, <4>1 DEF Ignored
      <4> QED
        BY <3>2, <4>2 DEF Modified, Uploaded
    <3> QED
      BY <2>4, <3>1, <3>2
  <2> QED
    BY <2>1, <2>2, <2>5, Effect
<1> QED
  BY <1>1, InvariantHolds, PTL DEF Spec, EditedOnly
=============================================================================
