--------------------------- MODULE CommandsProofs ---------------------------
(***************************************************************************)
(* Proofs about the commands: password change, group administration, bulk    *)
(* modification, the naming of entries, the pages of a search, the object      *)
(* classes of an entry.                                                       *)
(*                                                                         *)
(* A command keeps its own invariant by each of its steps; dispatch() makes   *)
(* no step of another command, and so the invariant holds of Commands, too.   *)
(* The caches of a session and the numbers of new accounts are proved in      *)
(* SessionCachesProofs and PosixIdsProofs; their theorems come here through    *)
(* instances of those modules.                                                *)
(***************************************************************************)
EXTENDS Commands, FiniteSetTheorems, Sequences, TLAPS

(* While one command runs only its own steps are made. *)
LEMMA OneCommand ==
  ASSUME [DispatchNext]_all
  PROVE  /\ command' = command
         /\ command = "bulkmod" => [Bulk!Next]_Bulk!vars
         /\ command = "groupadm" => [Group!Next]_Group!vars
         /\ command = "add" => [Naming!Next]_Naming!vars
         /\ command = "passwd" => [Password!Next]_Password!vars
         /\ command = "search" => [Search!Next]_Search!vars
         /\ command = "in_oc" => [Chosen!Next]_Chosen!vars
<1>1. CASE UNCHANGED all
  BY <1>1 DEF all, others, Bulk!vars, Group!vars, Naming!vars, Password!vars, Search!vars,
              Chosen!vars
<1>2. CASE DispatchNext
  BY <1>2 DEF DispatchNext, DeleteNext, BulkNext, GroupNext, NamingNext, PasswordNext, SearchNext,
              CachesNext, IdsNext, ChosenNext
<1>3. QED BY <1>1, <1>2

-----------------------------------------------------------------------------
(* passwd                                                                    *)

(* What w2l_passwd() sets is a password of its own, by the way that was asked *)
(* for, and it is the entry's until the page about it is shown.                *)
PasswordUnderWay ==
  /\ step \in {"ExtOp", "ModifyRest", "Modify", "Set"} => work.secret \in Password!Own
  /\ step \in {"ExtOp", "ModifyRest"} => Password!Action = "passwdextop"
  /\ step = "Modify" => Password!Action = "setuserpassword"
  /\ step \in {"ModifyRest", "Set"} => dir.pw = work.secret

(* A generated password was shown, or is the one the message will show, but   *)
(* for the two exceptions of GeneratedIsShown.                                *)
GeneratedIsKnown ==
  dir.pw \in Password!Generated
    => /\ step \in {"Login", "Message"} => dir.pw \in report
       /\ ~past.lost /\ ~past.cut => dir.pw \in report \/ step \in {"ModifyRest", "Set"}

PasswordInv ==
  /\ Password!TypeOK
  /\ PasswordUnderWay
  /\ Password!HashesInStep
  /\ GeneratedIsKnown
  /\ Password!SuccessEndsLogin

Accounts == [pw : Password!Secrets, nt : Password!Secrets, set : SUBSET Password!Features, knows : Schemas]
Tasks == [secret : {""} \union Password!Own, bound : BOOLEAN, last : BOOLEAN, again : BOOLEAN, reads : BOOLEAN]
Mishaps == [lost : BOOLEAN, cut : BOOLEAN]

(* The variables of passwd, each with its type. *)
LEMMA PasswordTyped ==
  ASSUME Password!TypeOK
  PROVE  dir \in Accounts /\ work \in Tasks /\ past \in Mishaps /\ form \in Forms /\ report \subseteq Password!Generated
BY DEF Password!TypeOK, Accounts, Tasks, Mishaps

(* The way is one of two. *)
LEMMA ActionIs ==
  ASSUME Password!TypeOK
  PROVE  Password!Action \in {"passwdextop", "setuserpassword"}
BY CommandsAssumption DEF Password!TypeOK, Password!Action, Password!PasswordAssumption, Password!FormType

(* The form has the old password. *)
LEMMA PasswordInit ==
  ASSUME Password!Init
  PROVE  PasswordInv
<1>1. /\ step = "Form" /\ form \in Forms /\ report = {} /\ past = [lost |-> FALSE, cut |-> FALSE]
      /\ dir \in [pw : {"old"}, nt : {"old"}, set : {{}}, knows : Schemas]
  BY DEF Password!Init
<1>2. work \in Tasks
  <2> DEFINE b == form.who \in {"self", "alias"}
  <2>1. b \in BOOLEAN
    OBVIOUS
  <2>2. work = [secret |-> "", bound |-> b, last |-> b, again |-> FALSE, reads |-> TRUE]
    BY Zenon DEF Password!Init
  <2> HIDE DEF b
  <2>3. QED BY <2>1, <2>2 DEF Tasks
<1>3. dir \in Accounts /\ dir.pw = "old" /\ dir.nt = "old" /\ past \in Mishaps
  BY <1>1 DEF Accounts, Mishaps, Password!Secrets
<1>4. Password!TypeOK
  BY <1>1, <1>2, <1>3 DEF Password!TypeOK, Accounts, Tasks, Mishaps
<1>5. "old" \notin Password!Own
  BY DEF Password!Own, Password!Generated
<1>6. PasswordUnderWay /\ GeneratedIsKnown /\ Password!HashesInStep /\ Password!SuccessEndsLogin
  BY <1>1, <1>3, <1>5 DEF PasswordUnderWay, GeneratedIsKnown, Password!HashesInStep, Password!SuccessEndsLogin,
     Password!Own
<1>7. QED BY <1>4, <1>6 DEF PasswordInv

(* The attributes set besides the password are features; both hashes are      *)
(* among them where they are asked for and known.                             *)
LEMMA ModlistIs ==
  ASSUME Password!TypeOK
  PROVE  /\ Password!ForceChange \subseteq Password!Features
         /\ Password!Modlist \subseteq Password!Features
         /\ form.ntsync /\ {"readable", "nt"} \subseteq dir.knows /\ work.reads => "nt" \in Password!Modlist
<1>1. dir.knows \subseteq Password!Features
  BY CommandsAssumption DEF Password!TypeOK, Password!PasswordAssumption
<1>2. form.force \in BOOLEAN /\ form.ntsync \in BOOLEAN /\ form.timesync \in BOOLEAN
  BY CommandsAssumption DEF Password!TypeOK, Password!PasswordAssumption, Password!FormType
<1>3. /\ Password!AllAttrs \subseteq dir.knows
      /\ "readable" \in dir.knows /\ work.reads => Password!AllAttrs = dir.knows
  BY DEF Password!AllAttrs
<1>4. Password!ForceChange \subseteq dir.knows
  BY <1>2 DEF Password!ForceChange
<1>5. Password!AuxClass \subseteq dir.knows
  BY <1>3 DEF Password!AuxClass
<1>6. QED BY <1>1, <1>2, <1>3, <1>4, <1>5 DEF Password!Modlist

(* The entry after the password was set.                                      *)
LEMMA WithSecretIs ==
  ASSUME Password!TypeOK, work.secret \in Password!Own, NEW attrs \in SUBSET Password!Features,
         NEW d, d = Password!WithSecret(dir, attrs)
  PROVE  /\ d \in Accounts
         /\ d.pw = work.secret /\ d.knows = dir.knows
         /\ "nt" \in attrs => d.nt = work.secret
<1> DEFINE nt == IF "nt" \in attrs THEN work.secret ELSE dir.nt
           set == dir.set \union (attrs \ {"nt"})
<1>1. d = [dir EXCEPT !.pw = work.secret, !.nt = nt, !.set = set]
  BY DEF Password!WithSecret
<1>2. dir \in Accounts /\ work.secret \in Password!Secrets
  BY PasswordTyped DEF Password!Secrets
<1>3. nt \in Password!Secrets /\ set \in SUBSET Password!Features /\ ("nt" \in attrs => nt = work.secret)
  BY <1>2 DEF Accounts
<1> HIDE DEF nt, set
<1>4. QED BY <1>1, <1>2, <1>3 DEF Accounts

(* The way of the change and the form stay.                                   *)
LEMMA PasswordKept ==
  ASSUME form' = form, dir'.knows = dir.knows
  PROVE  Password!Action' = Password!Action
BY DEF Password!Action

(* Steps that set no password: the form, a failure, the end.                  *)
LEMMA PasswordQuiet ==
  ASSUME PasswordInv, UNCHANGED <<form, dir>>, work'.reads => work.reads
  PROVE  Password!HashesInStep'
BY PasswordKept DEF PasswordInv, Password!HashesInStep

(* Steps that only go elsewhere: the form is shown again, the request fails   *)
(* or is dispatched once more.                                                *)
LEMMA PasswordGoes ==
  ASSUME PasswordInv, UNCHANGED <<form, dir, work, report, past>>, step \notin {"ModifyRest", "Set"},
         step' \in {"Form", "Dispatch", "Error"}
  PROVE  PasswordInv'
<1>1. Password!HashesInStep'
  BY PasswordQuiet
<1>2. QED
  BY <1>1 DEF PasswordInv, PasswordUnderWay, GeneratedIsKnown, Password!TypeOK, Password!SuccessEndsLogin

(* A form that is complete chooses the secret and the way it is set.          *)
LEMMA PasswordForm ==
  ASSUME PasswordInv, Password!Submit
  PROVE  PasswordInv'
<1> DEFINE s == IF form.input = "new" THEN "new" ELSE IF dir.pw = "gen" THEN "regen" ELSE "gen"
           a == step = "Dispatch"
           w == [work EXCEPT !.secret = s, !.again = a]
<1>1. /\ UNCHANGED <<form, dir, report, past>> /\ step \in {"Form", "Dispatch"} /\ work' = w
      /\ step' = IF Password!Fixed THEN "Error" ELSE IF Password!Action = "passwdextop" THEN "ExtOp" ELSE "Modify"
  BY DEF Password!Submit
<1>2. s \in Password!Own /\ a \in BOOLEAN
  BY DEF Password!Own, Password!Generated
<1> HIDE DEF s, a
<1>3. w \in Tasks /\ w.secret = s /\ w.reads = work.reads
  BY <1>2, PasswordTyped DEF PasswordInv, Tasks
<1> HIDE DEF w
<1>4. Password!Action' = Password!Action /\ Password!Action \in {"passwdextop", "setuserpassword"}
  BY <1>1, ActionIs, PasswordKept DEF PasswordInv
<1>5. Password!HashesInStep'
  BY <1>1, <1>3, PasswordQuiet
<1>6. Password!TypeOK'
  BY <1>1, <1>3 DEF PasswordInv, Password!TypeOK, Tasks
<1>7. PasswordUnderWay' /\ GeneratedIsKnown' /\ Password!SuccessEndsLogin'
  BY <1>1, <1>2, <1>3, <1>4 DEF PasswordInv, PasswordUnderWay, GeneratedIsKnown, Password!SuccessEndsLogin
<1>8. QED BY <1>5, <1>6, <1>7 DEF PasswordInv

(* A change by others is neither the password of the command nor its hash.    *)
LEMMA PasswordOthers ==
  ASSUME PasswordInv, Password!OtherChanges
  PROVE  PasswordInv'
<1>1. /\ UNCHANGED <<step, form, work, report, past>> /\ step \in {"ExtOp", "Modify"}
      /\ dir.pw = "old" /\ dir' = [dir EXCEPT !.pw = "foreign"]
  BY DEF Password!OtherChanges
<1>2. dir' \in Accounts /\ dir'.pw = "foreign" /\ dir'.nt = dir.nt /\ dir'.knows = dir.knows
  BY <1>1, PasswordTyped DEF PasswordInv, Accounts, Password!Secrets
<1>3. Password!Action' = Password!Action
  BY <1>1, <1>2, PasswordKept
<1>4. "old" \notin Password!Own /\ "foreign" \notin Password!Own
  BY DEF Password!Own, Password!Generated
<1>5. Password!HashesInStep'
  BY <1>1, <1>2, <1>3, <1>4 DEF PasswordInv, Password!HashesInStep
<1>6. Password!TypeOK'
  BY <1>1, <1>2 DEF PasswordInv, Password!TypeOK, Accounts
<1>7. QED
  BY <1>1, <1>2, <1>3, <1>4, <1>5, <1>6 DEF PasswordInv, PasswordUnderWay, GeneratedIsKnown, Password!Own,
     Password!SuccessEndsLogin

(* The password is set, by one request or by the other.                       *)
LEMMA PasswordSet ==
  ASSUME PasswordInv, UNCHANGED <<form, work, report>>, step \in {"ExtOp", "Modify"},
         NEW attrs \in SUBSET Password!Features, dir' = Password!WithSecret(dir, attrs),
         step = "Modify" /\ form.ntsync /\ {"readable", "nt"} \subseteq dir.knows /\ work.reads => "nt" \in attrs,
         past' \in Mishaps,
         \/ step' \in {"Form", "Error", "Dispatch"} /\ past'.lost
         \/ step' = "Set" \/ (step' = "ModifyRest" /\ step = "ExtOp")
  PROVE  PasswordInv'
<1>1. /\ work.secret \in Password!Own /\ (step = "ExtOp" => Password!Action = "passwdextop")
      /\ (step = "Modify" => Password!Action = "setuserpassword")
  BY DEF PasswordInv, PasswordUnderWay
<1>2. /\ dir' \in Accounts
      /\ dir'.pw = work.secret /\ dir'.knows = dir.knows /\ ("nt" \in attrs => dir'.nt = work.secret)
  BY <1>1, WithSecretIs DEF PasswordInv
<1>3. Password!Action' = Password!Action
  BY <1>2, PasswordKept
<1>4. Password!HashesInStep'
  BY <1>1, <1>2, <1>3 DEF Password!HashesInStep
<1>5. Password!TypeOK'
  BY <1>2 DEF PasswordInv, Password!TypeOK, Accounts, Mishaps
<1>6. PasswordUnderWay' /\ GeneratedIsKnown' /\ Password!SuccessEndsLogin'
  BY <1>1, <1>2, <1>3 DEF PasswordUnderWay, GeneratedIsKnown, Password!SuccessEndsLogin
<1>7. QED BY <1>4, <1>5, <1>6 DEF PasswordInv

(* The extended operation and the modifications: each is refused, lost or     *)
(* accepted, and only an accepted one changes the entry.                       *)
LEMMA PasswordRequest ==
  ASSUME PasswordInv, UNCHANGED <<form, work, report>>, step \in {"ExtOp", "Modify"},
         NEW attrs \in SUBSET Password!Features, NEW next, Password!Request(attrs, next),
         step = "Modify" /\ form.ntsync /\ {"readable", "nt"} \subseteq dir.knows /\ work.reads => "nt" \in attrs,
         next = "Set" \/ (next = "ModifyRest" /\ step = "ExtOp")
  PROVE  PasswordInv'
<1> DEFINE l == [past EXCEPT !.lost = TRUE]
<1>1. past \in Mishaps /\ l \in Mishaps /\ l.lost
  BY PasswordTyped DEF PasswordInv, Mishaps
<1>2. \A d : Password!Redispatch(d) \subseteq {"Dispatch"}
  BY DEF Password!Redispatch
<1>3. CASE UNCHANGED <<dir, past>> /\ step' \in {"Form", "Error"} \union Password!Redispatch(dir)
  BY <1>2, <1>3, PasswordGoes
<1>4. CASE dir' = Password!WithSecret(dir, attrs) /\ step' = next /\ UNCHANGED past
  BY <1>1, <1>4, PasswordSet
<1>5. CASE dir' = Password!WithSecret(dir, attrs) /\ past' = l
           /\ step' \in {"Form", "Error", next} \union Password!Redispatch(dir')
  <2>1. step' \in {"Form", "Error", "Dispatch"} \/ step' = next
    BY <1>2, <1>5
  <2> HIDE DEF l
  <2>2. past' \in Mishaps /\ past'.lost
    BY <1>1, <1>5
  <2>3. QED BY <1>5, <2>1, <2>2, PasswordSet
<1>6. QED BY <1>3, <1>4, <1>5 DEF Password!Request

(* The two requests, each with its attributes.                                *)
LEMMA PasswordRequests ==
  ASSUME PasswordInv, Password!ExtOp \/ Password!Modify
  PROVE  PasswordInv'
<1>1. CASE Password!ExtOp
  <2> DEFINE none == {}
             next == IF Password!ForceChange # {} \/ TupleSet THEN "ModifyRest" ELSE "Set"
  <2>1. UNCHANGED <<form, work, report>> /\ step = "ExtOp" /\ Password!Request(none, next)
    BY <1>1 DEF Password!ExtOp
  <2>2. none \in SUBSET Password!Features /\ next \in {"ModifyRest", "Set"}
    OBVIOUS
  <2> HIDE DEF none, next
  <2>3. QED BY <2>1, <2>2, PasswordRequest
<1>2. CASE Password!Modify
  <2> DEFINE attrs == Password!Modlist
  <2>1. UNCHANGED <<form, work, report>> /\ step = "Modify" /\ Password!Request(attrs, "Set")
    BY <1>2 DEF Password!Modify
  <2>2. /\ attrs \in SUBSET Password!Features
        /\ form.ntsync /\ {"readable", "nt"} \subseteq dir.knows /\ work.reads => "nt" \in attrs
    BY ModlistIs DEF PasswordInv
  <2> HIDE DEF attrs
  <2>3. QED BY <2>1, <2>2, PasswordRequest
<1>3. QED BY <1>1, <1>2

(* The rest of the modlist has no password.                                   *)
LEMMA PasswordRest ==
  ASSUME PasswordInv, Password!ModifyRest
  PROVE  PasswordInv'
<1> DEFINE set == dir.set \union Password!ForceChange
           c == [past EXCEPT !.cut = TRUE]
<1>1. /\ UNCHANGED <<form, work, report>> /\ step = "ModifyRest"
      /\ dir' \in {dir, [dir EXCEPT !.set = set]}
      /\ (step' = "Set" /\ past' = past) \/ (step' \in {"Error", "Dispatch"} /\ past' = c)
  BY DEF Password!ModifyRest, Password!Redispatch
<1>2. set \in SUBSET Password!Features /\ past \in Mishaps /\ c \in Mishaps /\ c.cut
  BY ModlistIs, PasswordTyped DEF PasswordInv, Password!TypeOK, Mishaps
<1> HIDE DEF set, c
<1>3. dir' \in Accounts /\ dir'.pw = dir.pw /\ dir'.nt = dir.nt /\ dir'.knows = dir.knows
  BY <1>1, <1>2, PasswordTyped DEF PasswordInv, Accounts
<1>4. Password!Action' = Password!Action
  BY <1>1, <1>3, PasswordKept
<1>5. past' \in Mishaps /\ (step' # "Set" => past'.cut)
  BY <1>1, <1>2
<1>6. Password!HashesInStep' /\ Password!TypeOK'
  BY <1>1, <1>3, <1>4, <1>5 DEF PasswordInv, Password!HashesInStep, Password!TypeOK, Accounts, Mishaps
<1>7. PasswordUnderWay' /\ GeneratedIsKnown' /\ Password!SuccessEndsLogin'
  BY <1>1, <1>3, <1>4, <1>5 DEF PasswordInv, PasswordUnderWay, GeneratedIsKnown, Password!SuccessEndsLogin
<1>8. QED BY <1>6, <1>7 DEF PasswordInv

(* The page after success, which has the password if it was generated.        *)
LEMMA PasswordPage ==
  ASSUME PasswordInv, Password!Relogin \/ Password!Message
  PROVE  PasswordInv'
<1>1. /\ UNCHANGED <<form, dir, past>> /\ step = "Set" /\ step' \in {"Login", "Message"}
      /\ report' = report \union Password!Shown
  BY DEF Password!Relogin, Password!Message
<1>2. /\ Password!Shown \subseteq Password!Generated
      /\ dir.pw \in Password!Generated => dir.pw \in Password!Shown
  BY <1>1 DEF Password!Shown, PasswordInv, PasswordUnderWay
<1>3. work \in Tasks
  BY PasswordTyped DEF PasswordInv
<1>4. /\ work' \in Tasks /\ (work'.reads => work.reads)
      /\ step' = "Login" => ~work'.bound /\ ~work'.last
      /\ step' = "Message" => work' = work /\ ~Password!SelfChange
  BY <1>3 DEF Password!Relogin, Password!Message, Tasks
<1>5. Password!HashesInStep'
  BY <1>1, <1>4, PasswordQuiet
<1>6. Password!TypeOK' /\ PasswordUnderWay' /\ GeneratedIsKnown'
  BY <1>1, <1>2, <1>4 DEF PasswordInv, PasswordUnderWay, GeneratedIsKnown, Password!TypeOK, Tasks
<1>7. form.who \in {"self", "alias", "other", "nobody"}
  BY CommandsAssumption DEF PasswordInv, Password!TypeOK, Password!PasswordAssumption, Password!FormType
<1>8. Password!SuccessEndsLogin'
  BY <1>1, <1>4, <1>7 DEF Password!SuccessEndsLogin, Password!SelfChange
<1>9. QED BY <1>5, <1>6, <1>8 DEF PasswordInv

(* The session cannot be connected again: the message is lost.                *)
LEMMA PasswordFails ==
  ASSUME PasswordInv, Password!ReloginFails
  PROVE  PasswordInv'
<1> DEFINE c == [past EXCEPT !.cut = TRUE]
<1>1. /\ UNCHANGED <<form, dir, report>> /\ step' \in {"Error", "Dispatch"} /\ past' = c
  BY DEF Password!ReloginFails
<1>2. c \in Mishaps /\ c.cut
  BY PasswordTyped DEF PasswordInv, Mishaps
<1> HIDE DEF c
<1>3. work' \in Tasks /\ (work'.reads => work.reads)
  <2>1. PICK reads \in {work.reads, FALSE} : work' = [work EXCEPT !.last = FALSE, !.reads = reads]
    BY DEF Password!ReloginFails
  <2>2. QED BY <2>1, PasswordTyped DEF PasswordInv, Tasks
<1>4. Password!HashesInStep'
  BY <1>1, <1>3, PasswordQuiet
<1>5. Password!TypeOK'
  BY <1>1, <1>2, <1>3 DEF PasswordInv, Password!TypeOK, Tasks, Mishaps
<1>6. PasswordUnderWay' /\ GeneratedIsKnown' /\ Password!SuccessEndsLogin'
  BY <1>1, <1>2 DEF PasswordUnderWay, GeneratedIsKnown, Password!SuccessEndsLogin
<1>7. QED BY <1>4, <1>5, <1>6 DEF PasswordInv

(* Every step of passwd keeps its invariant.                                 *)
LEMMA PasswordStep ==
  ASSUME PasswordInv, [Password!Next]_Password!vars
  PROVE  PasswordInv'
<1>1. CASE UNCHANGED Password!vars
  <2>1. UNCHANGED <<step, form, dir, work, report, past>>
    BY <1>1 DEF Password!vars
  <2>2. Password!Action' = Password!Action
    BY <2>1, PasswordKept
  <2>3. Password!TypeOK' /\ Password!SuccessEndsLogin'
    BY <2>1 DEF PasswordInv, Password!TypeOK, Password!SuccessEndsLogin
  <2>4. PasswordUnderWay' /\ GeneratedIsKnown' /\ Password!HashesInStep'
    BY <2>1, <2>2 DEF PasswordInv, PasswordUnderWay, GeneratedIsKnown, Password!HashesInStep
  <2>5. QED BY <2>3, <2>4 DEF PasswordInv
<1>2. CASE Password!Incomplete \/ Password!ReadFails
  BY <1>2, PasswordGoes DEF Password!Incomplete, Password!ReadFails
<1>3. QED
  BY <1>1, <1>2, PasswordForm, PasswordOthers, PasswordRequests, PasswordRest, PasswordPage, PasswordFails
     DEF Password!Next

(* passwd, for every site, schema and form: it sets both hashes or none; a    *)
(* page of success shows the password that was generated, an error page only   *)
(* follows it unshown if an answer was lost or the rest of the change failed; and *)
(* success leaves no session bound with a password that was changed.           *)
THEOREM PasswordReported == DispatchSpec => []PasswordReport
<1> DEFINE PInv == command = "passwd" => PasswordInv
<1>1. DispatchInit => PInv
  BY PasswordInit DEF DispatchInit
<1>2. PInv /\ [DispatchNext]_all => PInv'
  BY OneCommand, PasswordStep
<1>3. PInv => PasswordReport
  BY DEF PasswordInv, PasswordReport, GeneratedIsKnown, Password!GeneratedIsShown
<1>4. QED BY <1>1, <1>2, <1>3, PTL DEF DispatchSpec

-----------------------------------------------------------------------------
(* groupadm                                                                  *)

(* The groups still to be modified have no answer yet, and no selected group  *)
(* is forgotten on the way.                                                   *)
GroupsUnderWay ==
  /\ step \in {"ReadUser", "SearchAll"} => report.done = {} /\ report.failed = {}
  /\ step = "Modify" => work.todo \intersect (report.done \union report.failed) = {}
  /\ step = "SearchMember" => work.todo = {}
  /\ step \in {"Modify", "SearchMember"} => form.add \union form.remove \subseteq
       work.todo \union report.done \union report.failed \union (Groups \ work.found)

(* No group has half of a member, whether it is still there or not.           *)
MembersWhole == \A g \in Groups : dir.member[g] \in {{}, GroupsAre[g]}

GroupInv ==
  /\ Group!TypeOK
  /\ GroupsUnderWay
  /\ Group!GroupsNamed
  /\ MembersWhole

(* Nothing is modified at first. *)
LEMMA GroupInit ==
  ASSUME Group!Init
  PROVE  GroupInv
<1>1. Group!TypeOK
  <2>1. step = "ReadUser" /\ form \in [add : SUBSET Groups, remove : SUBSET Groups]
    BY DEF Group!Init
  <2>2. dir \in [there : [Groups -> BOOLEAN], member : [Groups -> SUBSET GroupClasses], named : BOOLEAN, changes : Nat]
    <3> DEFINE there == {[g \in Groups |-> TRUE]}
               member == {m \in [Groups -> SUBSET GroupClasses] : \A g \in Groups : m[g] \in {{}, GroupsAre[g]}}
    <3>1. there \subseteq [Groups -> BOOLEAN] /\ member \subseteq [Groups -> SUBSET GroupClasses]
      OBVIOUS
    <3>2. dir \in [there : there, member : member, named : BOOLEAN, changes : {0}]
      BY DEF Group!Init
    <3> HIDE DEF there, member
    <3>3. QED BY <3>1, <3>2
  <2>3. work \in [found : SUBSET Groups, todo : SUBSET Groups, again : BOOLEAN]
    BY DEF Group!Init
  <2>4. report \in [done : SUBSET Groups, failed : SUBSET Groups, error : BOOLEAN]
    BY DEF Group!Init
  <2>5. past \in [modified : SUBSET Groups, lost : BOOLEAN]
    BY DEF Group!Init
  <2>6. QED BY <2>1, <2>2, <2>3, <2>4, <2>5 DEF Group!TypeOK
<1>2. MembersWhole
  BY DEF Group!Init, MembersWhole
<1>3. GroupsUnderWay /\ Group!GroupsNamed
  BY DEF Group!Init, GroupsUnderWay, Group!GroupsNamed
<1>4. QED BY <1>1, <1>2, <1>3 DEF GroupInv

(* Others delete a group, or change the user's membership as a whole.         *)
LEMMA GroupOthers ==
  ASSUME GroupInv, NEW g \in Groups, Group!OtherDeletes(g) \/ Group!OtherChanges(g)
  PROVE  GroupInv'
<1> DEFINE n == dir.changes + 1
           m == GroupsAre[g] \ dir.member[g]
<1>1. n \in Nat /\ m \in {{}, GroupsAre[g]} /\ m \in SUBSET GroupClasses
  BY CommandsAssumption DEF GroupInv, MembersWhole, Group!TypeOK, Group!GroupAssumption
<1>2. dir' = [dir EXCEPT !.there[g] = FALSE, !.changes = n] \/ dir' = [dir EXCEPT !.member[g] = m, !.changes = n]
  BY DEF Group!OtherDeletes, Group!OtherChanges
<1>3. UNCHANGED <<step, form, work, report, past>>
  BY DEF Group!OtherDeletes, Group!OtherChanges
<1> HIDE DEF n, m
<1> DEFINE there == [dir.there EXCEPT ![g] = FALSE]
           member == [dir.member EXCEPT ![g] = m]
<1>4. there \in [Groups -> BOOLEAN] /\ member \in [Groups -> SUBSET GroupClasses]
      /\ \A h \in Groups : member[h] \in {{}, GroupsAre[h]}
  BY <1>1 DEF GroupInv, MembersWhole, Group!TypeOK
<1>5. dir' = [dir EXCEPT !.there = there, !.changes = n] \/ dir' = [dir EXCEPT !.member = member, !.changes = n]
  BY <1>2 DEF GroupInv, Group!TypeOK
<1> HIDE DEF there, member
<1>6. dir' \in [there : [Groups -> BOOLEAN], member : [Groups -> SUBSET GroupClasses], named : BOOLEAN, changes : Nat]
      /\ (dir'.member = dir.member \/ dir'.member = member)
  BY <1>1, <1>4, <1>5 DEF GroupInv, Group!TypeOK
<1>7. MembersWhole'
  BY <1>4, <1>6 DEF GroupInv, MembersWhole
<1>8. QED
  BY <1>3, <1>6, <1>7 DEF GroupInv, Group!TypeOK, GroupsUnderWay, Group!GroupsNamed

(* The steps of the command that send no modification.                        *)
LEMMA GroupReads ==
  ASSUME GroupInv, Group!Redispatch \/ Group!ReadUser \/ Group!SearchAll \/ Group!Modified \/ Group!SearchMember
  PROVE  GroupInv'
<1>1. UNCHANGED <<form, dir>>
  BY DEF Group!Redispatch, Group!ReadUser, Group!SearchAll, Group!Modified, Group!SearchMember
<1>2. CASE Group!Redispatch
  BY <1>1, <1>2 DEF GroupInv, Group!Redispatch, Group!TypeOK, GroupsUnderWay, Group!GroupsNamed, MembersWhole
<1>3. CASE Group!ReadUser
  BY <1>1, <1>3 DEF GroupInv, Group!ReadUser, Group!TypeOK, GroupsUnderWay, Group!GroupsNamed, MembersWhole
<1>4. CASE Group!SearchAll
  <2>1. PICK found \in SUBSET Groups : work' = [work EXCEPT !.found = found, !.todo = form.add \union form.remove]
    BY <1>4 DEF Group!SearchAll
  <2>2. work' \in [found : SUBSET Groups, todo : SUBSET Groups, again : BOOLEAN]
        /\ work'.todo = form.add \union form.remove
    BY <2>1 DEF GroupInv, Group!TypeOK
  <2>3. report' \in [done : SUBSET Groups, failed : SUBSET Groups, error : BOOLEAN]
        /\ report'.done = {} /\ report'.failed = {} /\ past' = past /\ step' = "Modify" /\ report.done = {}
    BY <1>4 DEF GroupInv, Group!SearchAll, Group!TypeOK, GroupsUnderWay
  <2>4. QED BY <1>1, <2>2, <2>3 DEF GroupInv, Group!TypeOK, GroupsUnderWay, Group!GroupsNamed, MembersWhole
<1>5. CASE Group!Modified
  BY <1>1, <1>5 DEF GroupInv, Group!Modified, Group!TypeOK, GroupsUnderWay, Group!GroupsNamed, MembersWhole
<1>6. CASE Group!SearchMember
  <2>1. /\ report' \in [done : SUBSET Groups, failed : SUBSET Groups, error : BOOLEAN]
        /\ report' = report \/ (report'.done = report.done /\ report'.failed = {} /\ report'.error)
        /\ UNCHANGED <<work, past>> /\ step = "SearchMember" /\ step' = "Page"
    BY <1>6 DEF GroupInv, Group!SearchMember, Group!TypeOK
  <2>2. QED BY <1>1, <2>1 DEF GroupInv, Group!TypeOK, GroupsUnderWay, Group!GroupsNamed, MembersWhole
<1>7. QED BY <1>2, <1>3, <1>4, <1>5, <1>6

(* The answers to a modification: those that are not lost are counted as they *)
(* are.                                                                       *)
LEMMA GroupAnswer ==
  ASSUME GroupInv, NEW g \in Groups, Group!Modify(g), step' = "Modify"
  PROVE  /\ report' \in [done : SUBSET Groups, failed : SUBSET Groups, error : BOOLEAN]
         /\ past' \in [modified : SUBSET Groups, lost : BOOLEAN]
         /\ \/ /\ report'.done = report.done \union {g} /\ report'.failed = report.failed
               /\ past'.modified = past.modified \union {g}
            \/ /\ report'.done = report.done /\ report'.failed = report.failed \union {g}
               /\ past'.modified = past.modified \union {g} /\ past'.lost
            \/ /\ report'.done = report.done /\ report'.failed = report.failed \union {g}
               /\ past' = past
         /\ past.lost => past'.lost
<1>1. /\ report \in [done : SUBSET Groups, failed : SUBSET Groups, error : BOOLEAN]
      /\ past \in [modified : SUBSET Groups, lost : BOOLEAN] /\ step = "Modify"
  BY DEF GroupInv, Group!TypeOK, Group!Modify
<1> DEFINE ok == Group!Answered(g, TRUE)
           no == Group!Answered(g, FALSE)
<1>2. /\ ok = [report EXCEPT !.done = report.done \union {g}]
      /\ no = [report EXCEPT !.failed = report.failed \union {g}]
  BY DEF Group!Answered
<1>3. Group!Answered(g, Group!Accepted(g, dir')) \in {ok, no}
  BY DEF Group!Answered
<1>4. \/ report' = ok /\ past' = [past EXCEPT !.modified = past.modified \union {g}]
      \/ report' \in {ok, no} /\ past' = [modified |-> past.modified \union {g}, lost |-> TRUE]
      \/ report' = no /\ past' = past
      \/ Group!Lacks(g) /\ step' = "Error"
  BY <1>3 DEF Group!Modify
<1> DEFINE modified == past.modified \union {g}
<1>5. /\ modified \subseteq Groups
      /\ \/ report' = ok /\ past' = [past EXCEPT !.modified = modified]
         \/ report' \in {ok, no} /\ past' = [modified |-> modified, lost |-> TRUE]
         \/ report' = no /\ past' = past
  BY <1>1, <1>4
<1>6. /\ ok \in [done : SUBSET Groups, failed : SUBSET Groups, error : BOOLEAN]
      /\ no \in [done : SUBSET Groups, failed : SUBSET Groups, error : BOOLEAN]
      /\ ok.done = report.done \union {g} /\ ok.failed = report.failed
      /\ no.done = report.done /\ no.failed = report.failed \union {g}
  BY <1>1, <1>2
<1>7. modified = past.modified \union {g}
  OBVIOUS
<1> HIDE DEF ok, no, modified
<1>8. CASE report' = ok /\ past' = [past EXCEPT !.modified = modified]
  BY <1>1, <1>5, <1>6, <1>7, <1>8
<1>9. CASE report' \in {ok, no} /\ past' = [modified |-> modified, lost |-> TRUE]
  <2>1. past' \in [modified : SUBSET Groups, lost : BOOLEAN] /\ past'.modified = modified /\ past'.lost
    BY <1>5, <1>9
  <2>2. QED BY <1>6, <1>7, <1>9, <2>1
<1>10. CASE report' = no /\ past' = past
  BY <1>1, <1>6, <1>10
<1>11. QED BY <1>5, <1>8, <1>9, <1>10

(* The directory after the answer has all of a member, or none.               *)
LEMMA GroupMembers ==
  ASSUME GroupInv, NEW g \in Groups, Group!Modify(g)
  PROVE  /\ dir' \in [there : [Groups -> BOOLEAN], member : [Groups -> SUBSET GroupClasses], named : BOOLEAN, changes : Nat]
         /\ MembersWhole'
<1> DEFINE m == IF g \in form.add THEN dir.member[g] \union GroupsAre[g] ELSE dir.member[g] \ GroupsAre[g]
           member == [dir.member EXCEPT ![g] = m]
<1>1. m \in {{}, GroupsAre[g]} /\ m \in SUBSET GroupClasses
  BY CommandsAssumption DEF GroupInv, MembersWhole, Group!TypeOK, Group!GroupAssumption
<1>2. dir' = dir \/ dir' = [dir EXCEPT !.member[g] = m]
  BY DEF Group!Modify, Group!Changed, Group!Modlist
<1> HIDE DEF m
<1>3. dir' = dir \/ dir' = [dir EXCEPT !.member = member]
  BY <1>2 DEF GroupInv, Group!TypeOK
<1>4. member \in [Groups -> SUBSET GroupClasses] /\ \A h \in Groups : member[h] \in {{}, GroupsAre[h]}
  BY <1>1 DEF GroupInv, MembersWhole, Group!TypeOK
<1> HIDE DEF member
<1>5. QED BY <1>3, <1>4 DEF GroupInv, MembersWhole, Group!TypeOK

(* The modification of one group, whose answer is a success, an error or no   *)
(* answer at all.                                                              *)
LEMMA GroupModify ==
  ASSUME GroupInv, NEW g \in Groups, Group!Modify(g)
  PROVE  GroupInv'
<1>1. /\ form' = form /\ step = "Modify" /\ g \in work.todo /\ step' \in {"Modify", "Error"}
      /\ work' = [work EXCEPT !.todo = work.todo \ {g}]
  BY DEF Group!Modify
<1>2. /\ work' \in [found : SUBSET Groups, todo : SUBSET Groups, again : BOOLEAN]
      /\ work'.todo = work.todo \ {g} /\ work'.found = work.found
  BY <1>1 DEF GroupInv, Group!TypeOK
<1>3. dir' \in [there : [Groups -> BOOLEAN], member : [Groups -> SUBSET GroupClasses], named : BOOLEAN, changes : Nat]
      /\ MembersWhole'
  BY GroupMembers
<1>4. CASE step' = "Error"
  <2>1. UNCHANGED <<report, past>>
    BY <1>1, <1>4 DEF Group!Modify
  <2>2. QED BY <1>1, <1>2, <1>3, <1>4, <2>1 DEF GroupInv, Group!TypeOK, GroupsUnderWay, Group!GroupsNamed
<1>5. CASE step' = "Modify"
  <2>1. g \notin report.done /\ g \notin report.failed
    BY <1>1 DEF GroupInv, GroupsUnderWay
  <2>2. Group!TypeOK'
    BY <1>1, <1>2, <1>3, <1>5, GroupAnswer DEF GroupInv, Group!TypeOK
  <2>3. report.done \subseteq Groups /\ report.failed \subseteq Groups /\ past.modified \subseteq Groups
    BY DEF GroupInv, Group!TypeOK
  <2>4. \/ /\ report'.done = report.done \union {g} /\ report'.failed = report.failed
           /\ past'.modified = past.modified \union {g}
        \/ /\ report'.done = report.done /\ report'.failed = report.failed \union {g}
           /\ past'.modified = past.modified \union {g} /\ past'.lost
        \/ /\ report'.done = report.done /\ report'.failed = report.failed \union {g}
           /\ past'.modified = past.modified
    BY <1>5, GroupAnswer
  <2>5. past.lost => past'.lost
    BY <1>5, GroupAnswer
  <2>6. GroupsUnderWay'
    BY <1>1, <1>2, <1>5, <2>1, <2>3, <2>4 DEF GroupInv, GroupsUnderWay
  <2>7. Group!GroupsNamed'
    BY <1>5, <2>1, <2>3, <2>4, <2>5 DEF GroupInv, Group!GroupsNamed
  <2>8. QED BY <1>3, <2>2, <2>6, <2>7 DEF GroupInv
<1>6. QED BY <1>1, <1>4, <1>5

(* Every step of groupadm keeps its invariant.                               *)
LEMMA GroupStep ==
  ASSUME GroupInv, [Group!Next]_Group!vars
  PROVE  GroupInv'
<1>1. CASE UNCHANGED Group!vars
  BY <1>1 DEF Group!vars, GroupInv, Group!TypeOK, GroupsUnderWay, Group!GroupsNamed, MembersWhole
<1>2. ASSUME NEW g \in Groups, Group!Skip(g)
      PROVE  GroupInv'
  <2>1. /\ UNCHANGED <<step, form, dir, report, past>> /\ step = "Modify" /\ g \notin work.found
        /\ work' = [work EXCEPT !.todo = work.todo \ {g}]
    BY <1>2 DEF Group!Skip
  <2>2. /\ work' \in [found : SUBSET Groups, todo : SUBSET Groups, again : BOOLEAN]
        /\ work'.todo = work.todo \ {g} /\ work'.found = work.found
    BY <2>1 DEF GroupInv, Group!TypeOK
  <2>3. QED BY <2>1, <2>2 DEF GroupInv, Group!TypeOK, GroupsUnderWay, Group!GroupsNamed, MembersWhole
<1>3. QED
  BY <1>1, <1>2, GroupOthers, GroupReads, GroupModify DEF Group!Next, Group!Others, Group!Command

(* groupadm, for any groups and classes of them: each group is named on one   *)
(* side, none untruly, and none has the user by half of its classes.          *)
THEOREM GroupsReported == DispatchSpec => []GroupReport
<1> DEFINE GInv == command = "groupadm" => GroupInv
<1>1. DispatchInit => GInv
  BY GroupInit DEF DispatchInit
<1>2. GInv /\ [DispatchNext]_all => GInv'
  BY OneCommand, GroupStep
<1>3. GInv => GroupReport
  BY DEF GroupInv, GroupReport, MembersWhole, Group!NoHalfMember
<1>4. QED BY <1>1, <1>2, <1>3, PTL DEF DispatchSpec

-----------------------------------------------------------------------------
(* bulkmod: the list of modifications and what it makes of an entry           *)

(* The operations of the list, each with values that some row has.            *)
LEMMA ModListIs ==
  ASSUME NEW rows \in Seq(Bulk!RowType), NEW op \in DOMAIN Bulk!ModList(rows)
  PROVE  /\ op \in {"add", "delete", "replace"} /\ Bulk!InputErrors(rows) = {}
         /\ Bulk!ModList(rows)[op] = Bulk!ValuesOf(rows, op) /\ Bulk!ValuesOf(rows, op) # {}
         /\ op # "delete" => Bulk!ValuesOf(rows, op) \subseteq Bulk!Values
         /\ Bulk!ValuesOf(rows, op) # {"all"} => Bulk!ValuesOf(rows, op) \subseteq Bulk!Values
<1>1. Bulk!InputErrors(rows) = {}
  BY DEF Bulk!ModList
<1>2. op \in {"add", "delete", "replace"} /\ Bulk!ModList(rows)[op] = Bulk!ValuesOf(rows, op)
      /\ Bulk!ValuesOf(rows, op) # {}
  BY <1>1 DEF Bulk!ModList
<1>3. \A i \in DOMAIN rows : rows[i] \in Bulk!RowType /\ rows[i].av \in Bulk!Values \union {"", "bad"}
  <2>1. \A i \in DOMAIN rows : rows[i] \in Bulk!RowType
    OBVIOUS
  <2>2. QED BY <2>1 DEF Bulk!RowType
<1>4. Bulk!Asked(rows, op) \subseteq Bulk!Values \union {""}
  BY <1>3 DEF Bulk!Asked, Bulk!Sanitized
<1>5. QED BY <1>1, <1>2, <1>4 DEF Bulk!ValuesOf

(* What an entry may have while it is modified, and what is to be put in.     *)
AnyValues == (SUBSET Bulk!Values) \union {Bulk!Refused}
AnyGiven == (SUBSET Bulk!Values) \union {{"all"}}

(* One operation makes of one set of values another: with no values that the  *)
(* rows have not given, and with none at all only if it deletes them.         *)
Follows(after, vals, op, vs) ==
  /\ after \in AnyValues
  /\ after = {} => op = "delete" /\ (vs = {"all"} \/ vs \subseteq vals)
  /\ after # Bulk!Refused => vals # Bulk!Refused /\ after \subseteq vals \union vs
  /\ after # Bulk!Refused /\ op = "delete" => after \subseteq vals

(* One modification of a list, applied to the values of an attribute, gives   *)
(* values that were there or were given, or is refused.                        *)
LEMMA StepIs ==
  ASSUME NEW vals \in AnyValues, NEW vs \in AnyGiven, NEW op \in {"add", "delete", "replace"}, vs # {},
         op # "delete" => vs \subseteq Bulk!Values
  PROVE  Follows(Bulk!Step(vals, op, vs), vals, op, vs)
<1> DEFINE after == Bulk!Step(vals, op, vs)
<1>1. Bulk!Refused # {} /\ ~(Bulk!Refused \subseteq Bulk!Values)
  BY DEF Bulk!Refused, Bulk!Values
<1>2. CASE vals = Bulk!Refused
  <2>1. after = Bulk!Refused
    BY <1>2 DEF Bulk!Step
  <2>2. QED BY <1>1, <1>2, <2>1 DEF Follows, AnyValues
<1>3. CASE vals # Bulk!Refused /\ op = "replace"
  <2>1. after = vs
    BY <1>3 DEF Bulk!Step
  <2>2. QED BY <1>1, <1>3, <2>1 DEF Follows, AnyValues
<1>4. CASE vals # Bulk!Refused /\ op = "add"
  <2>1. after \in {vals \union vs, Bulk!Refused}
    BY <1>4 DEF Bulk!Step
  <2>2. QED BY <1>1, <1>4, <2>1 DEF Follows, AnyValues
<1>5. CASE vals # Bulk!Refused /\ op = "delete"
  <2>1. CASE vs = {"all"}
    <3>1. after \in {{}, Bulk!Refused}
      BY <1>5, <2>1 DEF Bulk!Step
    <3>2. QED BY <1>1, <1>5, <2>1, <3>1 DEF Follows, AnyValues
  <2>2. CASE vs # {"all"}
    <3>1. after = IF vs \subseteq vals THEN vals \ vs ELSE Bulk!Refused
      BY <1>5, <2>2 DEF Bulk!Step
    <3>2. QED BY <1>1, <1>5, <3>1 DEF Follows, AnyValues
  <2>3. QED BY <2>1, <2>2
<1>6. QED BY <1>2, <1>3, <1>4, <1>5 DEF AnyValues

(* The values that the rows give an entry.                                    *)
Given(rows) == UNION {Bulk!ValuesOf(rows, op) : op \in {"add", "replace"}}

(* A deletion of all values, or of such as are in a set.                      *)
Deletes(rows, vals) ==
  /\ "delete" \in DOMAIN Bulk!ModList(rows)
  /\ Bulk!ValuesOf(rows, "delete") = {"all"} \/ Bulk!ValuesOf(rows, "delete") \subseteq vals

(* One operation in its turn.                                                 *)
LEMMA TurnIs ==
  ASSUME form.rows \in Seq(Bulk!RowType), NEW vals \in AnyValues, NEW n
  PROVE  /\ Bulk!InTurn(vals, n) \in AnyValues
         /\ Bulk!InTurn(vals, n) # Bulk!Refused
              => vals # Bulk!Refused /\ Bulk!InTurn(vals, n) \subseteq vals \union Given(form.rows)
         /\ Bulk!InTurn(vals, n) = {} /\ vals # {} => Deletes(form.rows, vals)
<1> DEFINE ops == Bulk!Turn(form.rows, n)
           op == CHOOSE o \in ops : TRUE
           after == Bulk!InTurn(vals, n)
<1>1. CASE ops = {}
  <2>1. after = vals
    BY <1>1 DEF Bulk!InTurn
  <2>2. QED BY <2>1
<1>2. CASE ops # {}
  <2>1. op \in ops
    BY <1>2
  <2>2. op \in DOMAIN Bulk!ModList(form.rows)
    BY <2>1 DEF Bulk!Turn
  <2>3. after = Bulk!Step(vals, op, Bulk!ModList(form.rows)[op])
    BY <1>2 DEF Bulk!InTurn
  <2> HIDE DEF op, after
  <2> DEFINE vs == Bulk!ValuesOf(form.rows, op)
  <2>4. /\ op \in {"add", "delete", "replace"} /\ after = Bulk!Step(vals, op, vs) /\ vs # {}
        /\ op # "delete" => vs \subseteq Bulk!Values /\ vs \subseteq Given(form.rows)
    BY <2>2, <2>3, ModListIs DEF Given
  <2>5. vs \in AnyGiven
    BY <2>2, ModListIs DEF vs, AnyGiven
  <2> HIDE DEF vs
  <2>6. Follows(after, vals, op, vs)
    BY <2>4, <2>5, StepIs
  <2>7. after # Bulk!Refused => vals # Bulk!Refused /\ after \subseteq vals \union Given(form.rows)
    BY <2>4, <2>6 DEF Follows
  <2>8. after = {} => Deletes(form.rows, vals)
    BY <2>2, <2>6 DEF vs, Follows, Deletes
  <2>9. QED BY <2>6, <2>7, <2>8 DEF after, Follows
<1>3. QED BY <1>1, <1>2

(* The modifications in turn: all values are gone only by a deletion, of all  *)
(* values or of such that the entry had or the rows have given it.            *)
LEMMA ChangedIs ==
  ASSUME form.rows \in Seq(Bulk!RowType), NEW vals \in SUBSET Bulk!Values, Bulk!Changed(vals) # Bulk!Refused
  PROVE  /\ Bulk!Changed(vals) \in SUBSET Bulk!Values /\ Bulk!Changed(vals) \subseteq vals \union Given(form.rows)
         /\ Bulk!Changed(vals) = {} /\ vals # {} => Deletes(form.rows, vals \union Given(form.rows))
<1> DEFINE a == Bulk!InTurn(vals, 0)
           b == Bulk!InTurn(a, 1)
           c == Bulk!InTurn(b, 2)
<1>1. c = Bulk!Changed(vals)
  BY DEF Bulk!Changed
<1>2. vals \in AnyValues
  BY DEF AnyValues
<1>3. a \in AnyValues /\ (a # Bulk!Refused => a \subseteq vals \union Given(form.rows))
      /\ (a = {} /\ vals # {} => Deletes(form.rows, vals))
  BY <1>2, TurnIs
<1> HIDE DEF a
<1>4. b \in AnyValues /\ (b # Bulk!Refused => a # Bulk!Refused /\ b \subseteq a \union Given(form.rows))
      /\ (b = {} /\ a # {} => Deletes(form.rows, a))
  BY <1>3, TurnIs
<1> HIDE DEF b
<1>5. c \in AnyValues /\ (c # Bulk!Refused => b # Bulk!Refused /\ c \subseteq b \union Given(form.rows))
      /\ (c = {} /\ b # {} => Deletes(form.rows, b))
  BY <1>4, TurnIs
<1> HIDE DEF c
<1>6. c # Bulk!Refused /\ c \in SUBSET Bulk!Values
  BY <1>1, <1>5 DEF AnyValues
<1>7. \A v \in SUBSET (vals \union Given(form.rows)) :
        Deletes(form.rows, v) => Deletes(form.rows, vals \union Given(form.rows))
  BY DEF Deletes
<1>8. /\ a \subseteq vals \union Given(form.rows) /\ b \subseteq vals \union Given(form.rows)
      /\ c \subseteq vals \union Given(form.rows)
  BY <1>3, <1>4, <1>5, <1>6
<1>9. c = {} /\ vals # {} => Deletes(form.rows, vals \union Given(form.rows))
  BY <1>3, <1>4, <1>5, <1>7, <1>8
<1>10. QED BY <1>1, <1>6, <1>8, <1>9

-----------------------------------------------------------------------------
(* bulkmod: what the server does                                             *)

BulkDirs == [BulkDns -> Bulk!EntryStates]

(* A modification counts as a hit of its entry, and leaves the others.        *)
LEMMA ModifiedIs ==
  ASSUME form.rows \in Seq(Bulk!RowType), NEW d \in BulkDirs, NEW at \in BulkDns, NEW e \in Bulk!Modified(d, at)
  PROVE  /\ e \in BulkDirs /\ \A x \in BulkDns \ {at} : e[x] = d[x]
         /\ e[at].hits = d[at].hits + 1 /\ e[at].vals = Bulk!Changed(d[at].vals)
         /\ Bulk!Changed(d[at].vals) # Bulk!Refused
<1> DEFINE vals == Bulk!Changed(d[at].vals)
           hits == d[at].hits + 1
           entry == [d[at] EXCEPT !.vals = vals, !.hits = hits]
<1>1. d[at] \in Bulk!EntryStates /\ d[at].vals \in SUBSET Bulk!Values /\ d[at].hits \in Nat
  BY DEF BulkDirs, Bulk!EntryStates
<1>2. vals # Bulk!Refused /\ e = [d EXCEPT ![at].vals = vals, ![at].hits = hits]
  BY DEF Bulk!Modified
<1>3. vals \in SUBSET Bulk!Values /\ hits \in Nat
  <2>1. hits \in Nat
    BY <1>1
  <2> DEFINE old == d[at].vals
  <2>2. old \in SUBSET Bulk!Values /\ Bulk!Changed(old) # Bulk!Refused
    BY <1>1, <1>2
  <2> HIDE DEF old
  <2>3. Bulk!Changed(old) \in SUBSET Bulk!Values
    BY <2>2, ChangedIs
  <2>4. QED BY <2>1, <2>3 DEF old
<1>4. hits = d[at].hits + 1 /\ vals = Bulk!Changed(d[at].vals)
  OBVIOUS
<1> HIDE DEF vals, hits
<1>5. e = [d EXCEPT ![at] = entry]
  BY <1>2 DEF BulkDirs
<1>6. entry \in Bulk!EntryStates /\ entry.vals = vals /\ entry.hits = hits
  BY <1>1, <1>3 DEF Bulk!EntryStates
<1> HIDE DEF entry
<1>7. QED BY <1>2, <1>4, <1>5, <1>6 DEF BulkDirs

(* Copies and moves go to the new superior; what is moved keeps its hits.     *)
LEMMA TransferIs ==
  ASSUME Bulk!TypeOK, form.to \in Targets, work.cur \in Bulk!Results,
         NEW d \in BulkDirs, NEW at \in BulkDns, NEW e \in Bulk!Copied(d, at) \union Bulk!Moved(d, at)
  PROVE  /\ e \in BulkDirs /\ Bulk!NewDn(at) \in BulkDns
         /\ \A x \in BulkDns \ {at, Bulk!NewDn(at)} : e[x] = d[x]
         /\ e[Bulk!NewDn(at)].hits \in {0, d[at].hits}
         /\ e \in Bulk!Copied(d, at) => e[Bulk!NewDn(at)].hits = 0
         /\ Bulk!NewDn(at) # at => e[at] \in {d[at], Bulk!Absent}
<1> DEFINE to == Bulk!NewDn(at)
<1>1. to \in BulkDns
  BY CommandsAssumption DEF Bulk!NewDn, Bulk!BulkAssumption
<1> HIDE DEF to
<1>2. Bulk!Absent \in Bulk!EntryStates /\ d[at] \in Bulk!EntryStates
  BY DEF Bulk!Absent, Bulk!EntryStates, BulkDirs
<1>3. CASE e \in Bulk!Copied(d, at)
  <2> DEFINE entry == [is |-> "new", vals |-> work.cur.vals, hits |-> 0]
  <2>1. e = [d EXCEPT ![to] = entry]
    BY <1>3 DEF Bulk!Copied, to
  <2>2. entry \in Bulk!EntryStates /\ entry.hits = 0
    BY DEF Bulk!EntryStates, Bulk!Results
  <2> HIDE DEF entry
  <2>3. QED BY <1>1, <1>2, <2>1, <2>2 DEF BulkDirs, to
<1>4. CASE e \in Bulk!Moved(d, at) /\ e \notin Bulk!Copied(d, at)
  <2> DEFINE is == IF to = at THEN d[at].is ELSE "new"
             entry == [d[at] EXCEPT !.is = is]
  <2>1. is \in {"none", "old", "new"}
    BY <1>2 DEF Bulk!EntryStates
  <2>2. e = [d EXCEPT ![at] = Bulk!Absent, ![to] = [d[at] EXCEPT !.is = IF to = at THEN @ ELSE "new"]]
    BY <1>4 DEF Bulk!Moved, to
  <2>3. e = [d EXCEPT ![at] = Bulk!Absent, ![to] = entry]
    BY <1>2, <2>2 DEF Bulk!EntryStates
  <2> HIDE DEF is
  <2>4. entry \in Bulk!EntryStates /\ entry.hits = d[at].hits
    BY <1>2, <2>1 DEF Bulk!EntryStates
  <2> HIDE DEF entry
  <2>5. QED BY <1>4, <1>1, <1>2, <2>3, <2>4 DEF BulkDirs, to
<1>5. QED BY <1>3, <1>4

-----------------------------------------------------------------------------
(* bulkmod: its invariant                                                    *)

(* What is applied are the rows that were confirmed, as the hidden fields     *)
(* have kept them, and there is something to do.                              *)
BulkConfirmed ==
  /\ step \in {"Confirm", "Results", "Modify", "Move"}
       => form.rows = [i \in DOMAIN past.confirmed |->
                         [op |-> past.confirmed[i].op, av |-> Bulk!Hidden(past.confirmed[i].av)]]
  /\ step \in {"Results", "Modify", "Move"} => ~Bulk!NothingToDo
  /\ step = "Move" => form.to # Bulk!Stay

(* A result is of an entry below the search base that was sent, there is one  *)
(* for an entry, and the one in hand is no longer in the queue.               *)
BulkResults ==
  /\ \A r \in work.queue : r.dn \in work.sent /\ r.dn[2] \in Below
  /\ \A r, q \in work.queue : r.dn = q.dn => r = q
  /\ step \in {"Modify", "Move"} =>
       /\ work.cur \in Bulk!Results /\ work.cur.dn \in work.sent /\ work.cur.dn[2] \in Below
       /\ \A r \in work.queue : r.dn # work.cur.dn

(* An entry that was modified was sent, or is out of the reach of the search; *)
(* one that is waiting, or in hand to be modified, was not modified yet.      *)
BulkHits ==
  (~past.lost /\ ~work.again /\ (form.cp \/ form.to \notin Below)) =>
    /\ \A x \in BulkDns : dir[x].hits <= 1 /\ (dir[x].hits > 0 => x \in work.sent \/ x[2] \notin Below)
    /\ \A r \in work.queue : dir[r.dn].hits = 0
    /\ step = "Modify" => dir[work.cur.dn].hits = 0

BulkInv == Bulk!TypeOK /\ BulkConfirmed /\ Bulk!ReportBounds /\ BulkResults /\ BulkHits

(* A write that was answered with success was done, and one that was done is  *)
(* answered so unless the answer is lost; then it may be done twice.           *)
LEMMA WritesIs ==
  ASSUME Bulk!TypeOK, NEW write, NEW at, NEW w \in Bulk!Writes(write, at)
  PROVE  /\ w.ok \in BOOLEAN /\ w.lost \in BOOLEAN /\ w.done \in {0, 1, 2}
         /\ w.ok => w.done > 0
         /\ ~w.lost => (w.ok <=> w.done > 0)
         /\ \/ w.dir = dir
            \/ w.dir \in Bulk!DoneTo(write, dir, at)
            \/ w.lost /\ \E d \in Bulk!DoneTo(write, dir, at) : w.dir \in Bulk!DoneTo(write, d, at)
<1> DEFINE once == Bulk!DoneTo(write, dir, at)
           twice(d) == Bulk!DoneTo(write, d, at)
<1>1. \/ w = Bulk!Answer(dir, FALSE, 0, FALSE)
      \/ \E d \in once : \/ w = Bulk!Answer(d, TRUE, 1, FALSE)
                         \/ w = Bulk!Answer(d, FALSE, 1, TRUE)
                         \/ \E e \in twice(d) : w = Bulk!Answer(e, TRUE, 2, TRUE)
  BY DEF Bulk!Writes
<1> HIDE DEF once, twice
<1>5. ASSUME NEW d \in once, w = Bulk!Answer(d, TRUE, 1, FALSE) \/ w = Bulk!Answer(d, FALSE, 1, TRUE)
      PROVE  /\ w.ok \in BOOLEAN /\ w.lost \in BOOLEAN /\ w.done \in {0, 1, 2} /\ w.done > 0
             /\ ~w.lost => w.ok
             /\ w.dir \in once
  <2>1. /\ w.done = 1 /\ w.dir \in once
        /\ \/ w.ok = TRUE /\ w.lost = FALSE
           \/ w.ok = FALSE /\ w.lost = TRUE
    BY <1>5 DEF Bulk!Answer
  <2>2. w.done \in {0, 1, 2} /\ w.done > 0
    BY <2>1
  <2>3. QED BY <2>1, <2>2, Zenon
<1>6. ASSUME NEW d \in once, NEW e \in twice(d), w = Bulk!Answer(e, TRUE, 2, TRUE)
      PROVE  /\ w.ok \in BOOLEAN /\ w.lost \in BOOLEAN /\ w.done \in {0, 1, 2} /\ w.done > 0
             /\ w.lost /\ w.dir \in twice(d)
  <2>1. w.done = 2 /\ w.dir \in twice(d) /\ w.ok = TRUE /\ w.lost = TRUE
    BY <1>6 DEF Bulk!Answer
  <2>2. w.done \in {0, 1, 2} /\ w.done > 0
    BY <2>1
  <2>3. QED BY <2>1, <2>2, Zenon
<1>7. CASE w = Bulk!Answer(dir, FALSE, 0, FALSE)
  <2>1. w.ok = FALSE /\ w.lost = FALSE /\ w.done = 0 /\ w.dir = dir
    BY <1>7 DEF Bulk!Answer
  <2>2. w.done \in {0, 1, 2} /\ ~(w.done > 0)
    BY <2>1
  <2>3. QED BY <2>1, <2>2, Zenon
<1>8. QED BY <1>1, <1>5, <1>6, <1>7, Zenon DEF once, twice

(* What a write adds to the counters.                                         *)
LEMMA OneIs ==
  ASSUME NEW ok \in BOOLEAN, NEW done \in {0, 1, 2}, ok => done > 0
  PROVE  /\ Bulk!One(ok) \in {0, 1} /\ Bulk!One(done > 0) \in {0, 1}
         /\ Bulk!One(~ok) = 1 - Bulk!One(ok)
         /\ Bulk!One(ok) <= Bulk!One(done > 0)
         /\ (ok <=> done > 0) => Bulk!One(done > 0) = Bulk!One(ok)
<1>1. CASE ok
  <2>1. Bulk!One(ok) = 1 /\ Bulk!One(~ok) = 0 /\ Bulk!One(done > 0) = 1
    BY <1>1 DEF Bulk!One
  <2>2. QED BY <2>1
<1>2. CASE ~ok /\ done > 0
  <2>1. Bulk!One(ok) = 0 /\ Bulk!One(~ok) = 1 /\ Bulk!One(done > 0) = 1
    BY <1>2 DEF Bulk!One
  <2>2. QED BY <1>2, <2>1
<1>3. CASE ~ok /\ ~(done > 0)
  <2>1. Bulk!One(ok) = 0 /\ Bulk!One(~ok) = 1 /\ Bulk!One(done > 0) = 0
    BY <1>3 DEF Bulk!One
  <2>2. QED BY <2>1
<1>4. QED BY <1>1, <1>2, <1>3

(* To begin with there is an input form.                                      *)
LEMMA BulkInit ==
  ASSUME Bulk!Init
  PROVE  BulkInv
<1>1. step = "Input" /\ dir \in BulkStarts /\ work = Bulk!NoWork /\ report = Bulk!NoReport /\ past = Bulk!NoPast
  BY DEF Bulk!Init
<1>2. form \in [rows : Seq(Bulk!RowType), to : Targets \union {Bulk!Stay}, cp : BOOLEAN, filter : {"all", "v"}]
  BY CommandsAssumption DEF Bulk!Init, Bulk!BulkAssumption, CommandsAssumption
<1>3. dir \in BulkDirs /\ \A x \in BulkDns : dir[x].hits = 0
  BY <1>1, CommandsAssumption DEF Bulk!BulkAssumption, CommandsAssumption, BulkDirs
<1>4. work \in [sent : SUBSET BulkDns, queue : SUBSET Bulk!Results, cur : Bulk!Results \union {Bulk!NoResult},
                cut : BOOLEAN, again : BOOLEAN] /\ work.queue = {}
  BY <1>1 DEF Bulk!NoWork
<1>5. /\ report \in [modOk : Nat, modErr : Nat, renOk : Nat, renErr : Nat]
      /\ report.modOk = 0 /\ report.modErr = 0 /\ report.renOk = 0 /\ report.renErr = 0
  BY <1>1 DEF Bulk!NoReport
<1>6. past \in [confirmed : Seq(Bulk!RowType), mods : Nat, moves : Nat, lost : BOOLEAN]
      /\ past.mods = 0 /\ past.moves = 0
  <2>1. <<>> \in Seq(Bulk!RowType)
    OBVIOUS
  <2>2. QED BY <1>1, <2>1 DEF Bulk!NoPast
<1>7. Bulk!TypeOK
  BY <1>1, <1>2, <1>3, <1>4, <1>5, <1>6 DEF Bulk!TypeOK, BulkDirs
<1>8. Bulk!ReportBounds
  BY <1>5, <1>6 DEF Bulk!ReportBounds
<1>9. BulkConfirmed /\ BulkResults /\ BulkHits
  BY <1>1, <1>3, <1>4 DEF BulkConfirmed, BulkResults, BulkHits
<1>10. QED BY <1>7, <1>8, <1>9 DEF BulkInv

(* A row more or less is a list of rows.                                      *)
LEMMA RowsStay ==
  ASSUME NEW rows \in Seq(Bulk!RowType), NEW i \in DOMAIN rows
  PROVE  Bulk!InsertRow(rows, i) \in Seq(Bulk!RowType) /\ Bulk!RemoveRow(rows, i) \in Seq(Bulk!RowType)
<1>1. i \in 1..Len(rows) /\ Len(rows) \in Nat
  OBVIOUS
<1>2. rows[i] \in Bulk!RowType
  OBVIOUS
<1> DEFINE row == [rows[i] EXCEPT !.av = ""]
<1>3. row \in Bulk!RowType
  BY <1>2 DEF Bulk!RowType
<1> HIDE DEF row
<1>4. Bulk!InsertRow(rows, i) = IF Len(rows) < MaxRows THEN Bulk!InsertAt(rows, i + 1, row) ELSE rows
  BY DEF Bulk!InsertRow, row
<1>5. Bulk!InsertAt(rows, i + 1, row) \in Seq(Bulk!RowType)
  BY <1>1, <1>3 DEF Bulk!InsertAt
<1>6. Bulk!RemoveAt(rows, i) \in Seq(Bulk!RowType)
  BY <1>1 DEF Bulk!RemoveAt
<1>7. QED BY <1>4, <1>5, <1>6 DEF Bulk!RemoveRow

(* A page with other rows.                                                    *)
LEMMA BulkShow ==
  ASSUME BulkInv, NEW rows \in Seq(Bulk!RowType), Bulk!ShowInput(rows), UNCHANGED <<dir, work, report, past>>
  PROVE  BulkInv'
<1>1. /\ form' \in [rows : Seq(Bulk!RowType), to : Targets \union {Bulk!Stay}, cp : BOOLEAN, filter : {"all", "v"}]
      /\ form'.to = form.to /\ form'.cp = form.cp /\ step' = "Input"
  BY DEF BulkInv, Bulk!TypeOK, Bulk!ShowInput
<1>2. QED BY <1>1 DEF BulkInv, Bulk!TypeOK, BulkConfirmed, Bulk!ReportBounds, BulkResults, BulkHits

(* The pages before "Apply" change nothing but the form.                      *)
LEMMA BulkPages ==
  ASSUME BulkInv, Bulk!Correct \/ Bulk!Cancel \/ Bulk!Confirm
  PROVE  BulkInv'
<1>1. form.rows \in Seq(Bulk!RowType)
  BY DEF BulkInv, Bulk!TypeOK
<1>2. CASE Bulk!Correct
  <2>1. UNCHANGED <<dir, work, report, past>>
    BY <1>2 DEF Bulk!Correct
  <2>2. PICK rows : Bulk!ShowInput(rows) /\ \/ rows = form.rows
                                             \/ \E i \in DOMAIN form.rows : \/ rows = Bulk!InsertRow(form.rows, i)
                                                                            \/ rows = Bulk!RemoveRow(form.rows, i)
    BY <1>2 DEF Bulk!Correct
  <2>3. rows \in Seq(Bulk!RowType)
    BY <1>1, <2>2, RowsStay
  <2>4. QED BY <2>1, <2>2, <2>3, BulkShow
<1>3. CASE Bulk!Cancel
  BY <1>3 DEF Bulk!Cancel, BulkInv, Bulk!TypeOK, BulkConfirmed, Bulk!ReportBounds, BulkResults, BulkHits
<1>4. CASE Bulk!Confirm
  <2> DEFINE rows == [i \in DOMAIN form.rows |-> [op |-> form.rows[i].op, av |-> Bulk!Hidden(form.rows[i].av)]]
  <2>1. form' = [form EXCEPT !.rows = rows] /\ past' = [past EXCEPT !.confirmed = form.rows]
        /\ step' = "Confirm" /\ UNCHANGED <<dir, work, report>>
    BY <1>4 DEF Bulk!Confirm
  <2>2. rows \in Seq(Bulk!RowType)
    <3>1. \A i \in DOMAIN form.rows : form.rows[i] \in Bulk!RowType
      BY <1>1
    <3>2. \A i \in DOMAIN form.rows : rows[i] \in Bulk!RowType
      BY <3>1 DEF Bulk!RowType, Bulk!Hidden, Bulk!Values
    <3>3. DOMAIN form.rows = 1..Len(form.rows) /\ Len(form.rows) \in Nat
      BY <1>1
    <3>4. rows = [i \in DOMAIN form.rows |-> rows[i]]
      OBVIOUS
    <3> HIDE DEF rows
    <3>5. rows \in [1..Len(form.rows) -> Bulk!RowType]
      BY <3>2, <3>3, <3>4
    <3>6. QED BY <3>3, <3>5
  <2> HIDE DEF rows
  <2>3. /\ form' \in [rows : Seq(Bulk!RowType), to : Targets \union {Bulk!Stay}, cp : BOOLEAN, filter : {"all", "v"}]
        /\ form'.to = form.to /\ form'.cp = form.cp /\ form'.rows = rows
    BY <2>1, <2>2 DEF BulkInv, Bulk!TypeOK
  <2>4. /\ past' \in [confirmed : Seq(Bulk!RowType), mods : Nat, moves : Nat, lost : BOOLEAN]
        /\ past'.confirmed = form.rows /\ past'.mods = past.mods /\ past'.moves = past.moves
    BY <1>1, <2>1 DEF BulkInv, Bulk!TypeOK
  <2>5. past'.lost = past.lost
    BY <2>1 DEF BulkInv, Bulk!TypeOK
  <2>6. BulkConfirmed'
    BY <2>1, <2>3, <2>4 DEF BulkConfirmed, rows
  <2>7. QED BY <2>1, <2>3, <2>4, <2>5, <2>6 DEF BulkInv, Bulk!TypeOK, Bulk!ReportBounds, BulkResults, BulkHits
<1>5. QED BY <1>2, <1>3, <1>4

(* The command begins: counters, history and search anew.                     *)
LEMMA BulkBegins ==
  ASSUME BulkInv, Bulk!Apply \/ Bulk!ServerDown
  PROVE  BulkInv'
<1>1. CASE Bulk!ServerDown /\ step' = "Done" /\ UNCHANGED <<form, dir, work, report, past>>
  BY <1>1 DEF BulkInv, Bulk!TypeOK, BulkConfirmed, Bulk!ReportBounds, BulkResults, BulkHits
<1>2. ASSUME NEW again \in BOOLEAN, Bulk!Begin(again), form' = form, step \in {"Confirm", "Results"},
             ~Bulk!NothingToDo
      PROVE  BulkInv'
  <2>1. /\ step' = "Results" /\ work' = [Bulk!NoWork EXCEPT !.again = again] /\ report' = Bulk!NoReport
        /\ past' = [Bulk!NoPast EXCEPT !.confirmed = past.confirmed]
    BY <1>2 DEF Bulk!Begin
  <2>2. dir' \in BulkDirs /\ (~again => \A x \in BulkDns : dir'[x].hits = 0)
    <3>1. \A x \in BulkDns : dir[x] \in Bulk!EntryStates
      BY DEF BulkInv, Bulk!TypeOK
    <3> DEFINE now(x) == IF dir[x] = Bulk!Absent THEN Bulk!Absent ELSE
                           [is |-> "old", vals |-> dir[x].vals, hits |-> IF again THEN dir[x].hits ELSE 0]
    <3>2. ASSUME NEW x \in BulkDns
          PROVE  now(x) \in Bulk!EntryStates /\ (~again => now(x).hits = 0)
      <4>1. dir[x].vals \in SUBSET Bulk!Values /\ dir[x].hits \in Nat
        BY <3>1 DEF Bulk!EntryStates
      <4> DEFINE hits == IF again THEN dir[x].hits ELSE 0
      <4>2. hits \in Nat /\ (~again => hits = 0)
        BY <4>1
      <4>3. now(x) = Bulk!Absent \/ now(x) = [is |-> "old", vals |-> dir[x].vals, hits |-> hits]
        OBVIOUS
      <4> HIDE DEF hits, now
      <4>4. QED BY <4>1, <4>2, <4>3 DEF Bulk!EntryStates, Bulk!Absent
    <3>3. dir' = [x \in BulkDns |-> now(x)]
      BY <1>2 DEF Bulk!Begin
    <3> HIDE DEF now
    <3>4. QED BY <3>2, <3>3 DEF BulkDirs
  <2>3. /\ work' \in [sent : SUBSET BulkDns, queue : SUBSET Bulk!Results, cur : Bulk!Results \union {Bulk!NoResult},
                      cut : BOOLEAN, again : BOOLEAN]
        /\ work'.queue = {}
    BY <2>1 DEF Bulk!NoWork
  <2>4. work'.again = again
    BY <2>1 DEF Bulk!NoWork
  <2>5. /\ report' \in [modOk : Nat, modErr : Nat, renOk : Nat, renErr : Nat]
        /\ report'.modOk = 0 /\ report'.modErr = 0 /\ report'.renOk = 0 /\ report'.renErr = 0
    BY <2>1 DEF Bulk!NoReport
  <2>6. past' \in [confirmed : Seq(Bulk!RowType), mods : Nat, moves : Nat, lost : BOOLEAN]
        /\ past'.mods = 0 /\ past'.moves = 0 /\ past'.confirmed = past.confirmed
    BY <2>1 DEF Bulk!NoPast, BulkInv, Bulk!TypeOK
  <2>7. Bulk!TypeOK'
    BY <1>2, <2>1, <2>2, <2>3, <2>5, <2>6 DEF BulkInv, Bulk!TypeOK, BulkDirs
  <2>8. Bulk!ReportBounds'
    BY <2>5, <2>6 DEF Bulk!ReportBounds
  <2>9. BulkConfirmed'
    BY <1>2, <2>1, <2>6 DEF BulkInv, BulkConfirmed, Bulk!NothingToDo
  <2>10. BulkResults' /\ BulkHits'
    BY <2>1, <2>2, <2>3, <2>4 DEF BulkResults, BulkHits
  <2>11. QED BY <2>7, <2>8, <2>9, <2>10 DEF BulkInv
<1>3. CASE Bulk!Apply
  BY <1>2, <1>3 DEF Bulk!Apply
<1>4. CASE Bulk!ServerDown
  BY <1>1, <1>2, <1>4 DEF Bulk!ServerDown, BulkInv, BulkConfirmed
<1>5. QED BY <1>3, <1>4

(* The search: a result comes in, is taken, or there is none any more.        *)
LEMMA BulkSearches ==
  ASSUME BulkInv, \/ Bulk!TakeResult \/ Bulk!SearchDone \/ Bulk!SearchFails
                  \/ \E at \in BulkDns : Bulk!ServerSends(at)
  PROVE  BulkInv'
<1>1. CASE Bulk!SearchDone \/ Bulk!SearchFails
  BY <1>1 DEF Bulk!SearchDone, Bulk!SearchFails, BulkInv, Bulk!TypeOK, BulkConfirmed, Bulk!ReportBounds,
              BulkResults, BulkHits
<1>2. ASSUME NEW at \in BulkDns, Bulk!ServerSends(at)
      PROVE  BulkInv'
  <2> DEFINE new == [dn |-> at, vals |-> dir[at].vals]
             sent1 == work.sent \union {at}
             queue1 == work.queue \union {new}
  <2>1. /\ work' = [work EXCEPT !.sent = sent1, !.queue = queue1] /\ UNCHANGED <<step, form, dir, report, past>>
        /\ at \notin work.sent /\ at[2] \in Below
    BY <1>2 DEF Bulk!ServerSends, Bulk!Found, BulkInv, Bulk!TypeOK
  <2>2. new \in Bulk!Results /\ new.dn = at
    BY DEF BulkInv, Bulk!TypeOK, Bulk!Results, Bulk!EntryStates
  <2>3. sent1 \in SUBSET BulkDns /\ queue1 \in SUBSET Bulk!Results
    BY <2>2 DEF BulkInv, Bulk!TypeOK
  <2>4. \A x \in work.sent : x \in sent1
    OBVIOUS
  <2>5. at \in sent1 /\ \A r \in queue1 : r \in work.queue \/ r = new
    OBVIOUS
  <2> HIDE DEF new, sent1, queue1
  <2>6. /\ work' \in [sent : SUBSET BulkDns, queue : SUBSET Bulk!Results, cur : Bulk!Results \union {Bulk!NoResult},
                      cut : BOOLEAN, again : BOOLEAN]
        /\ work'.sent = sent1 /\ work'.queue = queue1 /\ work'.cur = work.cur
    BY <2>1, <2>3 DEF BulkInv, Bulk!TypeOK
  <2>7. work'.again = work.again
    BY <2>1 DEF BulkInv, Bulk!TypeOK
  <2>8. Bulk!TypeOK' /\ Bulk!ReportBounds' /\ BulkConfirmed'
    BY <2>1, <2>6 DEF BulkInv, Bulk!TypeOK, Bulk!ReportBounds, BulkConfirmed, Bulk!NothingToDo
  <2>9. BulkResults'
    BY <2>1, <2>2, <2>4, <2>5, <2>6 DEF BulkInv, BulkResults
  <2>10. BulkHits'
    <3> SUFFICES ASSUME ~past.lost, ~work.again, form.cp \/ form.to \notin Below
                 PROVE  /\ \A x \in BulkDns : dir[x].hits <= 1 /\ (dir[x].hits > 0 => x \in sent1 \/ x[2] \notin Below)
                        /\ \A r \in queue1 : dir[r.dn].hits = 0
                        /\ step = "Modify" => dir[work.cur.dn].hits = 0
      BY <2>1, <2>6, <2>7 DEF BulkHits
    <3>1. dir[at].hits \in Nat
      BY DEF BulkInv, Bulk!TypeOK, Bulk!EntryStates
    <3>2. dir[at].hits = 0
      BY <2>1, <3>1 DEF BulkInv, BulkHits
    <3>3. QED BY <2>2, <2>4, <2>5, <3>2 DEF BulkInv, BulkHits
  <2>11. QED BY <2>8, <2>9, <2>10 DEF BulkInv
<1>3. CASE Bulk!TakeResult
  <2>1. PICK r \in work.queue : work' = [work EXCEPT !.queue = @ \ {r}, !.cur = r]
    BY <1>3 DEF Bulk!TakeResult
  <2>2. UNCHANGED <<form, dir, report, past>> /\ step = "Results"
        /\ step' = IF DOMAIN Bulk!ModList(form.rows) = {} THEN "Move" ELSE "Modify"
    BY <1>3 DEF Bulk!TakeResult
  <2>3. /\ work' \in [sent : SUBSET BulkDns, queue : SUBSET Bulk!Results, cur : Bulk!Results \union {Bulk!NoResult},
                      cut : BOOLEAN, again : BOOLEAN]
        /\ work'.sent = work.sent /\ work'.queue = work.queue \ {r} /\ work'.cur = r /\ r \in Bulk!Results
    BY <2>1 DEF BulkInv, Bulk!TypeOK
  <2>4. work'.again = work.again
    BY <2>1 DEF BulkInv, Bulk!TypeOK
  <2>5. Bulk!TypeOK' /\ Bulk!ReportBounds'
    BY <2>2, <2>3 DEF BulkInv, Bulk!TypeOK, Bulk!ReportBounds
  <2>6. BulkConfirmed'
    BY <2>2 DEF BulkInv, BulkConfirmed, Bulk!NothingToDo
  <2>7. BulkResults' /\ BulkHits'
    BY <2>2, <2>3, <2>4 DEF BulkInv, BulkResults, BulkHits
  <2>8. QED BY <2>5, <2>6, <2>7 DEF BulkInv
<1>4. QED BY <1>1, <1>2, <1>3

(* A write leaves the search as it is, or cuts it off. *)
LEMMA CutIs ==
  ASSUME BulkInv, NEW lost \in BOOLEAN
  PROVE  /\ Bulk!Cut(lost) \in [sent : SUBSET BulkDns, queue : SUBSET Bulk!Results,
                                cur : Bulk!Results \union {Bulk!NoResult}, cut : BOOLEAN, again : BOOLEAN]
         /\ Bulk!Cut(lost).sent = work.sent /\ Bulk!Cut(lost).queue \subseteq work.queue
         /\ Bulk!Cut(lost).cur = work.cur
         /\ Bulk!Cut(lost).again <=> work.again
<1>1. CASE lost
  BY <1>1 DEF Bulk!Cut, BulkInv, Bulk!TypeOK
<1>2. CASE ~lost
  BY <1>2 DEF Bulk!Cut, BulkInv, Bulk!TypeOK
<1>3. QED BY <1>1, <1>2

(* What a modification, a copy or a move makes of the directory, once or      *)
(* twice, leaves it a directory.                                              *)
LEMMA BulkWrites ==
  ASSUME BulkInv, NEW write \in {"modify", "copy", "move"}, write # "modify" => form.to \in Targets,
         work.cur \in Bulk!Results, NEW w \in Bulk!Writes(write, work.cur.dn)
  PROVE  w.dir \in BulkDirs
<1> DEFINE at == work.cur.dn
<1>1. at \in BulkDns /\ dir \in BulkDirs /\ form.rows \in Seq(Bulk!RowType) /\ Bulk!TypeOK
  BY DEF BulkInv, Bulk!TypeOK, Bulk!Results, BulkDirs
<1> HIDE DEF at
<1>2. ASSUME NEW d \in BulkDirs, NEW e \in Bulk!DoneTo(write, d, at)
      PROVE  e \in BulkDirs
  <2>1. CASE write = "modify"
    <3>1. e \in Bulk!Modified(d, at)
      BY <1>2, <2>1 DEF Bulk!DoneTo
    <3>2. QED BY <1>1, <3>1, ModifiedIs
  <2>2. CASE write # "modify"
    <3>1. e \in Bulk!Copied(d, at) \union Bulk!Moved(d, at)
      BY <1>2, <2>2 DEF Bulk!DoneTo
    <3>2. QED BY <1>1, <2>2, <3>1, TransferIs
  <2>3. QED BY <2>1, <2>2
<1>3. \/ w.dir = dir
      \/ w.dir \in Bulk!DoneTo(write, dir, at)
      \/ \E d \in Bulk!DoneTo(write, dir, at) : w.dir \in Bulk!DoneTo(write, d, at)
  BY <1>1, WritesIs DEF at
<1>4. QED BY <1>1, <1>2, <1>3

(* A modification keeps the invariant: the entry in hand had no hit.          *)
LEMMA BulkModify ==
  ASSUME BulkInv, Bulk!Modify
  PROVE  BulkInv'
<1> DEFINE at == work.cur.dn
<1>1. step = "Modify" /\ form' = form /\ step' = IF form.to # Bulk!Stay THEN "Move" ELSE "Results"
  BY DEF Bulk!Modify
<1>2. /\ work.cur \in Bulk!Results /\ at \in BulkDns /\ at \in work.sent /\ at[2] \in Below
      /\ \A r \in work.queue : r.dn # at
  BY <1>1 DEF BulkInv, BulkResults, Bulk!Results
<1>3. PICK w \in Bulk!Writes("modify", at) :
        /\ dir' = w.dir /\ work' = Bulk!Cut(w.lost) /\ report' = Bulk!CountModify(w.ok)
        /\ past' = [past EXCEPT !.mods = @ + Bulk!One(w.done > 0), !.lost = @ \/ w.lost]
  BY DEF Bulk!Modify, Bulk!Modifications
<1>4. Bulk!TypeOK /\ form.rows \in Seq(Bulk!RowType) /\ dir \in BulkDirs
  BY DEF BulkInv, Bulk!TypeOK, BulkDirs
<1> DEFINE ok == w.ok
           done == w.done
           lost == w.lost
<1>5. /\ ok \in BOOLEAN /\ lost \in BOOLEAN /\ done \in {0, 1, 2} /\ (ok => done > 0)
      /\ ~lost => (ok <=> done > 0)
      /\ ~lost => w.dir = dir \/ w.dir \in Bulk!Modified(dir, at)
  <2>1. Bulk!DoneTo("modify", dir, at) = Bulk!Modified(dir, at)
    BY DEF Bulk!DoneTo
  <2>2. QED BY <1>3, <1>4, <2>1, WritesIs
<1>6. dir' \in BulkDirs
  BY <1>2, <1>3, BulkWrites
<1>7. /\ report' = [report EXCEPT !.modOk = @ + Bulk!One(ok), !.modErr = @ + Bulk!One(~ok)]
      /\ past' = [past EXCEPT !.mods = @ + Bulk!One(done > 0), !.lost = @ \/ lost]
      /\ work' = Bulk!Cut(lost)
  BY <1>3 DEF Bulk!CountModify
<1> HIDE DEF at, ok, done, lost
<1> DEFINE n == report.modOk + Bulk!One(ok)
           m == report.modErr + Bulk!One(~ok)
           k == past.mods + Bulk!One(done > 0)
           gone == past.lost \/ lost
<1>8. /\ report.modOk \in Nat /\ report.modErr \in Nat /\ past.mods \in Nat /\ past.lost \in BOOLEAN
      /\ report.modOk <= past.mods /\ past.mods <= report.modOk + report.modErr
      /\ ~past.lost => past.mods = report.modOk
  BY DEF BulkInv, Bulk!TypeOK, Bulk!ReportBounds
<1>9. n \in Nat /\ m \in Nat /\ k \in Nat /\ n <= k /\ k <= n + m /\ (~gone => k = n)
  <2> DEFINE x == Bulk!One(ok)
             y == Bulk!One(~ok)
             z == Bulk!One(done > 0)
  <2>1. x \in {0, 1} /\ z \in {0, 1} /\ y = 1 - x /\ x <= z /\ (~gone => z = x)
    BY <1>5, OneIs
  <2>2. n = report.modOk + x /\ m = report.modErr + y /\ k = past.mods + z /\ (~gone => ~past.lost)
    OBVIOUS
  <2> HIDE DEF x, y, z, n, m, k, gone
  <2>3. QED BY <1>8, <2>1, <2>2
<1>10. gone \in BOOLEAN /\ (~gone => ~past.lost /\ ~lost)
  BY <1>5, <1>8
<1>11. report' = [report EXCEPT !.modOk = n, !.modErr = m] /\ past' = [past EXCEPT !.mods = k, !.lost = gone]
  BY <1>7 DEF BulkInv, Bulk!TypeOK
<1> HIDE DEF n, m, k, gone
<1>12. /\ report' \in [modOk : Nat, modErr : Nat, renOk : Nat, renErr : Nat]
       /\ report'.modOk = n /\ report'.modErr = m /\ report'.renOk = report.renOk /\ report'.renErr = report.renErr
  BY <1>9, <1>11 DEF BulkInv, Bulk!TypeOK
<1>13. /\ past' \in [confirmed : Seq(Bulk!RowType), mods : Nat, moves : Nat, lost : BOOLEAN]
       /\ past'.mods = k /\ past'.moves = past.moves /\ past'.confirmed = past.confirmed
  BY <1>9, <1>10, <1>11 DEF BulkInv, Bulk!TypeOK
<1>14. past'.lost = gone
  BY <1>11 DEF BulkInv, Bulk!TypeOK
<1>15. /\ work' \in [sent : SUBSET BulkDns, queue : SUBSET Bulk!Results, cur : Bulk!Results \union {Bulk!NoResult},
                     cut : BOOLEAN, again : BOOLEAN]
       /\ work'.sent = work.sent /\ work'.queue \subseteq work.queue /\ work'.cur = work.cur
       /\ work'.again <=> work.again
  BY <1>5, <1>7, CutIs
<1>16. Bulk!TypeOK'
  BY <1>1, <1>6, <1>12, <1>13, <1>15 DEF BulkInv, Bulk!TypeOK, BulkDirs
<1>17. Bulk!ReportBounds'
  <2>1. (~past'.lost => past'.mods = report'.modOk) /\ (~past'.lost => past'.moves = report'.renOk)
    BY <1>9, <1>10, <1>12, <1>13, <1>14 DEF BulkInv, Bulk!ReportBounds
  <2>2. QED BY <1>9, <1>12, <1>13, <2>1 DEF BulkInv, Bulk!ReportBounds
<1>18. BulkConfirmed'
  BY <1>1, <1>13 DEF BulkInv, BulkConfirmed, Bulk!NothingToDo
<1>19. BulkResults'
  BY <1>1, <1>2, <1>15 DEF BulkInv, BulkResults, at
<1>20. BulkHits'
  <2> SUFFICES ASSUME ~gone, ~work.again, form.cp \/ form.to \notin Below
               PROVE  /\ \A x \in BulkDns : dir'[x].hits <= 1 /\ (dir'[x].hits > 0 => x \in work.sent \/ x[2] \notin Below)
                      /\ \A r \in work.queue : dir'[r.dn].hits = 0
    BY <1>1, <1>14, <1>15 DEF BulkHits
  <2>1. /\ \A x \in BulkDns : dir[x].hits <= 1 /\ (dir[x].hits > 0 => x \in work.sent \/ x[2] \notin Below)
        /\ \A r \in work.queue : dir[r.dn].hits = 0 /\ r.dn \in BulkDns
        /\ dir[at].hits = 0
    BY <1>1, <1>10 DEF BulkInv, BulkHits, at, Bulk!TypeOK, Bulk!Results
  <2>2. dir' = dir \/ dir' \in Bulk!Modified(dir, at)
    BY <1>3, <1>5, <1>10
  <2>3. CASE dir' = dir
    BY <2>1, <2>3
  <2>4. CASE dir' \in Bulk!Modified(dir, at)
    <3>1. (\A x \in BulkDns \ {at} : dir'[x] = dir[x]) /\ dir'[at].hits = dir[at].hits + 1
      BY <1>2, <1>4, <2>4, ModifiedIs DEF at
    <3>2. dir'[at].hits = 1
      BY <2>1, <3>1
    <3>3. QED BY <1>2, <2>1, <3>1, <3>2
  <2>5. QED BY <2>2, <2>3, <2>4
<1>21. QED BY <1>16, <1>17, <1>18, <1>19, <1>20 DEF BulkInv

(* So does a copy or a move: what it puts into the scope of the search had no *)
(* hit.                                                                       *)
LEMMA BulkMove ==
  ASSUME BulkInv, Bulk!Move
  PROVE  BulkInv'
<1> DEFINE at == work.cur.dn
           write == IF form.cp THEN "copy" ELSE "move"
<1>1. step = "Move" /\ form' = form /\ step' = "Results"
  BY DEF Bulk!Move
<1>2. /\ work.cur \in Bulk!Results /\ at \in BulkDns /\ at \in work.sent /\ at[2] \in Below
      /\ \A r \in work.queue : r.dn # at
  BY <1>1 DEF BulkInv, BulkResults, Bulk!Results
<1>3. PICK w \in Bulk!Writes(write, at) :
        /\ dir' = w.dir /\ work' = Bulk!Cut(w.lost) /\ report' = Bulk!CountMove(w.ok)
        /\ past' = [past EXCEPT !.moves = @ + Bulk!One(w.done > 0), !.lost = @ \/ w.lost]
  BY DEF Bulk!Move, Bulk!Moves
<1>4. Bulk!TypeOK /\ form.to \in Targets /\ dir \in BulkDirs
  BY <1>1 DEF BulkInv, Bulk!TypeOK, BulkDirs, BulkConfirmed
<1> DEFINE ok == w.ok
           done == w.done
           lost == w.lost
<1>5. /\ ok \in BOOLEAN /\ lost \in BOOLEAN /\ done \in {0, 1, 2} /\ (ok => done > 0)
      /\ ~lost => (ok <=> done > 0)
      /\ ~lost => w.dir = dir \/ w.dir \in IF form.cp THEN Bulk!Copied(dir, at) ELSE Bulk!Moved(dir, at)
  <2>1. Bulk!DoneTo(write, dir, at) = IF form.cp THEN Bulk!Copied(dir, at) ELSE Bulk!Moved(dir, at)
    BY DEF Bulk!DoneTo
  <2>2. QED BY <1>3, <1>4, <2>1, WritesIs
<1>6. dir' \in BulkDirs
  <2>1. write \in {"modify", "copy", "move"}
    OBVIOUS
  <2> HIDE DEF write
  <2>2. QED BY <1>2, <1>3, <1>4, <2>1, BulkWrites
<1>7. /\ report' = [report EXCEPT !.renOk = @ + Bulk!One(ok), !.renErr = @ + Bulk!One(~ok)]
      /\ past' = [past EXCEPT !.moves = @ + Bulk!One(done > 0), !.lost = @ \/ lost]
      /\ work' = Bulk!Cut(lost)
  BY <1>3 DEF Bulk!CountMove
<1> HIDE DEF at, write, ok, done, lost
<1> DEFINE n == report.renOk + Bulk!One(ok)
           m == report.renErr + Bulk!One(~ok)
           k == past.moves + Bulk!One(done > 0)
           gone == past.lost \/ lost
<1>8. /\ report.renOk \in Nat /\ report.renErr \in Nat /\ past.moves \in Nat /\ past.lost \in BOOLEAN
      /\ report.renOk <= past.moves /\ past.moves <= report.renOk + report.renErr
      /\ ~past.lost => past.moves = report.renOk
  BY DEF BulkInv, Bulk!TypeOK, Bulk!ReportBounds
<1>9. n \in Nat /\ m \in Nat /\ k \in Nat /\ n <= k /\ k <= n + m /\ (~gone => k = n)
  <2> DEFINE x == Bulk!One(ok)
             y == Bulk!One(~ok)
             z == Bulk!One(done > 0)
  <2>1. x \in {0, 1} /\ z \in {0, 1} /\ y = 1 - x /\ x <= z /\ (~gone => z = x)
    BY <1>5, OneIs
  <2>2. n = report.renOk + x /\ m = report.renErr + y /\ k = past.moves + z /\ (~gone => ~past.lost)
    OBVIOUS
  <2> HIDE DEF x, y, z, n, m, k, gone
  <2>3. QED BY <1>8, <2>1, <2>2
<1>10. gone \in BOOLEAN /\ (~gone => ~past.lost /\ ~lost)
  BY <1>5, <1>8
<1>11. report' = [report EXCEPT !.renOk = n, !.renErr = m] /\ past' = [past EXCEPT !.moves = k, !.lost = gone]
  BY <1>7 DEF BulkInv, Bulk!TypeOK
<1> HIDE DEF n, m, k, gone
<1>12. /\ report' \in [modOk : Nat, modErr : Nat, renOk : Nat, renErr : Nat]
       /\ report'.renOk = n /\ report'.renErr = m /\ report'.modOk = report.modOk /\ report'.modErr = report.modErr
  BY <1>9, <1>11 DEF BulkInv, Bulk!TypeOK
<1>13. /\ past' \in [confirmed : Seq(Bulk!RowType), mods : Nat, moves : Nat, lost : BOOLEAN]
       /\ past'.moves = k /\ past'.mods = past.mods /\ past'.confirmed = past.confirmed
  BY <1>9, <1>10, <1>11 DEF BulkInv, Bulk!TypeOK
<1>14. past'.lost = gone
  BY <1>11 DEF BulkInv, Bulk!TypeOK
<1>15. /\ work' \in [sent : SUBSET BulkDns, queue : SUBSET Bulk!Results, cur : Bulk!Results \union {Bulk!NoResult},
                     cut : BOOLEAN, again : BOOLEAN]
       /\ work'.sent = work.sent /\ work'.queue \subseteq work.queue /\ work'.cur = work.cur
       /\ work'.again <=> work.again
  BY <1>5, <1>7, CutIs
<1>16. Bulk!TypeOK'
  BY <1>1, <1>6, <1>12, <1>13, <1>15 DEF BulkInv, Bulk!TypeOK, BulkDirs
<1>17. Bulk!ReportBounds'
  <2>1. (~past'.lost => past'.mods = report'.modOk) /\ (~past'.lost => past'.moves = report'.renOk)
    BY <1>9, <1>10, <1>12, <1>13, <1>14 DEF BulkInv, Bulk!ReportBounds
  <2>2. QED BY <1>9, <1>12, <1>13, <2>1 DEF BulkInv, Bulk!ReportBounds
<1>18. BulkConfirmed'
  BY <1>1, <1>13 DEF BulkInv, BulkConfirmed, Bulk!NothingToDo
<1>19. BulkResults'
  BY <1>1, <1>2, <1>15 DEF BulkInv, BulkResults, at
<1>20. BulkHits'
  <2> SUFFICES ASSUME ~gone, ~work.again, form.cp \/ form.to \notin Below
               PROVE  /\ \A x \in BulkDns : dir'[x].hits <= 1 /\ (dir'[x].hits > 0 => x \in work.sent \/ x[2] \notin Below)
                      /\ \A r \in work.queue : dir'[r.dn].hits = 0
    BY <1>1, <1>14, <1>15 DEF BulkHits
  <2>1. /\ \A x \in BulkDns : dir[x].hits <= 1 /\ (dir[x].hits > 0 => x \in work.sent \/ x[2] \notin Below)
        /\ \A r \in work.queue : dir[r.dn].hits = 0 /\ r.dn \in BulkDns /\ r.dn # at /\ r.dn[2] \in Below
    BY <1>1, <1>2, <1>10 DEF BulkInv, BulkHits, BulkResults, Bulk!TypeOK, Bulk!Results
  <2>2. dir' = dir \/ dir' \in IF form.cp THEN Bulk!Copied(dir, at) ELSE Bulk!Moved(dir, at)
    BY <1>3, <1>5, <1>10 DEF lost
  <2>3. CASE dir' = dir
    BY <2>1, <2>3
  <2>4. CASE dir' \in IF form.cp THEN Bulk!Copied(dir, at) ELSE Bulk!Moved(dir, at)
    <3> DEFINE new == Bulk!NewDn(at)
    <3>1. dir' \in Bulk!Copied(dir, at) \union Bulk!Moved(dir, at)
      BY <2>4
    <3>2. /\ new \in BulkDns /\ \A x \in BulkDns \ {at, new} : dir'[x] = dir[x]
          /\ dir'[new].hits \in {0, dir[at].hits}
          /\ dir' \in Bulk!Copied(dir, at) => dir'[new].hits = 0
          /\ new # at => dir'[at] \in {dir[at], Bulk!Absent}
      BY <1>2, <1>4, <3>1, TransferIs DEF at
    <3>3. dir'[new].hits = 0 \/ new[2] \notin Below
      BY <2>4, <3>2 DEF Bulk!NewDn
    <3> HIDE DEF new
    <3>4. dir[at].hits <= 1 /\ dir'[new].hits <= 1 /\ (new # at => dir'[at].hits <= 1)
      BY <1>2, <2>1, <3>2 DEF Bulk!Absent
    <3>5. QED BY <1>2, <2>1, <3>2, <3>3, <3>4
  <2>5. QED BY <2>2, <2>3, <2>4
<1>21. QED BY <1>16, <1>17, <1>18, <1>19, <1>20 DEF BulkInv

(* Every step of bulkmod keeps its invariant.                                *)
LEMMA BulkStep ==
  ASSUME BulkInv, [Bulk!Next]_Bulk!vars
  PROVE  BulkInv'
<1>1. CASE UNCHANGED Bulk!vars
  BY <1>1 DEF Bulk!vars, BulkInv, Bulk!TypeOK, BulkConfirmed, Bulk!NothingToDo, Bulk!ReportBounds, BulkResults, BulkHits
<1>2. QED
  BY <1>1, BulkPages, BulkBegins, BulkSearches, BulkModify, BulkMove
  DEF Bulk!Next, Bulk!Browser, Bulk!Server, Bulk!Command

(* The hidden fields keep the rows, but for a TAB.                            *)
LEMMA RowsKept ==
  ASSUME BulkInv
  PROVE  Bulk!AppliedAsConfirmed
<1> SUFFICES ASSUME step \in {"Results", "Modify", "Move"},
                    \A i \in DOMAIN past.confirmed : past.confirmed[i].av # "vTAB"
             PROVE  Bulk!ModList(form.rows) = Bulk!ModList(past.confirmed)
  BY DEF Bulk!AppliedAsConfirmed
<1> DEFINE rows == past.confirmed
<1>1. rows \in Seq(Bulk!RowType) /\ form.rows = [i \in DOMAIN rows |-> [op |-> rows[i].op, av |-> Bulk!Hidden(rows[i].av)]]
  BY DEF BulkInv, BulkConfirmed, Bulk!TypeOK
<1>2. \A i \in DOMAIN rows : rows[i].av # "vTAB"
  OBVIOUS
<1> HIDE DEF rows
<1>3. \A i \in DOMAIN rows : rows[i] \in Bulk!RowType
  BY <1>1
<1>4. \A i \in DOMAIN rows : [op |-> rows[i].op, av |-> Bulk!Hidden(rows[i].av)] = rows[i]
  BY <1>2, <1>3 DEF Bulk!RowType, Bulk!Hidden
<1>5. rows = [i \in DOMAIN rows |-> rows[i]]
  BY <1>1
<1>6. form.rows = rows
  BY <1>1, <1>4, <1>5
<1>7. QED BY <1>6 DEF rows

(* bulkmod, for any directory, scope and rows: the counters are bounds of     *)
(* what the server has done, no entry is modified twice by a command that the  *)
(* server answers, and what is applied is what was confirmed.                  *)
THEOREM BulkReported == DispatchSpec => []BulkReport
<1> DEFINE BInv == command = "bulkmod" => BulkInv
<1>1. DispatchInit => BInv
  BY BulkInit DEF DispatchInit
<1>2. BInv /\ [DispatchNext]_all => BInv'
  BY OneCommand, BulkStep
<1>3. BInv => BulkReport
  BY RowsKept DEF BulkInv, BulkHits, BulkReport, Bulk!TouchedOnce
<1>4. QED BY <1>1, <1>2, <1>3, PTL DEF DispatchSpec

(* A deletion in the list of modifications is one of a row that was           *)
(* confirmed, and what the rows give is in a row that was confirmed.           *)
LEMMA DeletionConfirmed ==
  ASSUME BulkInv, step = "Modify", NEW vals \in SUBSET Bulk!Values,
         Deletes(form.rows, vals \union Given(form.rows))
  PROVE  \E i \in DOMAIN past.confirmed :
           /\ past.confirmed[i].op = "delete"
           /\ Bulk!Hidden(past.confirmed[i].av) \in {""} \union vals
                \union {Bulk!Hidden(row.av) : row \in {r \in Bulk!Range(past.confirmed) : r.op \in {"add", "replace"}}}
<1> DEFINE rows == past.confirmed
           gives == {Bulk!Hidden(row.av) : row \in {r \in Bulk!Range(rows) : r.op \in {"add", "replace"}}}
<1>1. /\ rows \in Seq(Bulk!RowType) /\ form.rows \in Seq(Bulk!RowType)
      /\ form.rows = [i \in DOMAIN rows |-> [op |-> rows[i].op, av |-> Bulk!Hidden(rows[i].av)]]
  BY DEF BulkInv, BulkConfirmed, Bulk!TypeOK
<1>2. "delete" \in DOMAIN Bulk!ModList(form.rows)
  BY DEF Deletes
<1>3. Bulk!InputErrors(form.rows) = {} /\ Bulk!ValuesOf(form.rows, "delete") # {}
  BY <1>1, <1>2, ModListIs
<1>4. \A i \in DOMAIN rows : /\ form.rows[i].op = rows[i].op /\ form.rows[i].av = Bulk!Hidden(rows[i].av)
                             /\ i \in DOMAIN form.rows
  BY <1>1
<1>5. DOMAIN form.rows = DOMAIN rows
  BY <1>1
<1>6. \A i \in DOMAIN form.rows : form.rows[i].op # "" => Bulk!Sanitized(form.rows[i].av) = form.rows[i].av
  BY <1>3 DEF Bulk!InputErrors, Bulk!Sanitized
<1>7. \A op \in {"add", "delete", "replace"} : \A v \in Bulk!Asked(form.rows, op) :
        \E i \in DOMAIN rows : rows[i].op = op /\ Bulk!Hidden(rows[i].av) = v
  <2> SUFFICES ASSUME NEW op \in {"add", "delete", "replace"}, NEW v \in Bulk!Asked(form.rows, op)
               PROVE  \E i \in DOMAIN rows : rows[i].op = op /\ Bulk!Hidden(rows[i].av) = v
    OBVIOUS
  <2>1. PICK i \in DOMAIN form.rows : form.rows[i].op = op /\ v = Bulk!Sanitized(form.rows[i].av)
    BY DEF Bulk!Asked
  <2>2. v = form.rows[i].av
    BY <1>6, <2>1
  <2> HIDE DEF rows
  <2>3. QED BY <1>4, <1>5, <2>1, <2>2
<1>8. Given(form.rows) \subseteq gives
  <2> SUFFICES ASSUME NEW op \in {"add", "replace"}, NEW v \in Bulk!ValuesOf(form.rows, op)
               PROVE  v \in gives
    BY DEF Given
  <2>1. v \in Bulk!Asked(form.rows, op)
    BY DEF Bulk!ValuesOf
  <2>2. PICK i \in DOMAIN rows : rows[i].op = op /\ Bulk!Hidden(rows[i].av) = v
    BY <1>7, <2>1
  <2>3. rows[i] \in Bulk!Range(rows)
    BY DEF Bulk!Range
  <2> HIDE DEF rows
  <2>4. QED BY <2>2, <2>3
<1> HIDE DEF gives
<1>9. CASE "" \in Bulk!Asked(form.rows, "delete")
  <2>1. PICK i \in DOMAIN rows : rows[i].op = "delete" /\ Bulk!Hidden(rows[i].av) = ""
    BY <1>7, <1>9
  <2>2. QED BY <2>1
<1>10. CASE "" \notin Bulk!Asked(form.rows, "delete")
  <2>1. Bulk!ValuesOf(form.rows, "delete") = Bulk!Asked(form.rows, "delete") \ {""}
    BY <1>10 DEF Bulk!ValuesOf
  <2>2. \A v \in Bulk!Asked(form.rows, "delete") : v # "all"
    <3>1. \A i \in DOMAIN rows : rows[i] \in Bulk!RowType
      BY <1>1
    <3>2. \A i \in DOMAIN rows : Bulk!Hidden(rows[i].av) # "all"
      BY <3>1 DEF Bulk!RowType, Bulk!Values, Bulk!Hidden
    <3>3. QED BY <1>7, <3>2
  <2>3. Bulk!ValuesOf(form.rows, "delete") # {"all"}
    BY <2>1, <2>2
  <2>4. Bulk!ValuesOf(form.rows, "delete") \subseteq vals \union Given(form.rows)
    BY <2>3 DEF Deletes
  <2>5. PICK v \in Bulk!Asked(form.rows, "delete") : v \in vals \union Given(form.rows)
    BY <1>3, <2>1, <2>4
  <2>6. PICK i \in DOMAIN rows : rows[i].op = "delete" /\ Bulk!Hidden(rows[i].av) = v
    BY <1>7, <2>5
  <2>7. Bulk!Hidden(rows[i].av) \in {""} \union vals \union gives
    BY <1>8, <2>5, <2>6
  <2>8. QED BY <2>6, <2>7 DEF gives
<1>11. QED BY <1>9, <1>10

(* Only the entry in hand is hit by a modification, which may be done twice.  *)
LEMMA RemovalIsAsked ==
  ASSUME BulkInv, [Bulk!Next]_Bulk!vars
  PROVE  Bulk!RemovalAsked
<1> SUFFICES ASSUME NEW x \in BulkDns, step = "Modify", dir[x].vals # {}, dir'[x].vals = {},
                    dir'[x].hits > dir[x].hits
             PROVE  Deletes(form.rows, dir[x].vals \union Given(form.rows))
  <2>1. \A x \in BulkDns : dir[x].vals \in SUBSET Bulk!Values
    BY DEF BulkInv, Bulk!TypeOK, Bulk!EntryStates
  <2>2. QED BY <2>1, DeletionConfirmed DEF Bulk!RemovalAsked
<1>1. dir' # dir
  BY DEF BulkInv, Bulk!TypeOK, Bulk!EntryStates
<1>2. Bulk!Modify
  BY <1>1 DEF Bulk!Next, Bulk!vars, Bulk!Browser, Bulk!Correct, Bulk!Confirm, Bulk!Apply, Bulk!Cancel, Bulk!Server,
              Bulk!SearchDone, Bulk!ServerSends, Bulk!Command, Bulk!TakeResult, Bulk!Move, Bulk!SearchFails, Bulk!ServerDown
<1> DEFINE at == work.cur.dn
<1>3. at \in BulkDns /\ dir \in BulkDirs /\ form.rows \in Seq(Bulk!RowType) /\ Bulk!TypeOK
  BY DEF BulkInv, BulkResults, Bulk!TypeOK, Bulk!Results, BulkDirs
<1>4. PICK w \in Bulk!Writes("modify", at) : dir' = w.dir
  BY <1>2 DEF Bulk!Modify, Bulk!Modifications
<1> HIDE DEF at
<1>5. \A d : Bulk!DoneTo("modify", d, at) = Bulk!Modified(d, at)
  BY DEF Bulk!DoneTo
<1>6. \/ dir' = dir
      \/ dir' \in Bulk!Modified(dir, at)
      \/ \E d \in Bulk!Modified(dir, at) : dir' \in Bulk!Modified(d, at)
  BY <1>3, <1>4, <1>5, WritesIs
<1> DEFINE given == Given(form.rows)
(* One modification. *)
<1>7. ASSUME NEW d \in BulkDirs, NEW e \in Bulk!Modified(d, at)
      PROVE  /\ e \in BulkDirs /\ \A y \in BulkDns \ {at} : e[y] = d[y]
             /\ e[at].vals \subseteq d[at].vals \union given
             /\ e[at].vals = {} /\ d[at].vals # {} => Deletes(form.rows, d[at].vals \union given)
  <2>1. /\ e \in BulkDirs /\ \A y \in BulkDns \ {at} : e[y] = d[y]
        /\ e[at].vals = Bulk!Changed(d[at].vals) /\ Bulk!Changed(d[at].vals) # Bulk!Refused
    BY <1>3, <1>7, ModifiedIs
  <2> DEFINE old == d[at].vals
  <2>2. old \in SUBSET Bulk!Values
    BY <1>3, <1>7 DEF BulkDirs, Bulk!EntryStates
  <2>3. Bulk!Changed(old) # Bulk!Refused /\ e[at].vals = Bulk!Changed(old)
    BY <2>1
  <2> HIDE DEF old
  <2>4. /\ Bulk!Changed(old) \subseteq old \union Given(form.rows)
        /\ Bulk!Changed(old) = {} /\ old # {} => Deletes(form.rows, old \union Given(form.rows))
    BY <1>3, <2>2, <2>3, ChangedIs
  <2>5. QED BY <2>1, <2>3, <2>4 DEF old
<1> HIDE DEF given
<1>8. CASE dir' \in Bulk!Modified(dir, at)
  <2>1. x = at
    <3>1. dir[x].hits \in Nat /\ (dir'[x] = dir[x] => dir'[x].hits = dir[x].hits)
      BY DEF BulkInv, Bulk!TypeOK, Bulk!EntryStates
    <3>2. \A y \in BulkDns \ {at} : dir'[y] = dir[y]
      BY <1>3, <1>7, <1>8
    <3>3. dir'[x] # dir[x]
      BY <3>1
    <3>4. QED BY <3>2, <3>3
  <2>2. QED BY <1>3, <1>7, <1>8, <2>1 DEF given
<1>9. ASSUME NEW d \in Bulk!Modified(dir, at), dir' \in Bulk!Modified(d, at)
      PROVE  Deletes(form.rows, dir[x].vals \union Given(form.rows))
  <2>1. /\ d \in BulkDirs /\ \A y \in BulkDns \ {at} : d[y] = dir[y]
        /\ d[at].vals \subseteq dir[at].vals \union given
        /\ d[at].vals = {} /\ dir[at].vals # {} => Deletes(form.rows, dir[at].vals \union given)
    BY <1>3, <1>7
  <2>2. /\ \A y \in BulkDns \ {at} : dir'[y] = d[y]
        /\ dir'[at].vals = {} /\ d[at].vals # {} => Deletes(form.rows, d[at].vals \union given)
    BY <1>7, <1>9, <2>1
  <2>3. x = at
    BY <1>3, <2>1, <2>2 DEF BulkInv, Bulk!TypeOK, Bulk!EntryStates
  <2>4. CASE d[at].vals = {}
    BY <2>1, <2>3, <2>4 DEF given
  <2>5. CASE d[at].vals # {}
    <3>1. Deletes(form.rows, d[at].vals \union given)
      BY <2>2, <2>3, <2>5
    <3>2. d[at].vals \union given \subseteq dir[at].vals \union given
      BY <2>1
    <3>3. QED BY <2>3, <3>1, <3>2 DEF Deletes, given
  <2>6. QED BY <2>4, <2>5
<1>10. QED BY <1>1, <1>6, <1>8, <1>9

(* bulkmod empties an attribute only if a deletion was confirmed, of all      *)
(* values, or of one that the entry had or another row has given it.           *)
THEOREM RemovalWasAsked == DispatchSpec => RemovedOnlyIfAsked
<1> DEFINE BInv == command = "bulkmod" => BulkInv
<1>1. DispatchInit => BInv
  BY BulkInit DEF DispatchInit
<1>2. BInv /\ [DispatchNext]_all => BInv'
  BY OneCommand, BulkStep
<1>3. BInv /\ [DispatchNext]_all => [command = "bulkmod" => Bulk!RemovalAsked]_all
  BY OneCommand, RemovalIsAsked
<1>4. QED BY <1>1, <1>2, <1>3, PTL DEF DispatchSpec, RemovedOnlyIfAsked

-----------------------------------------------------------------------------
(* add and rename                                                            *)

(* The request under way is the one of the form: it gives an entry a name of  *)
(* the values it will have, and asks for the controls of its kind.            *)
NamingUnderWay ==
  step = "Send" =>
    /\ work.dn \in Naming!Dns
    /\ form.kind = "add" => Naming!Named(work.dn[1], form.vals) /\ work.asked \in {{}, {"post"}}
    /\ form.kind = "rename" => /\ work.dn = <<form.rdn, form.base>> /\ form.dn \in Naming!Dns
                               /\ work.asked \in {{}, {"pre", "post"}}

(* Nothing was done before the request is, unless an answer was lost.         *)
NothingDoneYet == (step \in {"Form", "Send"} /\ ~past.lost) => past.put = <<>>

NamingInv ==
  /\ Naming!TypeOK
  /\ NamingUnderWay
  /\ NothingDoneYet
  /\ Naming!NamedByValues
  /\ Naming!PageNamesEntry
  /\ Naming!ErrorMeansUnchanged

(* A form is one of two kinds.                                                *)
LEMMA NamingForm ==
  ASSUME Naming!TypeOK
  PROVE  /\ form.kind \in {"add", "rename"}
         /\ form.kind = "add" => /\ form.vals \in Naming!Contents /\ form.base \in Naming!Places
                                 /\ form.rdn \in Naming!Given \union {Naming!Undecodable}
         /\ form.kind = "rename" => /\ form.rdn \in Naming!Rdns /\ form.base \in Naming!Places \union {"unset"}
                                    /\ form.dn \in Naming!Dns \union {<<>>}
<1>1. form \in Naming!AddForms \union Naming!RenameForms
  BY DEF Naming!TypeOK
<1>2. CASE form \in Naming!AddForms
  BY <1>2 DEF Naming!AddForms
<1>3. CASE form \in Naming!RenameForms
  <2>1. \A e \in NamingInitial : e.dn \in Naming!Dns
    BY CommandsAssumption DEF CommandsAssumption, Naming!NamingAssumption
  <2>2. QED BY <1>3, <2>1 DEF Naming!RenameForms
<1>4. QED BY <1>1, <1>2, <1>3

(* The RDN that is derived is made of values of the form.                     *)
LEMMA DerivedIs ==
  ASSUME form.vals \in Naming!Contents, form.rdn \in Naming!Given, Naming!Complete
  PROVE  Naming!Derived \in Naming!Rdns /\ Naming!Named(Naming!Derived, form.vals)
<1>1. PICK T \in (SUBSET Types) \ {{}} : form.rdn \in [T -> NamingValues \union {""}]
  BY DEF Naming!Given, Naming!PartialFunctions
<1> DEFINE value(t) == IF form.rdn[t] = "" THEN CHOOSE v \in form.vals[t] : TRUE ELSE form.rdn[t]
<1>2. ASSUME NEW t \in T
      PROVE  value(t) \in form.vals[t] /\ form.vals[t] \in SUBSET NamingValues
  <2>1. Naming!Derivable(t)
    BY <1>1 DEF Naming!Complete
  <2>2. form.vals[t] \in SUBSET NamingValues
    BY <1>1 DEF Naming!Contents
  <2>3. CASE form.rdn[t] = ""
    <3> DEFINE S == form.vals[t]
    <3>1. Naming!Cardinality(S) = 1
      BY <2>1, <2>3 DEF Naming!Derivable
    <3>2. Cardinality(S) = Naming!Cardinality(S)
      BY DEF Cardinality, Naming!Cardinality
    <3> HIDE DEF S
    <3>3. S # {}
      BY <3>1, <3>2, FS_EmptySet
    <3>4. QED BY <2>2, <2>3, <3>3 DEF S
  <2>4. CASE form.rdn[t] # ""
    BY <2>1, <2>2, <2>4 DEF Naming!Derivable
  <2>5. QED BY <2>3, <2>4
<1>3. Naming!Derived = [t \in T |-> value(t)]
  BY <1>1 DEF Naming!Derived
<1> HIDE DEF value
<1>4. Naming!Derived \in [T -> NamingValues] /\ \A t \in T : Naming!Derived[t] \in form.vals[t]
  BY <1>2, <1>3
<1>5. QED BY <1>1, <1>4 DEF Naming!Rdns, Naming!PartialFunctions, Naming!Named

(* The entries at the beginning are named by their own values.               *)
LEMMA NamingInit ==
  ASSUME Naming!Init
  PROVE  NamingInv
<1>1. /\ step = "Form" /\ form \in Naming!AddForms \union Naming!RenameForms /\ report = <<>>
      /\ dir \in [entries : {NamingInitial}, places : {Naming!Places}, answers : SUBSET {"pre", "post"}, changes : {0}]
      /\ work = [dn |-> <<>>, asked |-> {}, again |-> FALSE] /\ past = [put |-> <<>>, lost |-> FALSE]
  BY DEF Naming!Init
<1>2. /\ NamingInitial \subseteq [dn : Naming!Dns, vals : Naming!Contents]
      /\ \A e \in NamingInitial : Naming!Named(e.dn[1], e.vals) /\ \A f \in NamingInitial : f.dn = e.dn => f = e
  BY CommandsAssumption DEF CommandsAssumption, Naming!NamingAssumption
<1>3. Naming!TypeOK
  <2>1. dir \in [entries : SUBSET [dn : Naming!Dns, vals : Naming!Contents], places : SUBSET Naming!Places,
                 answers : SUBSET {"pre", "post"}, changes : Nat]
    BY <1>1, <1>2
  <2>2. QED BY <1>1, <2>1 DEF Naming!TypeOK
<1>4. Naming!NamedByValues
  BY <1>1, <1>2 DEF Naming!NamedByValues
<1>5. QED BY <1>1, <1>3, <1>4 DEF NamingInv, NamingUnderWay, NothingDoneYet, Naming!PageNamesEntry, Naming!ErrorMeansUnchanged

(* Other clients delete entries, or put one of the same name first.           *)
LEMMA NamingOthers ==
  ASSUME NamingInv, Naming!OtherDeletes \/ Naming!OtherAdds
  PROVE  NamingInv'
<1>1. step = "Send" /\ UNCHANGED <<step, form, work, report, past>>
  BY DEF Naming!OtherDeletes, Naming!OtherAdds
<1> DEFINE count == dir.changes + 1
<1>2. count \in Nat
  BY DEF NamingInv, Naming!TypeOK
<1> HIDE DEF count
<1>3. ASSUME NEW entries \in SUBSET [dn : Naming!Dns, vals : Naming!Contents], NEW places \in SUBSET Naming!Places,
             dir' = [dir EXCEPT !.places = places, !.entries = entries, !.changes = count],
             \A e \in entries : Naming!Named(e.dn[1], e.vals) /\ \A f \in entries : f.dn = e.dn => f = e
      PROVE  NamingInv'
  <2>1. /\ dir' \in [entries : SUBSET [dn : Naming!Dns, vals : Naming!Contents], places : SUBSET Naming!Places,
                     answers : SUBSET {"pre", "post"}, changes : Nat]
        /\ dir'.entries = entries /\ dir'.answers = dir.answers
    BY <1>2, <1>3 DEF NamingInv, Naming!TypeOK
  <2>2. Naming!TypeOK' /\ NamingUnderWay' /\ NothingDoneYet'
    BY <1>1, <2>1 DEF NamingInv, Naming!TypeOK, NamingUnderWay, NothingDoneYet
  <2>3. Naming!NamedByValues'
    BY <1>3, <2>1 DEF Naming!NamedByValues
  <2>4. QED BY <1>1, <2>1, <2>2, <2>3 DEF NamingInv, Naming!PageNamesEntry, Naming!ErrorMeansUnchanged
<1>4. \A e \in dir.entries : Naming!Named(e.dn[1], e.vals) /\ \A f \in dir.entries : f.dn = e.dn => f = e
  BY DEF NamingInv, Naming!NamedByValues
<1>5. /\ dir.entries \in SUBSET [dn : Naming!Dns, vals : Naming!Contents] /\ dir.places \in SUBSET Naming!Places
      /\ dir = [dir EXCEPT !.places = dir.places]
  BY DEF NamingInv, Naming!TypeOK
<1>6. CASE Naming!OtherDeletes
  <2>1. ASSUME NEW x \in dir.entries, dir' = [dir EXCEPT !.entries = @ \ {x}, !.changes = @ + 1]
        PROVE  NamingInv'
    <3> DEFINE entries == dir.entries \ {x}
    <3>1. dir' = [dir EXCEPT !.places = dir.places, !.entries = entries, !.changes = count]
      BY <2>1 DEF count, NamingInv, Naming!TypeOK
    <3>2. entries \in SUBSET [dn : Naming!Dns, vals : Naming!Contents]
          /\ \A e \in entries : Naming!Named(e.dn[1], e.vals) /\ \A f \in entries : f.dn = e.dn => f = e
      BY <1>4, <1>5
    <3> HIDE DEF entries
    <3>3. QED BY <1>3, <1>5, <3>1, <3>2
  <2>2. ASSUME NEW p \in Superiors \intersect dir.places,
               dir' = [dir EXCEPT !.places = @ \ {p}, !.entries = {e \in @ : e.dn[2] # p}, !.changes = @ + 1]
        PROVE  NamingInv'
    <3> DEFINE entries == {e \in dir.entries : e.dn[2] # p}
               places == dir.places \ {p}
    <3>1. dir' = [dir EXCEPT !.places = places, !.entries = entries, !.changes = count]
      BY <2>2 DEF count, NamingInv, Naming!TypeOK
    <3>2. entries \in SUBSET [dn : Naming!Dns, vals : Naming!Contents] /\ places \in SUBSET Naming!Places
          /\ \A e \in entries : Naming!Named(e.dn[1], e.vals) /\ \A f \in entries : f.dn = e.dn => f = e
      BY <1>4, <1>5
    <3> HIDE DEF entries, places
    <3>3. QED BY <1>3, <3>1, <3>2
  <2>3. QED BY <1>6, <2>1, <2>2 DEF Naming!OtherDeletes
<1>7. CASE Naming!OtherAdds
  <2> DEFINE vals == [t \in Types |-> {work.dn[1][u] : u \in DOMAIN work.dn[1] \intersect {t}}]
             new == [dn |-> work.dn, vals |-> vals]
             entries == dir.entries \union {new}
  <2>1. work.dn \in Naming!Dns /\ \A e \in dir.entries : e.dn # work.dn
    BY <1>1, <1>7 DEF NamingInv, NamingUnderWay, Naming!OtherAdds, Naming!There
  <2>2. PICK T \in (SUBSET Types) \ {{}} : work.dn[1] \in [T -> NamingValues]
    BY <2>1 DEF Naming!Dns, Naming!Rdns, Naming!PartialFunctions
  <2>3. vals \in Naming!Contents /\ Naming!Named(work.dn[1], vals)
    BY <2>2 DEF Naming!Contents, Naming!Named
  <2>4. dir' = [dir EXCEPT !.places = dir.places, !.entries = entries, !.changes = count]
    BY <1>7 DEF Naming!OtherAdds, count, NamingInv, Naming!TypeOK
  <2> HIDE DEF vals
  <2>5. new \in [dn : Naming!Dns, vals : Naming!Contents] /\ Naming!Named(new.dn[1], new.vals) /\ new.dn = work.dn
    BY <2>1, <2>3
  <2> HIDE DEF new
  <2>6. entries \in SUBSET [dn : Naming!Dns, vals : Naming!Contents]
        /\ \A e \in entries : Naming!Named(e.dn[1], e.vals) /\ \A f \in entries : f.dn = e.dn => f = e
    BY <1>4, <1>5, <2>1, <2>5
  <2> HIDE DEF entries
  <2>7. QED BY <1>3, <1>5, <2>4, <2>6
<1>8. QED BY <1>6, <1>7

(* The form again, an error at once, or a request.                            *)
LEMMA NamingPrepare ==
  ASSUME NamingInv, Naming!PrepareAdd \/ Naming!PrepareRename
  PROVE  NamingInv'
<1>1. step = "Form" /\ Naming!TypeOK
  BY DEF NamingInv, Naming!PrepareAdd, Naming!PrepareRename
<1>2. CASE step' \in {"Form", "Error"} /\ UNCHANGED <<form, dir, work, report, past>>
  BY <1>1, <1>2 DEF NamingInv, Naming!TypeOK, NamingUnderWay, NothingDoneYet, Naming!NamedByValues, Naming!PageNamesEntry,
                    Naming!ErrorMeansUnchanged
<1>3. ASSUME NEW at \in Naming!Dns, NEW controls \in {{"post"}, {"pre", "post"}}, Naming!Ask(at, controls),
             form.kind = "add" => Naming!Named(at[1], form.vals) /\ controls = {"post"},
             form.kind = "rename" => at = <<form.rdn, form.base>> /\ form.dn \in Naming!Dns /\ controls = {"pre", "post"}
      PROVE  NamingInv'
  <2>1. PICK asked \in {{}, controls} : work' = [work EXCEPT !.dn = at, !.asked = asked]
    BY <1>3 DEF Naming!Ask
  <2>2. step' = "Send" /\ UNCHANGED <<form, dir, report, past>>
    BY <1>3 DEF Naming!Ask
  <2>3. asked \in SUBSET {"pre", "post"}
    BY <1>3
  <2>4. /\ work' \in [dn : Naming!Dns \union {<<>>}, asked : SUBSET {"pre", "post"}, again : BOOLEAN]
        /\ work'.dn = at /\ work'.asked = asked
    BY <2>1, <2>3 DEF NamingInv, Naming!TypeOK
  <2>5. Naming!TypeOK' /\ NamingUnderWay' /\ NothingDoneYet'
    BY <1>1, <1>3, <2>2, <2>4 DEF NamingInv, Naming!TypeOK, NamingUnderWay, NothingDoneYet
  <2>6. QED BY <2>2, <2>5 DEF NamingInv, Naming!NamedByValues, Naming!PageNamesEntry, Naming!ErrorMeansUnchanged
<1>4. CASE Naming!PrepareAdd
  <2>1. CASE Naming!ShowForm
    BY <1>2, <2>1 DEF Naming!ShowForm
  <2>2. CASE Naming!Complete /\ Naming!Ask(<<Naming!Derived, Naming!AddPlace>>, {"post"})
    <3>1. /\ form.kind = "add" /\ form.vals \in Naming!Contents /\ form.base \in Naming!Places
          /\ form.rdn \in Naming!Given
      BY <1>1, <1>4, <2>2, NamingForm DEF Naming!PrepareAdd, Naming!Complete
    <3>2. Naming!Derived \in Naming!Rdns /\ Naming!Named(Naming!Derived, form.vals)
      BY <2>2, <3>1, DerivedIs
    <3>3. Naming!AddPlace \in Naming!Places
      BY <3>1 DEF Naming!AddPlace, Naming!Places
    <3> DEFINE at == <<Naming!Derived, Naming!AddPlace>>
               controls == {"post"}
    <3>4. at \in Naming!Dns /\ at[1] = Naming!Derived
      BY <3>2, <3>3 DEF Naming!Dns
    <3>5. Naming!Ask(at, controls) /\ controls \in {{"post"}, {"pre", "post"}} /\ controls = {"post"}
      BY <2>2
    <3> HIDE DEF at, controls
    <3>6. QED BY <1>3, <3>1, <3>2, <3>4, <3>5
  <2>3. QED BY <1>4, <2>1, <2>2 DEF Naming!PrepareAdd
<1>5. CASE Naming!PrepareRename
  <2>1. CASE step' = "Error" /\ UNCHANGED <<form, dir, work, report, past>>
    BY <1>2, <2>1
  <2>2. CASE form.base # "unset" /\ form.dn # <<>> /\ Naming!Ask(<<form.rdn, form.base>>, {"pre", "post"})
    <3>1. /\ form.kind = "rename" /\ form.rdn \in Naming!Rdns /\ form.base \in Naming!Places /\ form.dn \in Naming!Dns
      BY <1>1, <1>5, <2>2, NamingForm DEF Naming!PrepareRename
    <3> DEFINE at == <<form.rdn, form.base>>
               controls == {"pre", "post"}
    <3>2. at \in Naming!Dns /\ at = <<form.rdn, form.base>>
      BY <3>1 DEF Naming!Dns
    <3>3. Naming!Ask(at, controls) /\ controls \in {{"post"}, {"pre", "post"}} /\ controls = {"pre", "post"}
      BY <2>2
    <3> HIDE DEF at, controls
    <3>4. QED BY <1>3, <3>1, <3>2, <3>3
  <2>3. QED BY <1>5, <2>1, <2>2 DEF Naming!PrepareRename
<1>6. QED BY <1>4, <1>5

(* What a request leaves: a directory whose entries are named by values.      *)
LEMMA DoneIs ==
  ASSUME NamingInv, step = "Send", Naming!Accepts
  PROVE  /\ Naming!Done \in SUBSET [dn : Naming!Dns, vals : Naming!Contents]
         /\ \A e \in Naming!Done : Naming!Named(e.dn[1], e.vals) /\ \A f \in Naming!Done : f.dn = e.dn => f = e
<1> DEFINE vals == IF form.kind = "add" THEN form.vals ELSE Naming!Renamed(Naming!ValuesOf(form.dn))
           named == [dn |-> work.dn, vals |-> vals]
           rest == {e \in dir.entries : form.kind = "add" \/ e.dn # form.dn}
<1>1. Naming!Done = rest \union {named}
  BY DEF Naming!Done
<1>2. /\ work.dn \in Naming!Dns /\ form.kind \in {"add", "rename"}
      /\ \A e \in dir.entries : Naming!Named(e.dn[1], e.vals) /\ \A f \in dir.entries : f.dn = e.dn => f = e
      /\ dir.entries \in SUBSET [dn : Naming!Dns, vals : Naming!Contents]
  BY NamingForm DEF NamingInv, NamingUnderWay, Naming!NamedByValues, Naming!TypeOK
<1>3. vals \in Naming!Contents /\ Naming!Named(work.dn[1], vals)
  <2>1. CASE form.kind = "add"
    BY <2>1, NamingForm DEF NamingInv, NamingUnderWay
  <2>2. CASE form.kind = "rename"
    <3> DEFINE old == Naming!ValuesOf(form.dn)
               oldRdn == form.dn[1]
               kept(t) == IF form.delold /\ t \in DOMAIN oldRdn THEN old[t] \ {oldRdn[t]} ELSE old[t]
               added(t) == {form.rdn[u] : u \in DOMAIN form.rdn \intersect {t}}
    <3>1. Naming!There(form.dn) /\ work.dn = <<form.rdn, form.base>> /\ form.rdn \in Naming!Rdns
      BY <2>2, NamingForm DEF NamingInv, NamingUnderWay, Naming!Accepts
    <3>2. old \in Naming!Contents
      <4>1. \E e \in dir.entries : e.dn = form.dn
        BY <3>1 DEF Naming!There
      <4>2. (CHOOSE e \in dir.entries : e.dn = form.dn) \in dir.entries
        BY <4>1
      <4>3. QED BY <1>2, <4>2 DEF Naming!ValuesOf
    <3>3. PICK T \in (SUBSET Types) \ {{}} : form.rdn \in [T -> NamingValues]
      BY <3>1 DEF Naming!Rdns, Naming!PartialFunctions
    <3>4. vals = [t \in Types |-> kept(t) \union added(t)]
      BY <2>2 DEF Naming!Renamed
    <3>5. \A t \in Types : kept(t) \in SUBSET NamingValues /\ added(t) \in SUBSET NamingValues
      BY <3>2, <3>3 DEF Naming!Contents
    <3>6. \A t \in T : form.rdn[t] \in added(t) /\ t \in Types
      BY <3>3
    <3>7. DOMAIN form.rdn = T
      BY <3>3
    <3> HIDE DEF old, kept, added, vals
    <3>8. vals \in [Types -> SUBSET NamingValues] /\ \A t \in T : form.rdn[t] \in vals[t]
      BY <3>4, <3>5, <3>6
    <3>9. QED BY <3>1, <3>7, <3>8 DEF Naming!Contents, Naming!Named
  <2>3. QED BY <1>2, <2>1, <2>2
<1> HIDE DEF vals
<1>4. named \in [dn : Naming!Dns, vals : Naming!Contents] /\ Naming!Named(named.dn[1], named.vals) /\ named.dn = work.dn
  BY <1>2, <1>3
<1>5. \A e \in rest : e \in dir.entries /\ e.dn # work.dn
  BY <1>2 DEF Naming!Accepts, Naming!There
<1> HIDE DEF named, rest
<1>6. QED BY <1>1, <1>2, <1>4, <1>5

(* The directory after a request that the server has done, or not.            *)
LEMMA NamingWrites ==
  ASSUME NamingInv, step = "Send",
         dir' = dir \/ (Naming!Accepts /\ dir' = [dir EXCEPT !.entries = Naming!Done])
  PROVE  /\ dir' \in [entries : SUBSET [dn : Naming!Dns, vals : Naming!Contents], places : SUBSET Naming!Places,
                      answers : SUBSET {"pre", "post"}, changes : Nat]
         /\ dir'.answers = dir.answers
         /\ Naming!NamedByValues'
<1>1. CASE dir' = dir
  BY <1>1 DEF NamingInv, Naming!TypeOK, Naming!NamedByValues
<1>2. CASE Naming!Accepts /\ dir' = [dir EXCEPT !.entries = Naming!Done]
  <2> DEFINE entries == Naming!Done
  <2>1. /\ entries \in SUBSET [dn : Naming!Dns, vals : Naming!Contents]
        /\ \A e \in entries : Naming!Named(e.dn[1], e.vals) /\ \A f \in entries : f.dn = e.dn => f = e
    BY <1>2, DoneIs
  <2> HIDE DEF entries
  <2>2. dir' = [dir EXCEPT !.entries = entries]
    BY <1>2 DEF entries
  <2>3. dir'.entries = entries
    BY <2>2 DEF NamingInv, Naming!TypeOK
  <2>4. QED BY <2>1, <2>2, <2>3 DEF NamingInv, Naming!TypeOK, Naming!NamedByValues
<1>3. QED BY <1>1, <1>2

(* The request: done, refused, or its answer lost.                            *)
LEMMA NamingSend ==
  ASSUME NamingInv, Naming!Send
  PROVE  NamingInv'
<1>1. step = "Send" /\ form' = form /\ work.dn \in Naming!Dns /\ form.kind \in {"add", "rename"}
  BY NamingForm DEF NamingInv, NamingUnderWay, Naming!Send, Naming!Succeeds, Naming!Fails, Naming!Lost
<1>2. /\ form \in Naming!AddForms \union Naming!RenameForms /\ report \in Naming!Dns \union {<<>>}
      /\ work \in [dn : Naming!Dns \union {<<>>}, asked : SUBSET {"pre", "post"}, again : BOOLEAN]
      /\ past \in [put : Naming!Dns \union {<<>>}, lost : BOOLEAN] /\ dir.answers \in SUBSET {"pre", "post"}
  BY DEF NamingInv, Naming!TypeOK
<1>3. CASE Naming!Succeeds
  <2> DEFINE answered == work.asked \intersect dir.answers
  <2>1. /\ Naming!Accepts /\ dir' = [dir EXCEPT !.entries = Naming!Done] /\ past' = [past EXCEPT !.put = work.dn]
        /\ work' = work
        /\ \/ /\ answered \in {{}} \union {c \in SUBSET work.asked : "post" \in c}
              /\ report' = IF answered = {} THEN Naming!Computed ELSE work.dn
              /\ step' = "Success"
           \/ answered = {"pre"} /\ step' = "Error" /\ report' = report
    BY <1>3 DEF Naming!Succeeds
  <2>2. /\ dir' \in [entries : SUBSET [dn : Naming!Dns, vals : Naming!Contents], places : SUBSET Naming!Places,
                     answers : SUBSET {"pre", "post"}, changes : Nat]
        /\ dir'.answers = dir.answers /\ Naming!NamedByValues'
    BY <1>1, <2>1, NamingWrites
  <2>3. past' \in [put : Naming!Dns \union {<<>>}, lost : BOOLEAN] /\ past'.put = work.dn
    BY <1>1, <1>2, <2>1
  <2>4. Naming!Computed \in Naming!Dns
        /\ (~(form.kind = "rename" /\ form.base = Naming!Root) => Naming!Computed = work.dn)
    <3>1. CASE form.kind = "add"
      BY <1>1, <3>1 DEF Naming!Computed
    <3>2. CASE form.kind = "rename"
      <4>1. work.dn = <<form.rdn, form.base>> /\ form.dn \in Naming!Dns
        BY <1>1, <3>2 DEF NamingInv, NamingUnderWay
      <4>2. QED BY <1>1, <3>2, <4>1 DEF Naming!Computed, Naming!Dns
    <3>3. QED BY <1>1, <3>1, <3>2
  <2>5. report' \in Naming!Dns \union {<<>>}
    BY <1>1, <1>2, <2>1, <2>4
  <2>6. Naming!TypeOK'
    BY <1>1, <1>2, <2>1, <2>2, <2>3, <2>5 DEF Naming!TypeOK
  <2>7. Naming!PageNamesEntry'
    BY <1>1, <2>1, <2>2, <2>3, <2>4 DEF Naming!PageNamesEntry
  <2>8. answered = {"pre"} => dir.answers = {"pre"}
    BY <1>1, <1>2 DEF NamingInv, NamingUnderWay
  <2>9. Naming!ErrorMeansUnchanged'
    BY <2>1, <2>2, <2>3, <2>8 DEF Naming!ErrorMeansUnchanged
  <2>10. QED BY <2>1, <2>2, <2>6, <2>7, <2>9 DEF NamingInv, NamingUnderWay, NothingDoneYet
<1>4. CASE Naming!Fails
  BY <1>1, <1>4 DEF Naming!Fails, NamingInv, Naming!TypeOK, NamingUnderWay, NothingDoneYet, Naming!NamedByValues,
                    Naming!PageNamesEntry, Naming!ErrorMeansUnchanged
<1>5. CASE Naming!Lost
  <2>1. /\ dir' = dir \/ (Naming!Accepts /\ dir' = [dir EXCEPT !.entries = Naming!Done])
        /\ past' = [put |-> IF Naming!Accepts THEN work.dn ELSE past.put, lost |-> TRUE]
        /\ work' = [work EXCEPT !.again = TRUE] /\ step' \in {"Form", "Error"} /\ report' = report
    BY <1>5 DEF Naming!Lost
  <2>2. /\ dir' \in [entries : SUBSET [dn : Naming!Dns, vals : Naming!Contents], places : SUBSET Naming!Places,
                     answers : SUBSET {"pre", "post"}, changes : Nat]
        /\ Naming!NamedByValues'
    BY <1>1, <2>1, NamingWrites
  <2>3. past' \in [put : Naming!Dns \union {<<>>}, lost : BOOLEAN] /\ past'.lost = TRUE
    <3> DEFINE put == IF Naming!Accepts THEN work.dn ELSE past.put
    <3>1. put \in Naming!Dns \union {<<>>}
      BY <1>1, <1>2
    <3>2. past' = [put |-> put, lost |-> TRUE]
      BY <2>1
    <3> HIDE DEF put
    <3>3. QED BY <3>1, <3>2
  <2>4. work' \in [dn : Naming!Dns \union {<<>>}, asked : SUBSET {"pre", "post"}, again : BOOLEAN]
    BY <1>2, <2>1
  <2>5. Naming!TypeOK'
    BY <1>1, <1>2, <2>1, <2>2, <2>3, <2>4 DEF Naming!TypeOK
  <2>6. QED BY <2>1, <2>2, <2>3, <2>5 DEF NamingInv, NamingUnderWay, NothingDoneYet, Naming!PageNamesEntry,
                                          Naming!ErrorMeansUnchanged
<1>6. QED BY <1>3, <1>4, <1>5 DEF Naming!Send

(* Every step of add and rename keeps their invariant.                       *)
LEMMA NamingStep ==
  ASSUME NamingInv, [Naming!Next]_Naming!vars
  PROVE  NamingInv'
<1>1. CASE UNCHANGED Naming!vars
  BY <1>1 DEF Naming!vars, NamingInv, Naming!TypeOK, NamingUnderWay, NothingDoneYet, Naming!NamedByValues,
              Naming!PageNamesEntry, Naming!ErrorMeansUnchanged
<1>2. QED BY <1>1, NamingOthers, NamingPrepare, NamingSend DEF Naming!Next

(* add and rename, for any types, values and superiors, and whatever others   *)
(* add and delete meanwhile: entries are named by their values and uniquely,   *)
(* the page shows where the entry is, and an error means it was not put there. *)
THEOREM NamesReported == DispatchSpec => []NamingReport
<1> DEFINE NInv == command = "add" => NamingInv
<1>1. DispatchInit => NInv
  BY NamingInit DEF DispatchInit
<1>2. NInv /\ [DispatchNext]_all => NInv'
  BY OneCommand, NamingStep
<1>3. NInv => NamingReport
  BY DEF NamingInv, NamingReport
<1>4. QED BY <1>1, <1>2, <1>3, PTL DEF DispatchSpec

-----------------------------------------------------------------------------
(* search                                                                    *)

(* What the handler of the results has counted: it drops those before the     *)
(* page and stops one after it, and the rows of the page are the others.      *)
HandlerCounts ==
  /\ work.begin <= work.end /\ work.end <= work.sent /\ work.sent <= dir.n
  /\ work.begin <= Search!Ignored /\ (work.begin < work.end => work.begin = Search!Ignored)
  /\ work.end = work.sent \/ (Search!Processed > 0 /\ work.end = Search!Ignored + Search!Processed)
  /\ Search!Processed > 0 => work.end <= Search!Ignored + Search!Processed
  /\ work.rows = [i \in 1..(work.end - work.begin) |-> work.begin + i]

(* A limit that the results up to now have reached.                           *)
Reached(limit) == limit > 0 /\ Search!EntriesIn(work.sent) >= limit

(* The server itself sends all results.                                       *)
Unlimited == \A k \in 0..(dir.n - 1) : ~Search!Beyond(dir.limit, k)

(* What was received, and why the rest is counted.                            *)
SearchUnderWay ==
  /\ (step = "Results" /\ dir.changes = 0) => \A k \in 0..(work.sent - 1) : ~Search!Beyond(dir.limit, k)
  /\ step = "Count" => /\ form.output \in Search!Paged
                       /\ Reached(Search!SizeLimit) \/ Reached(dir.limit)
                       /\ dir.changes = 0 => Search!Exceeds(work.sent)

(* The page asked for begins before the last result, and after results that   *)
(* were seen.                                                                 *)
PageToCome ==
  /\ form.num = 0 => form.min = 0
  /\ (step \in {"Form", "Results", "Count"} /\ dir.changes = 0) =>
       /\ Unlimited => form.min < dir.n \/ form.min = 0
       /\ past.onward /\ dir.limit = 0 => 1..form.min \subseteq past.seen

(* So does each page that the one in the browser leads to.                    *)
LinksLead ==
  step = "Page" =>
    /\ \A link \in report.links \union {report.next} :
         /\ link # Search!NoLink => link.num \in Nat /\ (link.num = 0 => link.min = 0)
         /\ (dir.changes = 0 /\ Unlimited) => link.min < dir.n \/ link.min <= 0
    /\ (dir.changes = 0 /\ dir.limit = 0 /\ past.onward) =>
         IF report.next = Search!NoLink THEN 1..dir.n \subseteq past.seen ELSE 1..report.next.min \subseteq past.seen

SearchInv ==
  /\ Search!TypeOK
  /\ HandlerCounts
  /\ SearchUnderWay
  /\ PageToCome
  /\ LinksLead
  /\ Search!RowsAsCounted
  /\ Search!LinksAccepted
  /\ Search!LimitIsSaid
  /\ Search!FileEnds

(* Among the first k results there are no more than k entries.                *)
LEMMA EntriesAre ==
  ASSUME NEW k \in Nat
  PROVE  Search!EntriesIn(k) \in Nat /\ Search!EntriesIn(k) <= k
<1> DEFINE S == (1..k) \ References
<1>1. IsFiniteSet(1..k) /\ Cardinality(1..k) = k
  <2>1. IsFiniteSet(1..k) /\ Cardinality(1..k) = IF 1 > k THEN 0 ELSE k - 1 + 1
    BY FS_Interval
  <2>2. QED BY <2>1
<1>2. S \subseteq 1..k
  OBVIOUS
<1> HIDE DEF S
<1>3. IsFiniteSet(S) /\ Cardinality(S) <= k
  BY <1>1, <1>2, FS_Subset
<1>4. Cardinality(S) \in Nat
  BY <1>3, FS_CardinalityType
<1>5. Search!EntriesIn(k) = Search!Cardinality(S)
  BY DEF Search!EntriesIn, S
<1>6. Cardinality(S) = Search!Cardinality(S)
  BY DEF Cardinality, Search!Cardinality
<1>7. QED BY <1>3, <1>4, <1>5, <1>6

(* The numbers a search works with.                                           *)
LEMMA SearchNumbers ==
  ASSUME Search!TypeOK
  PROVE  /\ form.min \in Nat /\ form.num \in Nat /\ dir.n \in Nat /\ dir.limit \in Nat
         /\ work.sent \in Nat /\ work.begin \in Nat /\ work.end \in Nat
         /\ Search!EntriesIn(work.sent) \in Nat /\ Search!EntriesIn(work.sent) <= work.sent
         /\ Search!SizeLimit = IF form.num > 0 THEN form.min + form.num ELSE -1
         /\ Search!SizeLimit \in Int
         /\ form.output \in Search!Paged =>
              Search!Ignored = form.min /\ Search!Processed = IF form.num > 0 THEN form.num + 1 ELSE 0
         /\ form.output \notin Search!Paged => Search!Ignored = 0 /\ Search!Processed = 0
<1>1. /\ form.min \in Nat /\ form.num \in Nat /\ dir.n \in Nat /\ dir.limit \in Nat
      /\ work.sent \in Nat /\ work.begin \in Nat /\ work.end \in Nat
  BY CommandsAssumption DEF CommandsAssumption, Search!SearchAssumption, Search!TypeOK
<1>2. Search!SizeLimit = IF form.num > 0 THEN form.min + form.num ELSE -1
  BY DEF Search!SizeLimit
<1>3. Search!SizeLimit \in Int
  BY <1>1, <1>2
<1>4. QED BY <1>1, <1>2, <1>3, EntriesAre DEF Search!Ignored, Search!Processed

(* Each part of the invariant that the variables it is about do not change.   *)
LEMMA SearchKept ==
  ASSUME UNCHANGED <<form.min, form.num, form.output, dir, work>>
  PROVE  /\ HandlerCounts => HandlerCounts'
         /\ Unlimited' => Unlimited
         /\ \A k : Search!Beyond(dir.limit, k)' => Search!Beyond(dir.limit, k)
         /\ \A k : Search!Exceeds(k) => Search!Exceeds(k)'
         /\ Search!SizeLimit' = Search!SizeLimit
<1>1. HandlerCounts => HandlerCounts'
  BY DEF HandlerCounts, Search!Ignored, Search!Processed
<1>2. \A k : Search!Beyond(dir.limit, k)' <=> Search!Beyond(dir.limit, k)
  BY DEF Search!Beyond
<1>3. Unlimited' => Unlimited
  BY <1>2 DEF Unlimited
<1>4. Search!SizeLimit' = Search!SizeLimit
  BY DEF Search!SizeLimit
<1>5. \A k : Search!Exceeds(k) => Search!Exceeds(k)'
  BY <1>4 DEF Search!Exceeds, Search!Beyond
<1>6. QED BY <1>1, <1>2, <1>3, <1>4, <1>5

(* Before the first request no result was seen.                              *)
LEMMA SearchInit ==
  ASSUME Search!Init
  PROVE  SearchInv
<1>1. /\ step = "Form" /\ form \in [min : {0}, num : PageSizes, output : Search!Outputs, rows : SearchRows, root : BOOLEAN]
      /\ dir \in [n : 0..MaxResults, limit : Limits, noop : BOOLEAN, changes : {0}]
      /\ work = Search!NewHandler /\ report = Search!NoReport /\ past = [seen |-> {}, onward |-> TRUE]
  BY DEF Search!Init
<1>2. Search!TypeOK
  <2>1. MaxResults \in Nat /\ MaxChanges \in Nat /\ PageSizes \subseteq Nat /\ SearchRows \subseteq Seq(Search!RowType)
    BY CommandsAssumption DEF CommandsAssumption, Search!SearchAssumption
  <2>2. form \in [min : Nat, num : Nat, output : Search!Outputs, rows : Seq(Search!RowType), root : BOOLEAN]
    <3>1. /\ form.min = 0 /\ form.num \in PageSizes /\ form.output \in Search!Outputs /\ form.rows \in SearchRows
          /\ form = [min |-> form.min, num |-> form.num, output |-> form.output, rows |-> form.rows, root |-> form.root]
      BY <1>1
    <3>2. form.root \in BOOLEAN
      BY <1>1
    <3>3. form.num \in Nat /\ form.rows \in Seq(Search!RowType) /\ form.min \in Nat
      BY <2>1, <3>1
    <3>4. QED BY <3>1, <3>2, <3>3, Zenon
  <2>3. dir \in [n : Nat, limit : Limits, noop : BOOLEAN, changes : 0..MaxChanges]
    BY <1>1, <2>1
  <2>4. work \in [sent : Nat, begin : Nat, end : Nat, rows : Seq(Nat)]
    BY <1>1 DEF Search!NewHandler
  <2>5. report \in [first : Nat, last : Nat, rows : Seq(Nat), warn : BOOLEAN, foot : Nat,
                    links : SUBSET Search!Links, next : Search!Links]
    BY <1>1 DEF Search!NoReport, Search!NoLink, Search!Links
  <2>6. past \in [seen : SUBSET Nat, onward : BOOLEAN]
    BY <1>1
  <2>7. QED BY <1>1, <2>2, <2>3, <2>4, <2>5, <2>6 DEF Search!TypeOK
<1>3. HandlerCounts
  <2>1. work.sent = 0 /\ work.begin = 0 /\ work.end = 0 /\ work.rows = <<>>
    BY <1>1 DEF Search!NewHandler
  <2>2. work.rows = [i \in 1..(work.end - work.begin) |-> work.begin + i]
    BY <2>1
  <2>3. QED BY <1>2, <2>1, <2>2, SearchNumbers DEF HandlerCounts
<1>4. PageToCome
  BY <1>1 DEF PageToCome
<1>5. QED BY <1>1, <1>2, <1>3, <1>4 DEF SearchInv, SearchUnderWay, LinksLead, Search!RowsAsCounted, Search!LinksAccepted,
                                        Search!LimitIsSaid, Search!FileEnds

(* A search begins with a new handler.                                        *)
LEMMA NewHandlerIs ==
  ASSUME Search!TypeOK, Search!TypeOK', work' = Search!NewHandler
  PROVE  /\ HandlerCounts'
         /\ work' \in [sent : Nat, begin : Nat, end : Nat, rows : Seq(Nat)] /\ work'.sent = 0
<1>1. /\ work'.sent = 0 /\ work'.begin = 0 /\ work'.end = 0 /\ work'.rows = <<>>
      /\ work' \in [sent : Nat, begin : Nat, end : Nat, rows : Seq(Nat)]
  BY DEF Search!NewHandler
<1>2. work'.rows = [i \in 1..(work'.end - work'.begin) |-> work'.begin + i]
  BY <1>1
<1>3. form'.min \in Nat /\ form'.num \in Nat /\ dir'.n \in Nat
  BY DEF Search!TypeOK
<1>4. Search!Ignored' >= 0 /\ Search!Processed' >= 0
  BY <1>3 DEF Search!Ignored, Search!Processed
<1>5. Search!Ignored' \in Nat /\ Search!Processed' \in Nat
  BY <1>3 DEF Search!Ignored, Search!Processed
<1>6. /\ work'.begin <= work'.end /\ work'.end <= work'.sent /\ work'.sent <= dir'.n
      /\ work'.begin <= Search!Ignored' /\ (work'.begin < work'.end => work'.begin = Search!Ignored')
      /\ work'.end = work'.sent
      /\ Search!Processed' > 0 => work'.end <= Search!Ignored' + Search!Processed'
  <2> DEFINE dropped == Search!Ignored'
             kept == Search!Processed'
  <2>1. dropped \in Nat /\ kept \in Nat
    BY <1>5
  <2> HIDE DEF dropped, kept
  <2>2. /\ 0 <= dropped /\ 0 <= dropped + kept /\ 0 <= dir'.n
    BY <1>3, <2>1
  <2>3. QED BY <1>1, <2>2 DEF dropped, kept
<1>7. QED BY <1>1, <1>2, <1>6 DEF HandlerCounts

(* Another page, with the same form and results.                              *)
LEMMA SearchPage ==
  ASSUME SearchInv, UNCHANGED <<form, dir, work, report, past>>,
         \/ step' \in {"Form", "Error", "None"} /\ step = "Results"
         \/ step' = step
         \/ Search!Exceeded
  PROVE  SearchInv'
<1>1. Search!TypeOK'
  BY DEF SearchInv, Search!TypeOK, Search!Exceeded
<1>2. HandlerCounts' /\ PageToCome'
  BY SearchKept DEF SearchInv, PageToCome, Search!Exceeded
<1>3. SearchUnderWay'
  <2>1. CASE Search!Exceeded
    <3>1. step = "Results" /\ step' = "Count" /\ form.output \in Search!Paged /\ Search!Exceeds(work.sent)
      BY <2>1 DEF Search!Exceeded
    <3>2. Reached(Search!SizeLimit) \/ Reached(dir.limit)
      BY <3>1 DEF Search!Exceeds, Search!Beyond, Reached
    <3>3. Search!Exceeds(work.sent)'
      BY <3>1, SearchKept DEF Search!Exceeds, Search!Beyond
    <3>4. QED BY <3>1, <3>2, <3>3, SearchKept DEF SearchUnderWay, Reached
  <2>2. CASE step' # "Count"
    BY <2>2 DEF SearchInv, SearchUnderWay, Search!Beyond, Search!Exceeded
  <2>3. CASE step' = step /\ step = "Count"
    BY <2>3, SearchKept DEF SearchInv, SearchUnderWay, Reached, Search!Exceeds, Search!Beyond
  <2>4. QED BY <2>1, <2>2, <2>3
<1>4. CASE step' # "Page" /\ step' # "File"
  BY <1>1, <1>2, <1>3, <1>4 DEF SearchInv, LinksLead, Search!RowsAsCounted, Search!LinksAccepted,
                                Search!LimitIsSaid, Search!FileEnds
<1>5. CASE step' = step
  <2>1. LinksLead'
    BY <1>5, SearchKept DEF SearchInv, LinksLead
  <2>2. QED BY <1>1, <1>2, <1>3, <1>5, <2>1 DEF SearchInv, Search!RowsAsCounted, Search!LinksAccepted,
                                Search!LimitIsSaid, Search!FileEnds
<1>6. QED BY <1>4, <1>5 DEF Search!Exceeded

(* The form with other rows, or a search that begins.                         *)
LEMMA SearchForm ==
  ASSUME SearchInv, Search!EditRows \/ Search!Submit
  PROVE  SearchInv'
<1>1. CASE Search!EditRows
  <2>1. /\ step = "Form" /\ UNCHANGED <<step, dir, work, report, past>>
        /\ \E i \in DOMAIN form.rows : \E rows :
             /\ rows \in {Search!InsertAt(form.rows, i + 1, [form.rows[i] EXCEPT !.av = ""]), Search!RemoveAt(form.rows, i)}
             /\ form' = [form EXCEPT !.rows = rows]
    BY <1>1 DEF Search!EditRows, SearchInv, Search!TypeOK
  <2>2. PICK i \in DOMAIN form.rows : \E rows :
             /\ rows \in {Search!InsertAt(form.rows, i + 1, [form.rows[i] EXCEPT !.av = ""]), Search!RemoveAt(form.rows, i)}
             /\ form' = [form EXCEPT !.rows = rows]
    BY <2>1
  <2>3. PICK rows : /\ rows \in {Search!InsertAt(form.rows, i + 1, [form.rows[i] EXCEPT !.av = ""]), Search!RemoveAt(form.rows, i)}
                    /\ form' = [form EXCEPT !.rows = rows]
    BY <2>2
  <2>4. form.rows \in Seq(Search!RowType) /\ i \in 1..Len(form.rows) /\ Len(form.rows) \in Nat
    BY DEF SearchInv, Search!TypeOK
  <2>5. form.rows[i] \in Search!RowType
    BY <2>4
  <2> DEFINE row == [form.rows[i] EXCEPT !.av = ""]
  <2>6. row \in Search!RowType
    BY <2>5 DEF Search!RowType
  <2> HIDE DEF row
  <2>7. Search!InsertAt(form.rows, i + 1, row) \in Seq(Search!RowType)
    BY <2>4, <2>6 DEF Search!InsertAt
  <2>8. Search!RemoveAt(form.rows, i) \in Seq(Search!RowType)
    BY <2>4 DEF Search!RemoveAt
  <2>9. rows \in Seq(Search!RowType)
    BY <2>3, <2>7, <2>8 DEF row
  <2>10. /\ form' \in [min : Nat, num : Nat, output : Search!Outputs, rows : Seq(Search!RowType), root : BOOLEAN]
         /\ UNCHANGED <<form.min, form.num, form.output, dir, work>>
    BY <2>1, <2>3, <2>9 DEF SearchInv, Search!TypeOK
  <2>11. Search!TypeOK'
    BY <2>1, <2>10 DEF SearchInv, Search!TypeOK
  <2>12. HandlerCounts' /\ PageToCome'
    BY <2>1, <2>10, SearchKept DEF SearchInv, PageToCome
  <2>13. QED BY <2>1, <2>11, <2>12 DEF SearchInv, SearchUnderWay, LinksLead, Search!RowsAsCounted, Search!LinksAccepted,
                                       Search!LimitIsSaid, Search!FileEnds
<1>2. CASE Search!Submit
  <2>1. /\ step = "Form" /\ step' \in {"Form", "Error", "Results"} /\ UNCHANGED <<form, dir, past>>
        /\ work' = Search!NewHandler /\ report' = Search!NoReport
    BY <1>2 DEF Search!Submit
  <2>2. report' \in [first : Nat, last : Nat, rows : Seq(Nat), warn : BOOLEAN, foot : Nat,
                     links : SUBSET Search!Links, next : Search!Links]
    BY <2>1 DEF Search!NoReport, Search!NoLink, Search!Links
  <2>3. work' \in [sent : Nat, begin : Nat, end : Nat, rows : Seq(Nat)] /\ work'.sent = 0
    BY <2>1 DEF Search!NewHandler
  <2>4. Search!TypeOK'
    BY <2>1, <2>2, <2>3 DEF SearchInv, Search!TypeOK
  <2>5. HandlerCounts'
    BY <2>1, <2>4, NewHandlerIs DEF SearchInv
  <2>6. PageToCome'
    BY <2>1 DEF SearchInv, PageToCome, Unlimited, Search!Beyond
  <2>7. SearchUnderWay'
    BY <2>1, <2>3 DEF SearchUnderWay
  <2>8. QED BY <2>1, <2>4, <2>5, <2>6, <2>7 DEF SearchInv, LinksLead, Search!RowsAsCounted, Search!LinksAccepted,
                                                Search!LimitIsSaid, Search!FileEnds
<1>3. QED BY <1>1, <1>2

(* There are more results, or less, than there were: of those the page is     *)
(* about nothing is said any more.                                            *)
LEMMA SearchOthers ==
  ASSUME SearchInv, Search!OtherChanges
  PROVE  SearchInv'
<1> DEFINE count == dir.changes + 1
<1>1. count \in 0..MaxChanges /\ count > 0
  BY CommandsAssumption DEF CommandsAssumption, Search!SearchAssumption, SearchInv, Search!TypeOK, Search!OtherChanges
<1>2. PICK n \in {dir.n - 1, dir.n + 1} \intersect (work.sent..MaxResults) :
        dir' = [dir EXCEPT !.n = n, !.changes = count]
  BY DEF Search!OtherChanges, SearchInv, Search!TypeOK
<1>3. n \in Nat /\ work.sent <= n
  BY SearchNumbers DEF SearchInv
<1> HIDE DEF count
<1>4. /\ dir' \in [n : Nat, limit : Limits, noop : BOOLEAN, changes : 0..MaxChanges]
      /\ dir'.n = n /\ dir'.limit = dir.limit /\ dir'.changes > 0
  BY <1>1, <1>2, <1>3 DEF SearchInv, Search!TypeOK
<1>5. step \in {"Results", "Count", "Page"} /\ UNCHANGED <<step, form, work, report, past>>
  BY DEF Search!OtherChanges
<1>6. Search!TypeOK'
  BY <1>4, <1>5 DEF SearchInv, Search!TypeOK
<1>7. HandlerCounts'
  BY <1>3, <1>4, <1>5 DEF SearchInv, HandlerCounts, Search!Ignored, Search!Processed
<1>8. ~(dir'.changes = 0)
  BY <1>4
<1>9. SearchUnderWay'
  BY <1>4, <1>5, <1>8 DEF SearchInv, SearchUnderWay, Reached, Search!SizeLimit
<1>10. PageToCome'
  BY <1>5, <1>8 DEF SearchInv, PageToCome
<1>11. LinksLead' /\ Search!LimitIsSaid'
  BY <1>5, <1>8 DEF SearchInv, LinksLead, Search!LimitIsSaid
<1>12. QED BY <1>4, <1>5, <1>6, <1>7, <1>9, <1>10, <1>11
           DEF SearchInv, Search!RowsAsCounted, Search!LinksAccepted, Search!FileEnds

(* One result: dropped, kept, or left out.                                    *)
LEMMA SearchReceives ==
  ASSUME SearchInv, Search!Receive
  PROVE  SearchInv'
<1> DEFINE k == work.sent + 1
           begin == work.begin + 1
           end == work.end + 1
           rows == Append(work.rows, k)
           dropped == Search!Ignored
           kept == Search!Processed
<1>1. /\ step = "Results" /\ work.sent < dir.n /\ ~Search!Exceeds(work.sent) /\ work' = Search!Received(k)
      /\ UNCHANGED <<step, form, dir, report, past>>
  BY DEF Search!Receive
<1>2. /\ work.sent \in Nat /\ work.begin \in Nat /\ work.end \in Nat /\ work.rows \in Seq(Nat) /\ dir.n \in Nat
      /\ k \in Nat /\ begin \in Nat /\ end \in Nat /\ dropped \in Nat /\ kept \in Nat
      /\ k = work.sent + 1 /\ begin = work.begin + 1 /\ end = work.end + 1
  <2>1. /\ work.sent \in Nat /\ work.begin \in Nat /\ work.end \in Nat /\ work.rows \in Seq(Nat) /\ dir.n \in Nat
        /\ form.min \in Nat /\ form.num \in Nat
    BY SearchNumbers DEF SearchInv, Search!TypeOK
  <2>2. dropped \in Nat /\ kept \in Nat
    BY <2>1 DEF Search!Ignored, Search!Processed
  <2>3. QED BY <2>1, <2>2
<1>3. rows \in Seq(Nat)
  BY <1>2
<1>4. /\ work.begin <= work.end /\ work.end <= work.sent /\ work.sent <= dir.n
      /\ work.begin <= dropped /\ (work.begin < work.end => work.begin = dropped)
      /\ work.end = work.sent \/ (kept > 0 /\ work.end = dropped + kept)
      /\ kept > 0 => work.end <= dropped + kept
      /\ work.rows = [i \in 1..(work.end - work.begin) |-> work.begin + i]
  BY DEF SearchInv, HandlerCounts
<1>5. work \in [sent : Nat, begin : Nat, end : Nat, rows : Seq(Nat)]
  BY DEF SearchInv, Search!TypeOK
<1>6. \/ work.end < dropped /\ work' = [work EXCEPT !.sent = k, !.begin = begin, !.end = end]
      \/ /\ ~(work.end < dropped) /\ (kept = 0 \/ work.end < dropped + kept)
         /\ work' = [work EXCEPT !.sent = k, !.rows = rows, !.end = end]
      \/ ~(work.end < dropped) /\ ~(kept = 0 \/ work.end < dropped + kept) /\ work' = [work EXCEPT !.sent = k]
  BY <1>1, <1>5 DEF Search!Received
<1> HIDE DEF k, begin, end, dropped, kept
<1>7. /\ work' \in [sent : Nat, begin : Nat, end : Nat, rows : Seq(Nat)]
      /\ work'.sent = k
  <2> HIDE DEF rows
  <2>1. QED BY <1>2, <1>3, <1>5, <1>6
<1>8. dropped' = dropped /\ kept' = kept
  BY <1>1 DEF dropped, kept, Search!Ignored, Search!Processed
<1>9. HandlerCounts'
  <2>1. CASE work.end < dropped /\ work' = [work EXCEPT !.sent = k, !.begin = begin, !.end = end]
    <3>1. work'.sent = k /\ work'.begin = begin /\ work'.end = end /\ work'.rows = work.rows
      BY <1>2, <1>5, <2>1
    <3>2. work.begin = work.end /\ work.end = work.sent
      BY <1>2, <1>4, <2>1
    <3>3. work'.rows = [i \in 1..(work'.end - work'.begin) |-> work'.begin + i]
      <4>1. work.rows = [i \in 1..0 |-> work.begin + i]
        BY <1>2, <1>4, <3>2
      <4>2. 1..(end - begin) = 1..0 /\ 1..0 = {}
        BY <1>2, <3>2
      <4>3. QED BY <3>1, <4>1, <4>2
    <3>4. /\ begin <= end /\ end <= k /\ k <= dir.n /\ begin <= dropped /\ ~(begin < end) /\ end = k
          /\ kept > 0 => end <= dropped + kept
      BY <1>1, <1>2, <1>4, <2>1, <3>2
    <3>5. QED BY <1>1, <1>8, <3>1, <3>3, <3>4 DEF HandlerCounts, dropped, kept
  <2>2. CASE /\ ~(work.end < dropped) /\ (kept = 0 \/ work.end < dropped + kept)
             /\ work' = [work EXCEPT !.sent = k, !.rows = rows, !.end = end]
    <3>1. work'.sent = k /\ work'.begin = work.begin /\ work'.end = end /\ work'.rows = rows
      BY <1>2, <1>3, <1>5, <2>2
    <3>2. work.begin = dropped /\ work.end = work.sent
      BY <1>2, <1>4, <2>2
    <3>3. work'.rows = [i \in 1..(work'.end - work'.begin) |-> work'.begin + i]
      <4> DEFINE n == work.end - work.begin
      <4>1. n \in Nat /\ work.rows = [i \in 1..n |-> work.begin + i] /\ k = work.begin + (n + 1)
        BY <1>2, <1>4, <3>2
      <4>2. end - work.begin = n + 1
        BY <1>2
      <4> HIDE DEF n
      <4>3. rows = [i \in 1..(n + 1) |-> work.begin + i]
        BY <1>2, <4>1
      <4>4. QED BY <3>1, <4>2, <4>3
    <3>4. /\ work.begin <= end /\ end <= k /\ k <= dir.n /\ work.begin <= dropped /\ end = k
          /\ kept > 0 => end <= dropped + kept
      BY <1>1, <1>2, <1>4, <2>2, <3>2
    <3>5. QED BY <1>1, <1>8, <3>1, <3>2, <3>3, <3>4 DEF HandlerCounts, dropped, kept
  <2>3. CASE ~(work.end < dropped) /\ ~(kept = 0 \/ work.end < dropped + kept) /\ work' = [work EXCEPT !.sent = k]
    <3>1. work'.sent = k /\ work'.begin = work.begin /\ work'.end = work.end /\ work'.rows = work.rows
      BY <1>2, <1>5, <2>3
    <3>2. kept > 0 /\ work.end = dropped + kept /\ work.end <= k /\ k <= dir.n
      <4>1. ~(work.end < dropped) /\ kept # 0 /\ ~(work.end < dropped + kept)
        BY <2>3
      <4>2. kept > 0
        BY <1>2, <4>1
      <4>3. work.end <= dropped + kept /\ work.end <= work.sent
        BY <1>4, <4>2
      <4>4. QED BY <1>1, <1>2, <4>1, <4>2, <4>3
    <3>3. QED BY <1>1, <1>4, <1>8, <3>1, <3>2 DEF HandlerCounts, dropped, kept
  <2>4. QED BY <1>6, <2>1, <2>2, <2>3
<1>10. Search!TypeOK'
  BY <1>1, <1>7 DEF SearchInv, Search!TypeOK
<1>11. SearchUnderWay'
  <2>1. ~Search!Beyond(dir.limit, work.sent)
    BY <1>1 DEF Search!Exceeds
  <2>2. \A j \in 0..(k - 1) : j = work.sent \/ j \in 0..(work.sent - 1)
    BY <1>2
  <2>3. dir.changes = 0 => \A j \in 0..(k - 1) : ~Search!Beyond(dir.limit, j)
    BY <1>1, <2>1, <2>2 DEF SearchInv, SearchUnderWay
  <2>4. QED BY <1>1, <1>7, <2>3 DEF SearchUnderWay, Search!Beyond
<1>12. PageToCome'
  BY <1>1 DEF SearchInv, PageToCome, Unlimited, Search!Beyond
<1>13. QED BY <1>1, <1>9, <1>10, <1>11, <1>12
           DEF SearchInv, LinksLead, Search!RowsAsCounted, Search!LinksAccepted, Search!LimitIsSaid, Search!FileEnds

(* A file has all that was received.                                          *)
LEMMA SearchWrites ==
  ASSUME SearchInv, Search!Write
  PROVE  SearchInv'
<1>1. /\ step = "Results" /\ step' = "File" /\ form.output \notin Search!Paged /\ UNCHANGED <<form, dir, work, past>>
      /\ \E whole \in BOOLEAN : report' = Search!Written(whole)
  BY DEF Search!Write
<1>2. /\ report' \in [first : Nat, last : Nat, rows : Seq(Nat), warn : BOOLEAN, foot : Nat,
                      links : SUBSET Search!Links, next : Search!Links]
      /\ report'.foot = 1
      /\ form.output # "print" => report'.rows = work.rows
  <2>1. PICK whole \in BOOLEAN : report' = Search!Written(whole)
    BY <1>1
  <2> DEFINE rows == IF form.output = "print" /\ ~whole THEN <<>> ELSE work.rows
  <2>2. rows \in Seq(Nat) /\ (form.output # "print" => rows = work.rows)
    BY DEF SearchInv, Search!TypeOK
  <2>3. report' = [Search!NoReport EXCEPT !.rows = rows, !.foot = 1]
    BY <2>1 DEF Search!Written, Search!Foot
  <2> HIDE DEF rows
  <2>4. report' = [first |-> 0, last |-> 0, rows |-> rows, warn |-> FALSE, foot |-> 1, links |-> {}, next |-> Search!NoLink]
    BY <2>3 DEF Search!NoReport
  <2>5. Search!NoLink \in Search!Links
    BY DEF Search!NoLink, Search!Links
  <2>6. QED BY <2>2, <2>4, <2>5
<1>3. Search!TypeOK'
  BY <1>1, <1>2 DEF SearchInv, Search!TypeOK
<1>4. Len(work.rows) = work.sent
  <2>1. /\ work.begin <= work.end /\ work.begin <= 0 /\ work.end = work.sent
        /\ work.rows = [i \in 1..(work.end - work.begin) |-> work.begin + i]
        /\ work.begin \in Nat /\ work.end \in Nat
    BY <1>1, SearchNumbers DEF SearchInv, HandlerCounts
  <2>2. work.begin = 0
    BY <2>1
  <2>3. work.rows = [i \in 1..work.end |-> i]
    BY <2>1, <2>2
  <2>4. QED BY <2>1, <2>3
<1>5. Search!FileEnds'
  BY <1>1, <1>2, <1>4 DEF Search!FileEnds
<1>6. HandlerCounts'
  BY <1>1, SearchKept DEF SearchInv
<1>7. PageToCome'
  BY <1>1 DEF SearchInv, PageToCome
<1>8. QED BY <1>1, <1>3, <1>5, <1>6, <1>7 DEF SearchInv, SearchUnderWay, LinksLead, Search!RowsAsCounted, Search!LinksAccepted,
                                              Search!LimitIsSaid

(* What a page is made of: where it begins and ends, and how many results the *)
(* limits have let through.                                                   *)
LEMMA PageNumbers ==
  ASSUME SearchInv, form.output \in Search!Paged
  PROVE  /\ form.min \in Nat /\ form.num \in Nat /\ dir.n \in Nat /\ dir.limit \in Nat
         /\ work.sent \in Nat /\ work.begin \in Nat /\ work.end \in Nat /\ Search!SizeLimit \in Int
         /\ work.begin <= work.end /\ work.end <= work.sent /\ work.sent <= dir.n
         /\ work.begin <= form.min /\ (work.begin < work.end => work.begin = form.min)
         /\ form.num = 0 => form.min = 0 /\ work.begin = 0 /\ Search!SizeLimit = -1 /\ work.end = work.sent
         /\ form.num > 0 => Search!SizeLimit = form.min + form.num
         /\ work.end = work.sent \/ (form.num > 0 /\ work.end = form.min + form.num + 1)
         /\ (form.num > 0 /\ Search!SizeLimit <= work.end) => work.begin = form.min
         /\ work.rows = [i \in 1..(work.end - work.begin) |-> work.begin + i]
         /\ Reached(Search!SizeLimit) => form.num > 0 /\ Search!SizeLimit <= work.end
         /\ Reached(dir.limit) => dir.limit > 0 /\ dir.limit <= work.sent
<1> DEFINE limit == Search!SizeLimit
           entries == Search!EntriesIn(work.sent)
<1>1. /\ form.min \in Nat /\ form.num \in Nat /\ dir.n \in Nat /\ dir.limit \in Nat
      /\ work.sent \in Nat /\ work.begin \in Nat /\ work.end \in Nat /\ limit \in Int
      /\ limit = IF form.num > 0 THEN form.min + form.num ELSE -1
      /\ entries \in Nat /\ entries <= work.sent
      /\ Search!Ignored = form.min /\ Search!Processed = IF form.num > 0 THEN form.num + 1 ELSE 0
  BY SearchNumbers DEF SearchInv
<1>2. /\ work.begin <= work.end /\ work.end <= work.sent /\ work.sent <= dir.n
      /\ work.begin <= form.min /\ (work.begin < work.end => work.begin = form.min)
      /\ work.end = work.sent \/ (form.num > 0 /\ work.end = form.min + (form.num + 1))
      /\ work.rows = [i \in 1..(work.end - work.begin) |-> work.begin + i]
  BY <1>1 DEF SearchInv, HandlerCounts
<1>3. form.num = 0 => form.min = 0
  BY DEF SearchInv, PageToCome
<1>4. /\ Reached(limit) => limit > 0 /\ limit <= entries
      /\ Reached(dir.limit) => dir.limit > 0 /\ dir.limit <= entries
  <2>1. /\ Reached(limit) => limit > 0 /\ entries >= limit
        /\ Reached(dir.limit) => dir.limit > 0 /\ entries >= dir.limit
    BY DEF Reached
  <2> HIDE DEF limit, entries
  <2>2. QED BY <1>1, <2>1
<1>5. Reached(limit) => form.num > 0 /\ limit <= work.end
  <2> HIDE DEF limit, entries
  <2>1. QED BY <1>1, <1>2, <1>4
<1>6. Reached(dir.limit) => dir.limit > 0 /\ dir.limit <= work.sent
  <2> HIDE DEF entries
  <2>1. QED BY <1>1, <1>4
<1>7. (form.num > 0 /\ limit <= work.end) => work.begin = form.min
  <2> HIDE DEF limit, entries
  <2>1. QED BY <1>1, <1>2
<1>8. form.num = 0 => work.begin = 0 /\ limit = -1 /\ work.end = work.sent
  <2> HIDE DEF limit, entries
  <2>1. QED BY <1>1, <1>2, <1>3
<1>9. form.num > 0 => limit = form.min + form.num
  BY <1>1
<1>10. work.end = work.sent \/ (form.num > 0 /\ work.end = form.min + form.num + 1)
  BY <1>1, <1>2
<1>11. QED BY <1>1, <1>2, <1>3, <1>5, <1>6, <1>7, <1>8, <1>9, <1>10

(* Where the links of a page lead.                                            *)
LEMMA OtherPagesLead ==
  ASSUME SearchInv, form.output \in Search!Paged, NEW found \in {-1, dir.n}, NEW partial \in BOOLEAN,
         NEW link \in Search!OtherPages(found, partial)
  PROVE  /\ form.num > 0
         /\ link.min \in Int /\ link.num \in Nat /\ link = [min |-> link.min, num |-> link.num]
         /\ link.num = 0 => link.min = 0
         /\ link.min >= 0 \/ (found = dir.n /\ link.min = dir.n - form.num)
         /\ link.min < dir.n \/ link.min <= 0
<1> DEFINE min == work.begin
           num == form.num
<1>1. /\ min \in Nat /\ num \in Nat /\ dir.n \in Nat /\ found \in Int /\ min <= dir.n
      /\ num = 0 => min = 0 /\ Search!SizeLimit = -1
  BY PageNumbers
<1>2. /\ (partial /\ Search!SizeLimit > 0) \/ min > 0
      /\ \/ link = Search!Link(0, 0)
         \/ link = Search!Link(0, num)
         \/ min > 0 /\ link = Search!Link(Search!Largest(0, min - num), num)
         \/ found >= 0 /\ link = Search!Link(found - num, num)
  BY DEF Search!OtherPages
<1>3. num > 0
  BY <1>1, <1>2
<1>4. /\ link = Search!Link(link.min, link.num)
      /\ \/ link.min = 0 /\ link.num = 0
         \/ link.min = 0 /\ link.num = num
         \/ min > 0 /\ link.min = Search!Largest(0, min - num) /\ link.num = num
         \/ found >= 0 /\ link.min = found - num /\ link.num = num
  BY <1>2 DEF Search!Link
<1> HIDE DEF min, num
<1>5. Search!Largest(0, min - num) = IF 0 > min - num THEN 0 ELSE min - num
  BY DEF Search!Largest
<1>6. found >= 0 => found = dir.n
  BY <1>1
<1>7. link.min \in Int /\ link.num \in Nat /\ (link.num = 0 => link.min = 0)
  BY <1>1, <1>3, <1>4, <1>5
<1>8. link.min >= 0 \/ (found = dir.n /\ link.min = dir.n - num)
  BY <1>1, <1>3, <1>4, <1>5, <1>6
<1>9. link.min < dir.n \/ link.min <= 0
  BY <1>1, <1>3, <1>4, <1>5, <1>6
<1>10. QED BY <1>3, <1>4, <1>7, <1>8, <1>9 DEF num, Search!Link

(* Where its link to the next page leads.                                     *)
LEMMA NextPageLeads ==
  ASSUME SearchInv, form.output \in Search!Paged, NEW found \in {-1, dir.n}, NEW partial \in BOOLEAN,
         NEW link, link = IF (partial /\ Search!SizeLimit > 0) \/ work.begin > 0
                          THEN Search!NextPage(found, partial) ELSE Search!NoLink
  PROVE  /\ link.min \in Nat /\ link.num \in Int /\ link = [min |-> link.min, num |-> link.num]
         /\ link # Search!NoLink => /\ form.num > 0 /\ link.num = form.num /\ link.min = work.begin + form.num
                                    /\ partial /\ ((found >= 0 /\ work.end < found) \/ work.begin + form.num <= work.end)
         /\ (partial /\ form.num > 0 /\ Search!SizeLimit <= work.end) =>
              link # Search!NoLink /\ link.min = form.min + form.num
<1> DEFINE more == partial /\ ((found >= 0 /\ work.end < found) \/ work.begin + form.num <= work.end)
           shown == (partial /\ Search!SizeLimit > 0) \/ work.begin > 0
           min == work.begin + form.num
<1>1. link = IF shown /\ more THEN Search!Link(min, form.num) ELSE Search!NoLink
  BY DEF Search!NextPage
<1>2. /\ work.begin \in Nat /\ form.num \in Nat /\ form.min \in Nat /\ work.end \in Nat /\ min \in Nat
      /\ form.num = 0 => work.begin = 0 /\ Search!SizeLimit = -1
      /\ form.num > 0 => Search!SizeLimit = form.min + form.num
      /\ (form.num > 0 /\ Search!SizeLimit <= work.end) => work.begin = form.min
  BY PageNumbers
<1>3. shown => form.num > 0
  BY <1>2
<1>4. ASSUME partial, form.num > 0, Search!SizeLimit <= work.end
      PROVE  shown /\ more /\ min = form.min + form.num
  BY <1>2, <1>4
<1> HIDE DEF shown, more, min
<1>5. CASE shown /\ more
  <2>1. link = Search!Link(min, form.num)
    BY <1>1, <1>5
  <2>2. link.min = min /\ link.num = form.num /\ link = [min |-> link.min, num |-> link.num]
    BY <2>1 DEF Search!Link
  <2>3. link # Search!NoLink
    <3>1. Search!NoLink.num = -1
      BY DEF Search!NoLink
    <3>2. QED BY <1>2, <2>2, <3>1
  <2>4. link.min = work.begin + form.num
    BY <2>2 DEF min
  <2>5. partial /\ ((found >= 0 /\ work.end < found) \/ work.begin + form.num <= work.end)
    BY <1>5 DEF more
  <2>6. link.min \in Nat /\ link.num \in Int
    BY <1>2, <2>2
  <2>7. QED BY <1>3, <1>4, <1>5, <2>2, <2>3, <2>4, <2>5, <2>6
<1>6. CASE ~(shown /\ more)
  <2>1. link = Search!NoLink
    BY <1>1, <1>6
  <2>2. link.min = 0 /\ link.num = -1 /\ link = [min |-> link.min, num |-> link.num]
    BY <2>1 DEF Search!NoLink
  <2>3. QED BY <1>4, <1>6, <2>1, <2>2
<1>7. QED BY <1>5, <1>6

(* The page itself: its rows, and the warning where a limit has cut them.     *)
LEMMA SearchShow ==
  ASSUME SearchInv, form.output \in Search!Paged, NEW found \in {-1, dir.n}, NEW exceeded \in BOOLEAN,
         Search!Show(found, exceeded),
         IF exceeded THEN step = "Count" ELSE step = "Results" /\ work.sent = dir.n /\ found = -1
  PROVE  SearchInv'
<1> DEFINE partial == IF exceeded THEN TRUE ELSE Search!SizeLimit >= 0 /\ work.end > Search!SizeLimit
           shown == (partial /\ Search!SizeLimit > 0) \/ work.begin > 0
           next == IF shown THEN Search!NextPage(found, partial) ELSE Search!NoLink
           links == Search!OtherPages(found, partial)
           rows == Search!Rows
           last == IF rows = work.rows THEN work.end ELSE 1
           warn == exceeded /\ Search!Warns
           first == work.begin + 1
           seen == past.seen \union Search!Range(rows)
           limit == Search!SizeLimit
<1>1. /\ step' = IF rows = <<>> THEN "None" ELSE "Page"
      /\ report' = [first |-> first, last |-> last, rows |-> rows, warn |-> warn, foot |-> 1,
                    links |-> links, next |-> next]
      /\ past' = [past EXCEPT !.seen = seen]
      /\ UNCHANGED <<form, dir, work>>
  BY DEF Search!Show
<1>2. /\ form.min \in Nat /\ form.num \in Nat /\ dir.n \in Nat /\ dir.limit \in Nat
      /\ work.sent \in Nat /\ work.begin \in Nat /\ work.end \in Nat /\ limit \in Int
      /\ work.begin <= work.end /\ work.end <= work.sent /\ work.sent <= dir.n
      /\ work.begin <= form.min /\ (work.begin < work.end => work.begin = form.min)
      /\ form.num = 0 => form.min = 0 /\ work.begin = 0 /\ limit = -1 /\ work.end = work.sent
      /\ form.num > 0 => limit = form.min + form.num
      /\ work.end = work.sent \/ (form.num > 0 /\ work.end = form.min + form.num + 1)
      /\ (form.num > 0 /\ limit <= work.end) => work.begin = form.min
      /\ work.rows = [i \in 1..(work.end - work.begin) |-> work.begin + i]
      /\ Reached(limit) => form.num > 0 /\ limit <= work.end
      /\ Reached(dir.limit) => dir.limit > 0 /\ dir.limit <= work.sent
  BY PageNumbers
<1>3. rows = work.rows \/ (rows = <<0>> /\ work.rows = <<>>)
  BY DEF Search!Rows, Search!Context
<1>4. rows \in Seq(Nat) /\ work.rows \in Seq(Nat)
  <2>1. work.rows \in Seq(Nat)
    BY DEF SearchInv, Search!TypeOK
  <2>2. <<0>> \in Seq(Nat)
    OBVIOUS
  <2>3. QED BY <1>3, <2>1, <2>2, Zenon
<1>5. /\ exceeded = TRUE => partial = TRUE
      /\ exceeded = FALSE => (partial = TRUE <=> (limit >= 0 /\ work.end > limit))
      /\ partial \in BOOLEAN /\ warn \in BOOLEAN
  BY DEF Search!Warns
<1>6. exceeded = TRUE => (warn <=> (limit < 0 \/ work.end < limit))
  BY DEF Search!Warns
<1>7. \A link \in links :
        /\ form.num > 0
        /\ link.min \in Int /\ link.num \in Nat /\ link = [min |-> link.min, num |-> link.num]
        /\ link.num = 0 => link.min = 0
        /\ link.min >= 0 \/ (found = dir.n /\ link.min = dir.n - form.num)
        /\ link.min < dir.n \/ link.min <= 0
  <2> HIDE DEF partial
  <2>1. QED BY <1>5, OtherPagesLead
<1>8. /\ next.min \in Nat /\ next.num \in Int /\ next = [min |-> next.min, num |-> next.num]
      /\ next # Search!NoLink => /\ form.num > 0 /\ next.num = form.num /\ next.min = work.begin + form.num
                                 /\ partial /\ ((found >= 0 /\ work.end < found) \/ work.begin + form.num <= work.end)
      /\ (partial /\ form.num > 0 /\ limit <= work.end) =>
           next # Search!NoLink /\ next.min = form.min + form.num
  <2> HIDE DEF partial
  <2>1. QED BY <1>5, NextPageLeads
<1>9. last \in Nat /\ first \in Nat /\ first = work.begin + 1
  BY <1>2
<1>10. seen = past.seen \union Range(rows)
  BY DEF Range, Search!Range
<1> HIDE DEF partial, shown, next, links, rows, warn, limit, first, seen
<1>11. seen \subseteq Nat
  BY <1>4, <1>10 DEF SearchInv, Search!TypeOK, Range
<1>12. past' \in [seen : SUBSET Nat, onward : BOOLEAN] /\ past'.seen = seen /\ past'.onward = past.onward
  BY <1>1, <1>11 DEF SearchInv, Search!TypeOK
<1>13. links \subseteq Search!Links /\ next \in Search!Links
  <2>1. \A link : link.min \in Int /\ link.num \in Int /\ link = [min |-> link.min, num |-> link.num] => link \in Search!Links
    BY DEF Search!Links
  <2>2. \A link \in links : link \in Search!Links
    BY <1>7, <2>1
  <2>3. QED BY <1>8, <2>1, <2>2
<1>14. /\ report' \in [first : Nat, last : Nat, rows : Seq(Nat), warn : BOOLEAN, foot : Nat,
                       links : SUBSET Search!Links, next : Search!Links]
       /\ report'.first = first /\ report'.last = last /\ report'.rows = rows /\ (report'.warn <=> warn)
       /\ report'.links = links /\ report'.next = next
  <2> HIDE DEF last
  <2>1. QED BY <1>1, <1>4, <1>5, <1>9, <1>13
<1>15. Search!TypeOK'
  BY <1>1, <1>12, <1>14 DEF SearchInv, Search!TypeOK
<1>16. HandlerCounts' /\ PageToCome'
  BY <1>1, SearchKept DEF SearchInv, PageToCome
<1>17. \A i : i \in 1..work.end => i \in 1..work.begin \/ i \in seen
  <2>1. \A i \in (work.begin + 1)..work.end : i \in Range(work.rows)
    <3> SUFFICES ASSUME NEW i \in (work.begin + 1)..work.end PROVE i \in Range(work.rows)
      OBVIOUS
    <3>1. i - work.begin \in DOMAIN work.rows /\ work.rows[i - work.begin] = i
      BY <1>2
    <3>2. QED BY <3>1 DEF Range
  <2>2. \A i \in (work.begin + 1)..work.end : work.rows # <<>>
    <3>1. Len(work.rows) = work.end - work.begin /\ Len(<<>>) = 0
      BY <1>2
    <3>2. QED BY <1>2, <3>1
  <2>3. \A i \in (work.begin + 1)..work.end : i \in seen
    BY <1>3, <1>10, <2>1, <2>2
  <2>4. \A i \in 1..work.end : i \in 1..work.begin \/ i \in (work.begin + 1)..work.end
    BY <1>2
  <2>5. QED BY <2>3, <2>4
(* Without another limit the results of the page follow those seen before.    *)
<1>18. (dir.changes = 0 /\ dir.limit = 0 /\ past.onward) => 1..work.end \subseteq seen
  <2>1. (dir.changes = 0 /\ dir.limit = 0 /\ past.onward) => 1..form.min \subseteq seen
    BY <1>10 DEF SearchInv, PageToCome
  <2>2. 1..work.begin \subseteq 1..form.min
    BY <1>2
  <2>3. QED BY <1>17, <2>1, <2>2
(* A page without a next one ends with the last result, if the server allows. *)
<1>19. ASSUME next = Search!NoLink
       PROVE  \/ exceeded = FALSE /\ work.end = dir.n
              \/ exceeded = TRUE /\ (limit < 0 \/ work.end < limit) /\ Reached(dir.limit)
  <2>1. CASE exceeded = TRUE
    <3>1. limit < 0 \/ work.end < limit
      BY <1>2, <1>5, <1>8, <1>19, <2>1
    <3>2. ~Reached(limit)
      BY <1>2, <3>1
    <3>3. Reached(limit) \/ Reached(dir.limit)
      BY <2>1 DEF SearchInv, SearchUnderWay, limit
    <3>4. QED BY <2>1, <3>1, <3>2, <3>3
  <2>2. CASE exceeded = FALSE
    <3>1. ~(limit >= 0 /\ work.end > limit)
      BY <1>2, <1>5, <1>8, <1>19, <2>2
    <3>2. work.end = work.sent
      BY <1>2, <3>1
    <3>3. QED BY <2>2, <3>2, Zenon
  <2>3. QED BY <2>1, <2>2
<1>20. ASSUME next # Search!NoLink, dir.changes = 0, Unlimited
       PROVE  work.begin + form.num <= work.end /\ (exceeded = FALSE => work.begin + form.num < work.end)
              /\ (exceeded = TRUE => work.sent < dir.n)
  <2>1. CASE exceeded = TRUE
    <3>1. Search!Exceeds(work.sent)
      BY <1>20, <2>1 DEF SearchInv, SearchUnderWay
    <3>2. Search!Beyond(limit, work.sent)
      <4>1. work.sent < dir.n => work.sent \in 0..(dir.n - 1)
        BY <1>2
      <4>2. ~Search!Beyond(dir.limit, work.sent)
        BY <1>20, <4>1 DEF Unlimited, Search!Beyond
      <4>3. QED BY <3>1, <4>2 DEF Search!Exceeds, limit
    <3>3. work.sent < dir.n /\ Reached(limit)
      BY <3>2 DEF Search!Beyond, Reached
    <3>4. QED BY <1>2, <2>1, <3>3
  <2>2. CASE exceeded = FALSE
    <3>1. limit >= 0 /\ work.end > limit
      BY <1>5, <1>8, <1>20, <2>2
    <3>2. QED BY <1>2, <2>2, <3>1
  <2>3. QED BY <2>1, <2>2
<1>21. LinksLead'
  <2>1. ASSUME NEW link \in links \union {next}, link # Search!NoLink
        PROVE  link.num \in Nat /\ (link.num = 0 => link.min = 0)
    BY <1>2, <1>7, <1>8, <2>1
  <2>2. ASSUME NEW link \in links \union {next}, dir.changes = 0, Unlimited
        PROVE  link.min < dir.n \/ link.min <= 0
    <3>1. CASE link \in links
      BY <1>7, <3>1
    <3>2. CASE link = Search!NoLink
      BY <3>2 DEF Search!NoLink
    <3>3. CASE link = next /\ next # Search!NoLink
      <4>1. next.min = work.begin + form.num
        BY <1>8, <3>3
      <4>2. /\ work.begin + form.num <= work.end
            /\ exceeded = FALSE => work.begin + form.num < work.end
            /\ exceeded = TRUE => work.sent < dir.n
        BY <1>20, <2>2, <3>3
      <4>3. work.begin + form.num < work.end \/ work.sent < dir.n
        BY <4>2
      <4>4. work.begin + form.num < dir.n
        BY <1>2, <4>2, <4>3
      <4>5. QED BY <3>3, <4>1, <4>4
    <3>4. QED BY <2>2, <3>1, <3>2, <3>3
  <2>3. ASSUME dir.changes = 0, dir.limit = 0, past.onward
        PROVE  IF next = Search!NoLink THEN 1..dir.n \subseteq seen ELSE 1..next.min \subseteq seen
    <3>1. 1..work.end \subseteq seen
      BY <1>18, <2>3
    <3>2. next = Search!NoLink => work.end = dir.n
      <4>1. ~Reached(dir.limit)
        BY <1>2, <2>3
      <4>2. QED BY <1>19, <4>1, Zenon
    <3>3. next # Search!NoLink => next.min <= work.end
      <4>1. Unlimited
        BY <2>3 DEF Unlimited, Search!Beyond
      <4>2. QED BY <1>8, <1>20, <2>3, <4>1
    <3>4. next # Search!NoLink => 1..next.min \subseteq 1..work.end
      BY <1>2, <1>8, <3>3
    <3>5. QED BY <3>1, <3>2, <3>4
  <2>4. UNCHANGED dir /\ (Unlimited' => Unlimited)
    BY <1>1, SearchKept
  <2>5. QED BY <1>12, <1>14, <2>1, <2>2, <2>3, <2>4 DEF LinksLead
<1>22. Search!RowsAsCounted'
  <2>1. CASE rows = work.rows
    <3>1. work.rows = [i \in 1..(work.end - first + 1) |-> first + i - 1]
      <4>1. work.end - first + 1 = work.end - work.begin /\ \A i \in Int : first + i - 1 = work.begin + i
        <5>1. work.begin \in Nat /\ work.end \in Nat
          BY <1>2
        <5> DEFINE b == work.begin
                   e == work.end
        <5> HIDE DEF b, e
        <5>2. b \in Nat /\ e \in Nat /\ first = b + 1
          BY <1>9, <5>1 DEF b, e
        <5>3. e - first + 1 = e - b /\ \A i \in Int : first + i - 1 = b + i
          BY <5>2
        <5>4. QED BY <5>3 DEF b, e
      <4>2. work.rows = [i \in 1..(work.end - work.begin) |-> work.begin + i]
        BY <1>2
      <4> DEFINE n == work.end - work.begin
                 m == work.end - first + 1
      <4>3. n = m
        BY <4>1
      <4>4. \A i \in 1..n : work.begin + i = first + i - 1
        BY <4>1
      <4>5. work.rows = [i \in 1..n |-> work.begin + i]
        BY <4>2
      <4> HIDE DEF n, m
      <4>6. work.rows = [i \in 1..m |-> first + i - 1]
        BY <4>3, <4>4, <4>5
      <4>7. QED BY <4>6 DEF m
    <3>2. QED BY <1>14, <2>1, <3>1 DEF Search!RowsAsCounted
  <2>2. CASE rows = <<0>>
    <3>1. 0 \in Range(rows)
      BY <2>2 DEF Range
    <3>2. Search!Range(rows) = Range(rows)
      BY DEF Range, Search!Range
    <3>3. QED BY <1>14, <3>1, <3>2 DEF Search!RowsAsCounted, Search!Context, Search!Range, Range
  <2>3. QED BY <1>3, <2>1, <2>2
<1>23. Search!LinksAccepted'
  <2>1. ASSUME ~(dir.limit \in 1..(form.num - 1)), NEW link \in links \union {next}
        PROVE  link.min >= 0
    <3>1. CASE link = next
      BY <1>8, <3>1
    <3>2. CASE link \in links /\ found = dir.n /\ exceeded = TRUE
      <4>1. Reached(limit) \/ Reached(dir.limit)
        BY <3>2 DEF SearchInv, SearchUnderWay, limit
      <4>2. form.num <= dir.n
        BY <1>2, <2>1, <4>1
      <4>3. QED BY <1>2, <1>7, <3>2, <4>2
    <3>3. CASE link \in links /\ exceeded = FALSE
      BY <1>2, <1>7, <3>3
    <3>4. CASE link \in links /\ found = -1
      BY <1>2, <1>7, <3>4
    <3>5. QED BY <2>1, <3>1, <3>2, <3>3, <3>4
  <2>2. QED BY <1>1, <1>14, <2>1 DEF Search!LinksAccepted
<1>24. Search!LimitIsSaid'
  <2>1. ASSUME next = Search!NoLink, dir.changes = 0, last < dir.n
        PROVE  warn
    <3>1. CASE exceeded = TRUE
      BY <1>6, <1>19, <2>1, <3>1
    <3>2. CASE exceeded = FALSE
      <4>1. work.end = dir.n
        BY <1>19, <2>1, <3>2
      <4>2. rows # work.rows
        BY <1>2, <2>1, <4>1
      <4>3. work.rows = <<>> /\ last = 1
        BY <1>3, <4>2
      <4>4. work.begin = dir.n /\ form.min >= dir.n /\ dir.n > 1
        <5>1. Len(work.rows) = work.end - work.begin
          BY <1>2
        <5>2. QED BY <1>2, <2>1, <4>1, <4>3, <5>1
      <4>5. Unlimited
        BY <2>1, <3>2 DEF SearchInv, SearchUnderWay, Unlimited
      <4>6. form.min < dir.n \/ form.min = 0
        BY <2>1, <3>2, <4>5 DEF SearchInv, PageToCome
      <4>7. QED BY <1>2, <4>4, <4>6
    <3>3. QED BY <3>1, <3>2
  <2>2. QED BY <1>1, <1>14, <2>1 DEF Search!LimitIsSaid
<1>25. step' \in {"None", "Page"}
  BY <1>1
<1>26. QED BY <1>15, <1>16, <1>21, <1>22, <1>23, <1>24, <1>25 DEF SearchInv, SearchUnderWay, Search!FileEnds

(* A link of the page, which is a form to be checked again.                   *)
LEMMA SearchFollows ==
  ASSUME SearchInv, NEW link \in report.links \union {report.next}, Search!Follow(link)
  PROVE  SearchInv'
<1>1. /\ step = "Page" /\ link # Search!NoLink /\ dir' = dir
      /\ past' = IF link = report.next /\ past.onward THEN past ELSE [seen |-> {}, onward |-> link.min = 0]
      /\ \/ link.min < 0 /\ step' = "Error" /\ UNCHANGED <<form, work, report>>
         \/ /\ ~(link.min < 0) /\ step' = "Results" /\ form' = [form EXCEPT !.min = link.min, !.num = link.num]
            /\ work' = Search!NewHandler /\ report' = Search!NoReport
  BY DEF Search!Follow
<1>2. /\ link.min \in Int /\ link.num \in Nat /\ (link.num = 0 => link.min = 0)
      /\ (dir.changes = 0 /\ Unlimited) => link.min < dir.n \/ link.min <= 0
  <2>1. link \in Search!Links
    BY DEF SearchInv, Search!TypeOK
  <2>2. link.min \in Int
    BY <2>1 DEF Search!Links
  <2>3. QED BY <1>1, <2>2 DEF SearchInv, LinksLead
<1>3. past' \in [seen : SUBSET Nat, onward : BOOLEAN]
  <2>1. past \in [seen : SUBSET Nat, onward : BOOLEAN]
    BY DEF SearchInv, Search!TypeOK
  <2>2. [seen |-> {}, onward |-> link.min = 0] \in [seen : SUBSET Nat, onward : BOOLEAN]
    OBVIOUS
  <2>3. QED BY <1>1, <2>1, <2>2, Zenon
<1>4. CASE link.min < 0 /\ step' = "Error" /\ UNCHANGED <<form, work, report>>
  <2>1. Search!TypeOK'
    BY <1>1, <1>3, <1>4 DEF SearchInv, Search!TypeOK
  <2>2. HandlerCounts' /\ PageToCome'
    BY <1>1, <1>4, SearchKept DEF SearchInv, PageToCome
  <2>3. QED BY <1>4, <2>1, <2>2 DEF SearchInv, SearchUnderWay, LinksLead, Search!RowsAsCounted,
                                    Search!LinksAccepted, Search!LimitIsSaid, Search!FileEnds
<1>5. CASE /\ ~(link.min < 0) /\ step' = "Results" /\ form' = [form EXCEPT !.min = link.min, !.num = link.num]
           /\ work' = Search!NewHandler /\ report' = Search!NoReport
  <2>1. link.min \in Nat
    BY <1>2, <1>5
  <2>2. /\ form' \in [min : Nat, num : Nat, output : Search!Outputs, rows : Seq(Search!RowType), root : BOOLEAN]
        /\ form'.min = link.min /\ form'.num = link.num
    BY <1>2, <1>5, <2>1 DEF SearchInv, Search!TypeOK
  <2>3. report' \in [first : Nat, last : Nat, rows : Seq(Nat), warn : BOOLEAN, foot : Nat,
                     links : SUBSET Search!Links, next : Search!Links]
    BY <1>5 DEF Search!NoReport, Search!NoLink, Search!Links
  <2>4. work' \in [sent : Nat, begin : Nat, end : Nat, rows : Seq(Nat)] /\ work'.sent = 0
    BY <1>5 DEF Search!NewHandler
  <2>5. Search!TypeOK'
    BY <1>1, <1>3, <1>5, <2>2, <2>3, <2>4 DEF SearchInv, Search!TypeOK
  <2>6. HandlerCounts'
    BY <1>5, <2>5, NewHandlerIs DEF SearchInv
  <2>7. ASSUME dir.changes = 0, Unlimited'
        PROVE  link.min < dir.n \/ link.min = 0
    <3>1. Unlimited
      BY <1>1, <2>7 DEF Unlimited, Search!Beyond
    <3>2. link.min < dir.n \/ link.min <= 0
      BY <1>2, <2>7, <3>1
    <3>3. QED BY <2>1, <3>2
  <2>8. ASSUME dir.changes = 0, past'.onward, dir.limit = 0
        PROVE  1..link.min \subseteq past'.seen
    <3>1. CASE link = report.next /\ past.onward
      <4>1. past' = past /\ report.next # Search!NoLink
        BY <1>1, <3>1
      <4>2. QED BY <1>1, <2>8, <3>1, <4>1 DEF SearchInv, LinksLead
    <3>2. CASE ~(link = report.next /\ past.onward)
      <4>1. past' = [seen |-> {}, onward |-> link.min = 0]
        BY <1>1, <3>2
      <4>2. past'.onward = (link.min = 0)
        BY <4>1
      <4>3. link.min = 0
        BY <2>8, <4>2
      <4>4. QED BY <4>3
    <3>3. QED BY <3>1, <3>2
  <2>9. PageToCome'
    BY <1>1, <1>2, <2>2, <2>7, <2>8 DEF PageToCome
  <2>10. SearchUnderWay'
    BY <1>5, <2>4 DEF SearchUnderWay
  <2>11. QED BY <1>5, <2>5, <2>6, <2>9, <2>10 DEF SearchInv, LinksLead, Search!RowsAsCounted,
                                    Search!LinksAccepted, Search!LimitIsSaid, Search!FileEnds
<1>6. QED BY <1>1, <1>4, <1>5

(* Every step of the search.                                                  *)
LEMMA SearchStep ==
  ASSUME SearchInv, [Search!Next]_Search!vars
  PROVE  SearchInv'
<1>1. CASE UNCHANGED Search!vars
  BY <1>1, SearchPage DEF Search!vars
<1>2. CASE Search!OtherChanges
  BY <1>2, SearchOthers
<1>3. CASE Search!EditRows \/ Search!Submit
  BY <1>3, SearchForm
<1>4. CASE Search!Receive
  BY <1>4, SearchReceives
<1>5. CASE Search!SearchFails
  BY <1>5, SearchPage DEF Search!SearchFails
<1>6. CASE Search!ShowAll
  BY <1>6, SearchShow DEF Search!ShowAll
<1>7. CASE Search!Exceeded
  BY <1>7, SearchPage DEF Search!Exceeded
<1>8. CASE Search!ShowPart
  <2>1. form.output \in Search!Paged /\ step = "Count"
    BY <1>8 DEF Search!ShowPart, SearchInv, SearchUnderWay
  <2>2. PICK found \in {-1} \union (IF dir.noop THEN {dir.n} ELSE {}) : Search!Show(found, TRUE)
    BY <1>8 DEF Search!ShowPart
  <2>3. found \in {-1, dir.n}
    OBVIOUS
  <2>4. QED BY <2>1, <2>2, <2>3, SearchShow
<1>9. CASE Search!Write
  BY <1>9, SearchWrites
<1>10. CASE \E link \in report.links \union {report.next} : Search!Follow(link)
  BY <1>10, SearchFollows
<1>11. QED BY <1>1, <1>2, <1>3, <1>4, <1>5, <1>6, <1>7, <1>8, <1>9, <1>10 DEF Search!Next

(* search, for any number of results, of which any are continuations, any     *)
(* limits and page sizes: the rows are those the page counts, who follows the  *)
(* links to the end has seen all results, a limit is said, links are accepted,  *)
(* and a file has its end.                                                     *)
THEOREM PagesReported == DispatchSpec => []PagesReport
<1> DEFINE SInv == command = "search" => SearchInv
<1>1. DispatchInit => SInv
  BY SearchInit DEF DispatchInit
<1>2. SInv /\ [DispatchNext]_all => SInv'
  BY OneCommand, SearchStep
<1>3. SInv => PagesReport
  <2>1. ASSUME SearchInv
        PROVE  Search!PagesCoverAll
    BY <2>1 DEF SearchInv, LinksLead, Search!PagesCoverAll
  <2>2. QED BY <2>1 DEF SearchInv, PagesReport
<1>4. QED BY <1>1, <1>2, <1>3, PTL DEF DispatchSpec

-----------------------------------------------------------------------------
(* The next two commands keep what the modules about them have proved: their  *)
(* definitions are the same, and so is the specification.                     *)

Shared == INSTANCE SessionCachesProofs WITH pc <- step, Dns <- CacheDns
Number == INSTANCE PosixIdsProofs WITH pc <- step, Servers <- IdServers, Starts <- IdStarts

(* Only its own steps, too, for the command that uses the caches, or the form *)
(* to add an entry.                                                           *)
LEMMA OneThreadCommand ==
  ASSUME [DispatchNext]_all
  PROVE  /\ command' = command
         /\ command = "read" => [Caches!Next]_Caches!vars
         /\ command = "addform" => [Ids!Next]_Ids!vars
<1>1. CASE UNCHANGED all
  BY <1>1 DEF all, others, Caches!vars, Ids!vars
<1>2. CASE DispatchNext
  BY <1>2 DEF DispatchNext, DeleteNext, BulkNext, GroupNext, NamingNext, PasswordNext, SearchNext,
              CachesNext, IdsNext, ChosenNext
<1>3. QED BY <1>1, <1>2

(* What is assumed of the caches. *)
LEMMA CachesAssumed ==
  Caches!CachesAssumption => Shared!CachesAssumption
<1>1. /\ Caches!Oids = Shared!Oids /\ Caches!MethodSets = Shared!MethodSets
      /\ Caches!Kinds = Shared!Kinds /\ Caches!Methods = Shared!Methods
  BY DEF Caches!Oids, Shared!Oids, Caches!MethodSets, Shared!MethodSets, Caches!Methods, Shared!Methods, Caches!Kinds,
         Shared!Kinds, Caches!BindKinds, Shared!BindKinds, Caches!WriteKinds, Shared!WriteKinds, Caches!ReadKinds,
         Shared!ReadKinds
<1>2. Caches!Ops = Shared!Ops
  BY <1>1 DEF Caches!Ops, Shared!Ops
<1>3. \A kind : Caches!Lists(kind) = Shared!Lists(kind)
  BY DEF Caches!Lists, Shared!Lists, Caches!BindKinds, Shared!BindKinds, Caches!WriteKinds, Shared!WriteKinds,
         Caches!ReadKinds, Shared!ReadKinds
<1>4. \A kind : Caches!ListSet(kind) = Shared!ListSet(kind)
  BY <1>3 DEF Caches!ListSet, Shared!ListSet
<1>5. \A S : Caches!Cardinality(S) = Shared!Cardinality(S)
  BY DEF Caches!Cardinality, Shared!Cardinality
<1>6. QED BY <1>1, <1>2, <1>4, <1>5 DEF Caches!CachesAssumption, Shared!CachesAssumption, Caches!Root, Shared!Root

(* How the threads that use them begin. *)
LEMMA CachesInit ==
  Caches!Init => Shared!Init
BY DEF Caches!Init, Shared!Init, Caches!NoLocals, Shared!NoLocals, Caches!NoPast, Shared!NoPast, Caches!None,
       Shared!None, Caches!Absent, Shared!Absent, Caches!Methods, Shared!Methods, Caches!Kinds, Shared!Kinds,
       Caches!BindKinds, Shared!BindKinds, Caches!WriteKinds, Shared!WriteKinds, Caches!ReadKinds,
       Shared!ReadKinds, Caches!NoSchema, Shared!NoSchema, Caches!NoAnswer, Shared!NoAnswer, Caches!Root,
       Shared!Root

(* Each of their steps: the helpers are the same, and so is each action. *)
LEMMA CachesStep ==
  [Caches!Next]_Caches!vars => [Shared!Next]_Shared!vars
<1>1. Caches!ServerChanges \/ Caches!Expires => Shared!ServerChanges \/ Shared!Expires
  BY DEF Caches!ServerChanges, Shared!ServerChanges, Caches!Expires, Shared!Expires, Caches!Absent,
         Shared!Absent, Caches!NoAnswer, Shared!NoAnswer
<1>2. ASSUME NEW t \in Threads, Caches!Thread(t)
      PROVE  Shared!Thread(t)
  <2>1. Caches!Begin(t) => Shared!Begin(t)
    BY DEF Caches!Begin, Shared!Begin, Caches!Goto, Shared!Goto, Caches!Toggles, Shared!Toggles,
           Caches!Busy, Shared!Busy, Caches!Lists, Shared!Lists, Caches!BindKinds, Shared!BindKinds,
           Caches!WriteKinds, Shared!WriteKinds, Caches!ReadKinds, Shared!ReadKinds, Caches!NoLocals,
           Shared!NoLocals, Caches!None, Shared!None
  <2>2. Caches!Again(t) => Shared!Again(t)
    BY DEF Caches!Again, Shared!Again, Caches!Goto, Shared!Goto, Caches!Busy, Shared!Busy, Caches!NoLocals,
           Shared!NoLocals, Caches!None, Shared!None
  <2>3. /\ Caches!TestDn(t) => Shared!TestDn(t)
        /\ Caches!IndexDn(t) => Shared!IndexDn(t)
    BY DEF Caches!TestDn, Shared!TestDn, Caches!IndexDn, Shared!IndexDn, Caches!Goto, Shared!Goto,
           Caches!Absent, Shared!Absent
  <2>4. /\ Caches!SearchDn(t) => Shared!SearchDn(t)
        /\ Caches!KeepDn(t) => Shared!KeepDn(t)
        /\ Caches!StoreDn(t) => Shared!StoreDn(t)
    BY DEF Caches!SearchDn, Shared!SearchDn, Caches!KeepDn, Shared!KeepDn, Caches!StoreDn, Shared!StoreDn,
           Caches!Goto, Shared!Goto, Caches!Flushing, Shared!Flushing, Caches!Key, Shared!Key,
           Caches!Found, Shared!Found, Caches!Deny, Shared!Deny, Caches!Root, Shared!Root, Caches!None,
           Shared!None, Caches!Absent, Shared!Absent
  <2>5. /\ Caches!TestSchema(t) => Shared!TestSchema(t)
        /\ Caches!IndexSchema(t) => Shared!IndexSchema(t)
    BY DEF Caches!TestSchema, Shared!TestSchema, Caches!IndexSchema, Shared!IndexSchema, Caches!Goto,
           Shared!Goto, Caches!Return, Shared!Return, Caches!Finish, Shared!Finish, Caches!NoLocals,
           Shared!NoLocals, Caches!None, Shared!None
  <2>6. /\ Caches!ReadSchema(t) => Shared!ReadSchema(t)
        /\ Caches!KeepSchema(t) => Shared!KeepSchema(t)
        /\ Caches!StoreSchema(t) => Shared!StoreSchema(t)
    BY DEF Caches!ReadSchema, Shared!ReadSchema, Caches!KeepSchema, Shared!KeepSchema, Caches!StoreSchema,
           Shared!StoreSchema, Caches!Goto, Shared!Goto, Caches!Return, Shared!Return, Caches!Finish,
           Shared!Finish, Caches!Flushing, Shared!Flushing, Caches!Deny, Shared!Deny, Caches!NoAnswer,
           Shared!NoAnswer, Caches!NoLocals, Shared!NoLocals, Caches!None, Shared!None
  <2>7. /\ Caches!TestAudit(t) => Shared!TestAudit(t)
        /\ Caches!IndexAudit(t) => Shared!IndexAudit(t)
        /\ Caches!StoreAudit(t) => Shared!StoreAudit(t)
    BY DEF Caches!TestAudit, Shared!TestAudit, Caches!IndexAudit, Shared!IndexAudit, Caches!StoreAudit,
           Shared!StoreAudit, Caches!Goto, Shared!Goto, Caches!Return, Shared!Return, Caches!InAudit,
           Shared!InAudit, Caches!Absent, Shared!Absent, Caches!None, Shared!None
  <2>8. /\ Caches!FlushDns(t) => Shared!FlushDns(t)
        /\ Caches!FlushSchema(t) => Shared!FlushSchema(t)
    BY DEF Caches!FlushDns, Shared!FlushDns, Caches!FlushSchema, Shared!FlushSchema, Caches!Goto,
           Shared!Goto, Caches!AtKey, Shared!AtKey, Caches!Meanwhile, Shared!Meanwhile, Caches!Late,
           Shared!Late, Caches!EmptyDns, Shared!EmptyDns, Caches!SchemaKept, Shared!SchemaKept,
           Caches!NoSchema, Shared!NoSchema, Caches!Absent, Shared!Absent
  <2>9. /\ Caches!FlushAudit(t) => Shared!FlushAudit(t)
        /\ Caches!FlushResults(t) => Shared!FlushResults(t)
    BY DEF Caches!FlushAudit, Shared!FlushAudit, Caches!FlushResults, Shared!FlushResults, Caches!Goto,
           Shared!Goto, Caches!Return, Shared!Return, Caches!AtKey, Shared!AtKey, Caches!Meanwhile,
           Shared!Meanwhile, Caches!NoAnswer, Shared!NoAnswer, Caches!Absent, Shared!Absent
  <2>10. /\ Caches!GetCtrls(t) => Shared!GetCtrls(t)
         /\ Caches!SetCtrls(t) => Shared!SetCtrls(t)
         /\ Caches!ShowParams(t) => Shared!ShowParams(t)
    BY DEF Caches!GetCtrls, Shared!GetCtrls, Caches!SetCtrls, Shared!SetCtrls, Caches!ShowParams,
           Shared!ShowParams, Caches!Goto, Shared!Goto, Caches!Return, Shared!Return, Caches!WithControl,
           Shared!WithControl, Caches!Todo, Shared!Todo, Caches!None, Shared!None
  <2>11. /\ Caches!ReadList(t) => Shared!ReadList(t)
         /\ Caches!Send(t) => Shared!Send(t)
    BY DEF Caches!ReadList, Shared!ReadList, Caches!Send, Shared!Send, Caches!Goto, Shared!Goto,
           Caches!Return, Shared!Return
  <2>12. QED
    BY <1>2, <2>1, <2>2, <2>3, <2>4, <2>5, <2>6, <2>7, <2>8, <2>9, <2>10, <2>11 DEF Caches!Thread, Shared!Thread
<1>3. QED
  BY <1>1, <1>2 DEF Caches!Next, Shared!Next, Caches!vars, Shared!vars

(* What was proved of them. *)
LEMMA CachesShared ==
  /\ Shared!SchemaSinceFlush => Caches!SchemaSinceFlush
  /\ Shared!DefaultHasReason => Caches!DefaultHasReason
  /\ Shared!KeyErrorOnlyByFlush => Caches!KeyErrorOnlyByFlush
  /\ Shared!ControlsAsWanted => Caches!ControlsAsWanted
  /\ Shared!SentAsWanted => Caches!SentAsWanted
BY DEF Caches!SchemaSinceFlush, Shared!SchemaSinceFlush, Caches!DefaultHasReason, Shared!DefaultHasReason,
       Caches!KeyErrorOnlyByFlush, Shared!KeyErrorOnlyByFlush, Caches!ControlsAsWanted,
       Shared!ControlsAsWanted, Caches!SentAsWanted, Shared!SentAsWanted, Caches!None, Shared!None,
       Caches!Busy, Shared!Busy, Caches!Toggles, Shared!Toggles, Caches!Oids, Shared!Oids, Caches!Methods,
       Shared!Methods, Caches!Kinds, Shared!Kinds, Caches!BindKinds, Shared!BindKinds, Caches!WriteKinds,
       Shared!WriteKinds, Caches!ReadKinds, Shared!ReadKinds, Caches!ListSet, Shared!ListSet, Caches!Lists,
       Shared!Lists

(* Requests that use the caches of a session at the same time, as a command:  *)
(* a flush forgets the schema, the default schema and a KeyError have a reason, *)
(* and requests are sent with the controls wanted for them.                    *)
THEOREM CachesStayFresh == DispatchSpec => []CachesFresh
<1> DEFINE On == command = "read"
           Off == command # "read"
           Known == /\ Shared!SchemaSinceFlush
                    /\ Shared!DefaultHasReason
                    /\ Shared!KeyErrorOnlyByFlush
                    /\ Shared!ControlsAsWanted
                    /\ Shared!SentAsWanted
           Begun == Shared!Init
<1>1. DispatchInit => Off \/ (On /\ Begun)
  BY CachesInit DEF DispatchInit
<1>2. On /\ [DispatchNext]_all => On' /\ [Shared!Next]_Shared!vars
  BY OneThreadCommand, CachesStep
<1>3. Off /\ [DispatchNext]_all => Off'
  BY OneThreadCommand
<1>4. Shared!CachesAssumption
  BY CommandsAssumption, CachesAssumed DEF CommandsAssumption
<1>5. Shared!Spec => []Shared!SchemaSinceFlush
  BY <1>4, Shared!SchemaNotOlder
<1>6. Shared!Spec => []Shared!DefaultHasReason
  BY <1>4, Shared!DefaultJustified
<1>7. Shared!Spec => []Shared!KeyErrorOnlyByFlush
  BY <1>4, Shared!KeyErrorJustified
<1>8. Shared!Spec => []Shared!ControlsAsWanted
  BY <1>4, Shared!ControlsCorrect
<1>9. Shared!Spec => []Shared!SentAsWanted
  BY <1>4, Shared!SentCorrect
<1>10. Shared!Spec => []Known
  BY <1>5, <1>6, <1>7, <1>8, <1>9, PTL
<1>11. Known => CachesFresh
  BY CachesShared DEF CachesFresh
<1>12. Off => CachesFresh
  BY DEF CachesFresh
<1>13. Shared!Spec <=> Begun /\ [][Shared!Next]_Shared!vars
  BY DEF Shared!Spec
<1> HIDE DEF Known, On, Off, Begun
<1>14. QED BY <1>1, <1>2, <1>3, <1>10, <1>11, <1>12, <1>13, PTL DEF DispatchSpec

(* What is assumed of the numbers. *)
LEMMA IdsAssumed ==
  Ids!PosixAssumption => Number!PosixAssumption
BY DEF Ids!PosixAssumption, Number!PosixAssumption, Ids!Ids, Number!Ids, Ids!Requests, Number!Requests

(* How the threads that look for them begin. *)
LEMMA IdsInit ==
  Ids!Init => Number!Init
BY DEF Ids!Init, Number!Init, Ids!Ids, Number!Ids, Ids!Requests, Number!Requests, Ids!Idle, Number!Idle,
       Ids!NoWork, Number!NoWork

(* Each of their steps. *)
LEMMA IdsStep ==
  [Ids!Next]_Ids!vars => [Number!Next]_Number!vars
BY DEF Ids!Next, Number!Next, Ids!vars, Number!vars, Ids!Ids, Number!Ids, Ids!Requests, Number!Requests,
       Ids!Idle, Number!Idle, Ids!NoWork, Number!NoWork, Ids!Used, Number!Used, Ids!Goto, Number!Goto,
       Ids!Searching, Number!Searching, Ids!OtherAdds, Number!OtherAdds, Ids!OtherDeletes, Number!OtherDeletes,
       Ids!Request, Number!Request, Ids!Search, Number!Search, Ids!LoopStart, Number!LoopStart, Ids!Loop,
       Number!Loop, Ids!Raised, Number!Raised, Ids!Step, Number!Step, Ids!Reread, Number!Reread, Ids!NextGid,
       Number!NextGid, Ids!Increment, Number!Increment, Ids!WithId, Number!WithId, Ids!Write, Number!Write,
       Ids!Thread, Number!Thread

(* What was proved of them. *)
LEMMA IdsNumber ==
  /\ Number!SuggestedIsFree => Ids!SuggestedIsFree
  /\ Number!MinPassesUsed => Ids!MinPassesUsed
  /\ Number!PoolIdsUnique => Ids!PoolIdsUnique
BY DEF Ids!MinPassesUsed, Number!MinPassesUsed, Ids!SuggestedIsFree, Number!SuggestedIsFree, Ids!PoolIdsUnique,
       Number!PoolIdsUnique, Ids!Used, Number!Used, Ids!Ids, Number!Ids

(* The forms to add accounts, as a command: a number that is suggested is free, *)
(* none that is free is passed over, and a pool gives none twice.             *)
THEOREM IdsStayUnique == DispatchSpec => []IdsUnique
<1> DEFINE On == command = "addform"
           Off == command # "addform"
           Known == /\ Number!SuggestedIsFree
                    /\ Number!MinPassesUsed
                    /\ Number!PoolIdsUnique
           Begun == Number!Init
<1>1. DispatchInit => Off \/ (On /\ Begun)
  BY IdsInit DEF DispatchInit
<1>2. On /\ [DispatchNext]_all => On' /\ [Number!Next]_Number!vars
  BY OneThreadCommand, IdsStep
<1>3. Off /\ [DispatchNext]_all => Off'
  BY OneThreadCommand
<1>4. Number!PosixAssumption
  BY CommandsAssumption, IdsAssumed DEF CommandsAssumption
<1>5. Number!Spec => []Number!SuggestedIsFree
  BY <1>4, Number!SuggestionFree
<1>6. Number!Spec => []Number!MinPassesUsed
  BY <1>4, Number!NoNumberPassedOver
<1>7. Number!Spec => []Number!PoolIdsUnique
  BY <1>4, Number!PoolNumbersUnique
<1>8. Number!Spec => []Known
  BY <1>5, <1>6, <1>7, PTL
<1>9. Known => IdsUnique
  BY IdsNumber DEF IdsUnique
<1>10. Off => IdsUnique
  BY DEF IdsUnique
<1>11. Number!Spec <=> Begun /\ [][Number!Next]_Number!vars
  BY DEF Number!Spec
<1> HIDE DEF Known, On, Off, Begun
<1>12. QED BY <1>1, <1>2, <1>3, <1>8, <1>9, <1>10, <1>11, PTL DEF DispatchSpec

-----------------------------------------------------------------------------
(* The object classes of an entry                                            *)

(* An attribute is <<type, option>>; the records have the fields that        *)
(* requests change; nothing was there before an entry is added; a page that    *)
(* was saved is followed by none.                                             *)
Paired(attrs) == \A a \in attrs : a = <<a[1], a[2]>>
ClassRecords ==
  /\ form.page \in {"", "Templates", "OC", "Template", "Table"}
  /\ work = [cmd |-> work.cmd, parent |-> work.parent, entry |-> work.entry]
  /\ past = [classes |-> past.classes, attrs |-> past.attrs, again |-> past.again]
  /\ Paired(form.attrs) /\ Paired(work.entry.attrs)
  /\ work.cmd = "add" => form.old = {}
  /\ report = "saved" => form.page = ""

(* What the first form had and this one has not is what an option or the     *)
(* schema takes from it: Save deletes no more than that.                      *)
MayGo(a) == a[2] # "" \/ (a[1] \in ClassSchema.fixed /\ ~dir.relax)
FormReduced ==
  /\ form.page = "Template" => ~dir.relax
  /\ \A a \in form.old \ form.attrs : MayGo(a)

ClassesInv ==
  /\ ClassRecords /\ FormReduced
  /\ Chosen!ClassesAsChosen /\ Chosen!EntryKept /\ Chosen!OnlyOptionsLost

(* Every class that is to be selected is among the options of the four select *)
(* fields, whatever its kind.                                                 *)
LEMMA ClassesOffered ==
  ASSUME NEW classes
  PROVE  classes \subseteq Chosen!ClassOptions(classes)
<1> SUFFICES ASSUME NEW c \in classes
             PROVE  c \in Chosen!ClassOptions(classes)
  OBVIOUS
<1>1. CASE \E k \in Chosen!Kinds : c \in Chosen!object_class_categories(classes, k)
  <2>1. PICK k \in Chosen!Kinds : c \in Chosen!object_class_categories(classes, k)
    BY <1>1
  <2>2. c \in Chosen!OptionsOf(classes, k)
    BY <2>1, Zenon DEF Chosen!OptionsOf
  <2>3. QED BY <2>2, Zenon DEF Chosen!ClassOptions
<1>2. CASE ~\E k \in Chosen!Kinds : c \in Chosen!object_class_categories(classes, k)
  <2>1. c \in Chosen!Misc(classes)
    BY <1>2, Zenon DEF Chosen!Misc
  <2>2. QED BY <2>1, Zenon DEF Chosen!ClassOptions
<1>3. QED BY <1>1, <1>2

(* The tables have each attribute without an option; the HTML templates each *)
(* but for those that are not user-modifiable.                                *)
LEMMA FormHas ==
  ASSUME NEW type, NEW classes, NEW attrs, NEW old, Paired(attrs)
  PROVE  LET f == Chosen!InputForm(type, classes, attrs, old)
         IN /\ f.page \in {"Template", "Table"} /\ f.classes = classes /\ f.old = old
            /\ f.attrs \subseteq attrs
            /\ f.page = "Template" => ~dir.relax
            /\ \A a \in attrs \ f.attrs : a[2] # "" \/ (f.page = "Template" /\ a[1] \in ClassSchema.fixed)
<1> DEFINE f == Chosen!InputForm(type, classes, attrs, old)
           html == type = "Template" /\ Chosen!Displayed(classes) # {} /\ ~dir.relax
           types == Chosen!attribute_types(classes)
           shown == Chosen!Displayed(classes)
<1>1. /\ f.page = IF html THEN "Template" ELSE "Table"
      /\ f.classes = classes /\ f.old = old
      /\ f.attrs = IF html THEN Chosen!TemplateOutput(attrs, shown) ELSE Chosen!Tables(attrs, types)
  BY DEF Chosen!InputForm, Chosen!EmptyPage
<1>2. Chosen!TemplateOutput(attrs, shown) \subseteq attrs /\ Chosen!Tables(attrs, types) \subseteq attrs
  BY DEF Chosen!TemplateOutput, Chosen!Tables
<1>3. \A a \in attrs \ Chosen!TemplateOutput(attrs, shown) : a[2] # "" \/ a[1] \in ClassSchema.fixed
  BY DEF Chosen!TemplateOutput
<1>4. ASSUME NEW a \in attrs \ Chosen!Tables(attrs, types), a[2] = ""
      PROVE  FALSE
  <2>1. a[1] \notin types /\ <<a[1], "">> \notin Chosen!nomatching_attrs(attrs, types)
    BY DEF Chosen!Tables
  <2>2. a = <<a[1], a[2]>>
    BY DEF Paired
  <2>3. a \notin Chosen!nomatching_attrs(attrs, types)
    BY <2>1, <2>2, <1>4
  <2>4. QED BY <2>1, <2>3 DEF Chosen!nomatching_attrs
<1>5. f.attrs \subseteq attrs /\ \A a \in attrs \ f.attrs : a[2] # "" \/ (f.page = "Template" /\ a[1] \in ClassSchema.fixed)
  <2> HIDE DEF f, types, shown
  <2>1. CASE html
    BY <1>1, <1>2, <1>3, <2>1
  <2>2. CASE ~html
    BY <1>1, <1>2, <1>4, <2>2
  <2>3. QED BY <2>1, <2>2
<1>6. f.page \in {"Template", "Table"} /\ (f.page = "Template" => ~dir.relax)
  BY <1>1
<1>7. QED BY <1>1, <1>5, <1>6, Zenon

(* Any form that is shown for attributes which lack no more than may go: its *)
(* classes are those of in_oc or else the others, and it lacks no more.        *)
LEMMA FormShown ==
  ASSUME NEW type, NEW in_oc, NEW given, NEW attrs, NEW ocf, Paired(attrs),
         \A a \in form.old \ attrs : MayGo(a), UNCHANGED dir, work'.cmd = work.cmd, ClassRecords,
         Chosen!ShowForm(type, in_oc, given, attrs, ocf) \/ Chosen!ShowTemplates
  PROVE  /\ form'.page \in {"", "Templates", "OC", "Template", "Table"} /\ Paired(form'.attrs)
         /\ report' # "saved" /\ FormReduced' /\ (work'.cmd = "add" => form'.old = {})
         /\ LET classes == IF in_oc # {} THEN in_oc ELSE given
            IN /\ form'.page = "OC" => form'.marked = classes
               /\ form'.page \in Chosen!Inputs =>
                    /\ form'.classes = classes
                    /\ \A a \in attrs \ form'.attrs : a[2] # "" \/ (form'.page = "Template" /\ a[1] \in ClassSchema.fixed)
<1> DEFINE classes == IF in_oc # {} THEN in_oc ELSE given
<1>1. CASE Chosen!ShowTemplates
  <2>1. /\ form'.page \in {"", "Templates"} /\ form'.attrs = {} /\ form'.old = {} /\ report' \in {"", "error"}
    BY <1>1 DEF Chosen!ShowTemplates, Chosen!TemplateList, Chosen!EmptyPage
  <2>2. QED BY <2>1 DEF Paired, FormReduced, Chosen!Inputs
<1>2. CASE form' = Chosen!ClassSelect(classes, in_oc, given, attrs) /\ report' = ""
  <2>1. /\ form'.page = "OC" /\ form'.attrs = attrs /\ form'.old = form.old
        /\ form'.marked = classes \intersect Chosen!ClassOptions(classes)
    BY <1>2 DEF Chosen!ClassSelect
  <2>2. form'.marked = classes
    BY <2>1, ClassesOffered
  <2>3. QED BY <2>1, <2>2, <1>2 DEF FormReduced, MayGo, Chosen!Inputs, ClassRecords
<1>3. CASE form' = Chosen!InputForm(type, classes, attrs, form.old) /\ report' = ""
  <2>1. /\ form'.page \in {"Template", "Table"} /\ form'.classes = classes /\ form'.old = form.old
        /\ form'.attrs \subseteq attrs
        /\ form'.page = "Template" => ~dir.relax
        /\ \A a \in attrs \ form'.attrs : a[2] # "" \/ (form'.page = "Template" /\ a[1] \in ClassSchema.fixed)
    <3> DEFINE f == Chosen!InputForm(type, classes, attrs, form.old)
    <3> HIDE DEF classes
    <3>1. /\ f.page \in {"Template", "Table"} /\ f.classes = classes /\ f.old = form.old
          /\ f.attrs \subseteq attrs
          /\ f.page = "Template" => ~dir.relax
          /\ \A a \in attrs \ f.attrs : a[2] # "" \/ (f.page = "Template" /\ a[1] \in ClassSchema.fixed)
      BY FormHas
    <3>2. form' = f
      BY <1>3
    <3> HIDE DEF f
    <3>3. QED BY <3>1, <3>2
  <2>2. \A a \in attrs \ form'.attrs : MayGo(a)
    BY <2>1 DEF MayGo
  <2>3. FormReduced'
    BY <2>1, <2>2 DEF FormReduced, MayGo
  <2>4. QED BY <2>1, <2>3, <1>3 DEF Paired, Chosen!Inputs, ClassRecords
<1>4. QED BY <1>1, <1>2, <1>3 DEF Chosen!ShowForm

(* The attributes of entries and LDIF templates are pairs.                   *)
LEMMA AttributesPaired ==
  /\ \A e \in EditedEntries : Paired(e.attrs)
  /\ \A t \in DOMAIN LdifTemplates : Paired(LdifTemplates[t].attrs)
<1> DEFINE entries == EditedEntries \union {LdifTemplates[t] : t \in DOMAIN LdifTemplates}
<1>1. \A e \in entries : \A a \in e.attrs : a = <<a[1], a[2]>>
  BY CommandsAssumption DEF CommandsAssumption, Chosen!ObjectClassAssumption
<1>2. EditedEntries \subseteq entries /\ \A t \in DOMAIN LdifTemplates : LdifTemplates[t] \in entries
  OBVIOUS
<1> HIDE DEF entries
<1>3. QED BY <1>1, <1>2, Zenon DEF Paired

(* Before the first form there is nothing to keep.                           *)
LEMMA ClassesInit ==
  ASSUME Chosen!Init
  PROVE  ClassesInv
<1>1. /\ form = Chosen!EmptyPage /\ report = "" /\ past = [classes |-> {}, attrs |-> {}, again |-> FALSE]
      /\ \E d \in Dit.dns :
           \/ work = [cmd |-> "add", parent |-> d, entry |-> [classes |-> {}, attrs |-> {}]]
           \/ \E e \in EditedEntries : work = [cmd |-> "modify", parent |-> d, entry |-> e]
  BY DEF Chosen!Init
<1>2. form.page = "" /\ form.attrs = {} /\ form.old = {}
  BY <1>1 DEF Chosen!EmptyPage
<1>3. \A e \in EditedEntries : Paired(e.attrs)
  BY AttributesPaired
<1>4. PICK d : \/ work = [cmd |-> "add", parent |-> d, entry |-> [classes |-> {}, attrs |-> {}]]
               \/ \E e \in EditedEntries : work = [cmd |-> "modify", parent |-> d, entry |-> e]
  BY <1>1
<1>5. Paired(work.entry.attrs) /\ work = [cmd |-> work.cmd, parent |-> work.parent, entry |-> work.entry]
  <2>1. CASE work = [cmd |-> "add", parent |-> d, entry |-> [classes |-> {}, attrs |-> {}]]
    BY <2>1 DEF Paired
  <2>2. CASE \E e \in EditedEntries : work = [cmd |-> "modify", parent |-> d, entry |-> e]
    <3>1. PICK e \in EditedEntries : work = [cmd |-> "modify", parent |-> d, entry |-> e]
      BY <2>2
    <3>2. work.entry = e
      BY <3>1
    <3>3. QED BY <1>3, <3>1, <3>2
  <2>3. QED BY <1>4, <2>1, <2>2
<1>6. ClassRecords
  BY <1>1, <1>2, <1>5 DEF ClassRecords, Paired
<1>7. QED
  BY <1>1, <1>2, <1>6 DEF ClassesInv, FormReduced, Chosen!ClassesAsChosen, Chosen!EntryKept, Chosen!OnlyOptionsLost,
     Chosen!Inputs

(* A form that is shown has the classes and attributes that are now to be     *)
(* kept, and nothing was saved with it.                                       *)
LEMMA FormKeeps ==
  ASSUME form'.page \in {"", "Templates", "OC", "Template", "Table"}, Paired(form'.attrs),
         report' # "saved", FormReduced', work'.cmd = "add" => form'.old = {},
         past' = [classes |-> past'.classes, attrs |-> past'.attrs, again |-> past'.again],
         work' = [cmd |-> work'.cmd, parent |-> work'.parent, entry |-> work'.entry], Paired(work'.entry.attrs),
         form'.page = "OC" /\ ~past'.again => form'.marked = past'.classes,
         form'.page \in Chosen!Inputs =>
           /\ past'.classes \subseteq form'.classes /\ (~past'.again => form'.classes = past'.classes)
           /\ \A a \in past'.attrs \ form'.attrs : a[2] # "" \/ (form'.page = "Template" /\ a[1] \in ClassSchema.fixed)
  PROVE  ClassesInv'
<1>1. ClassRecords'
  BY DEF ClassRecords, Paired
<1>2. Chosen!ClassesAsChosen' /\ Chosen!EntryKept'
  BY DEF Chosen!ClassesAsChosen, Chosen!EntryKept
<1>3. QED BY <1>1, <1>2 DEF ClassesInv, Chosen!OnlyOptionsLost

(* The entry to be modified on its first form, or the list of LDIF templates.  *)
LEMMA ClassesOpen ==
  ASSUME ClassesInv, Chosen!Open
  PROVE  ClassesInv'
<1>1. /\ form = Chosen!EmptyPage /\ UNCHANGED <<dir, work>>
      /\ past' = [classes |-> work.entry.classes, attrs |-> work.entry.attrs, again |-> FALSE]
  BY DEF Chosen!Open, Chosen!Seen
<1>2. form.old = {}
  BY <1>1 DEF Chosen!EmptyPage
<1>3. CASE Chosen!ShowTemplates
  <2>1. /\ form'.page \in {"", "Templates"} /\ form'.attrs = {} /\ form'.old = {} /\ report' \in {"", "error"}
    BY <1>3 DEF Chosen!ShowTemplates, Chosen!TemplateList, Chosen!EmptyPage
  <2>2. FormReduced'
    BY <2>1 DEF FormReduced
  <2>3. QED
    BY <1>1, <2>1, <2>2 DEF ClassesInv, ClassRecords, Paired, Chosen!ClassesAsChosen, Chosen!EntryKept,
       Chosen!OnlyOptionsLost, Chosen!Inputs
<1>4. CASE /\ work.cmd = "modify" /\ UNCHANGED report
           /\ form' = Chosen!InputForm("Template", work.entry.classes, work.entry.attrs, work.entry.attrs)
  <2> DEFINE classes == work.entry.classes
             attrs == work.entry.attrs
             f == Chosen!InputForm("Template", classes, attrs, attrs)
  <2>1. Paired(attrs) /\ report = "" /\ form' = f
    BY <1>4 DEF ClassesInv, ClassRecords, Chosen!Open
  <2>2. /\ past' = [classes |-> classes, attrs |-> attrs, again |-> FALSE]
        /\ work' = [cmd |-> work'.cmd, parent |-> work'.parent, entry |-> work'.entry]
        /\ Paired(work'.entry.attrs)
    BY <1>1 DEF ClassesInv, ClassRecords
  <2> HIDE DEF classes, attrs
  <2>3. /\ f.page \in {"Template", "Table"} /\ f.classes = classes /\ f.old = attrs
        /\ f.attrs \subseteq attrs
        /\ f.page = "Template" => ~dir.relax
        /\ \A a \in attrs \ f.attrs : a[2] # "" \/ (f.page = "Template" /\ a[1] \in ClassSchema.fixed)
    BY <2>1, FormHas
  <2> HIDE DEF f
  <2>4. FormReduced' /\ Paired(form'.attrs)
    BY <1>1, <2>1, <2>3 DEF FormReduced, MayGo, Paired
  <2>5. work'.cmd = "modify" /\ report' = ""
    BY <1>1, <1>4, <2>1 DEF Chosen!Open
  <2>6. form'.page \in {"Template", "Table"} /\ form'.classes = classes
        /\ \A a \in attrs \ form'.attrs : a[2] # "" \/ (form'.page = "Template" /\ a[1] \in ClassSchema.fixed)
    BY <2>1, <2>3
  <2>7. /\ past'.classes = classes /\ past'.attrs = attrs
        /\ past' = [classes |-> past'.classes, attrs |-> past'.attrs, again |-> past'.again]
    BY <2>2
  <2>8. QED BY <2>2, <2>4, <2>5, <2>6, <2>7, FormKeeps DEF Chosen!Inputs
<1>5. QED BY <1>3, <1>4 DEF Chosen!Open

(* An entry that is added starts again without classes and attributes.       *)
LEMMA ClassesMenu ==
  ASSUME ClassesInv, Chosen!Menu
  PROVE  ClassesInv'
<1>1. /\ UNCHANGED <<dir, work>> /\ past' = [classes |-> {}, attrs |-> {}, again |-> FALSE]
      /\ work.cmd = "add" /\ (Chosen!ShowForm("OC", {}, {}, {}, "exp") \/ Chosen!ShowTemplates)
  BY DEF Chosen!Menu, Chosen!Seen
<1>2. form.old = {} /\ Paired({}) /\ ClassRecords
  BY <1>1 DEF ClassesInv, ClassRecords, Paired
<1>3. /\ form'.page \in {"", "Templates", "OC", "Template", "Table"} /\ Paired(form'.attrs)
      /\ report' # "saved" /\ FormReduced' /\ (work'.cmd = "add" => form'.old = {})
      /\ form'.page = "OC" => form'.marked = {}
      /\ form'.page \in Chosen!Inputs => form'.classes = {}
  BY <1>1, <1>2, FormShown
<1>4. work' = [cmd |-> work'.cmd, parent |-> work'.parent, entry |-> work'.entry] /\ Paired(work'.entry.attrs)
  BY <1>1, <1>2 DEF ClassRecords
<1>5. /\ past'.classes = {} /\ past'.attrs = {}
      /\ past' = [classes |-> past'.classes, attrs |-> past'.attrs, again |-> past'.again]
  BY <1>1
<1>6. QED BY <1>3, <1>4, <1>5, FormKeeps

(* The first form for an LDIF template.                                      *)
LEMMA ClassesPick ==
  ASSUME ClassesInv, NEW t \in DOMAIN LdifTemplates, Chosen!PickTemplate(t)
  PROVE  ClassesInv'
<1> DEFINE classes == LdifTemplates[t].classes
           attrs == LdifTemplates[t].attrs
           f == Chosen!InputForm("Template", classes, attrs, {})
<1>1. /\ form.page = "Templates" /\ form' = f /\ UNCHANGED <<dir, report>>
      /\ past' = [classes |-> classes, attrs |-> attrs, again |-> FALSE]
      /\ work' = [work EXCEPT !.parent = Chosen!ParentOf(t)]
  BY DEF Chosen!PickTemplate, Chosen!Seen
<1>2. Paired(attrs)
  BY AttributesPaired
<1>3. /\ work' = [cmd |-> work'.cmd, parent |-> work'.parent, entry |-> work'.entry]
      /\ Paired(work'.entry.attrs) /\ report' # "saved"
  BY <1>1 DEF ClassesInv, ClassRecords
<1> HIDE DEF classes, attrs
<1>4. /\ f.page \in {"Template", "Table"} /\ f.classes = classes /\ f.old = {}
      /\ f.attrs \subseteq attrs
      /\ f.page = "Template" => ~dir.relax
      /\ \A a \in attrs \ f.attrs : a[2] # "" \/ (f.page = "Template" /\ a[1] \in ClassSchema.fixed)
  BY <1>2, FormHas
<1> HIDE DEF f
<1>5. FormReduced' /\ Paired(form'.attrs)
  BY <1>1, <1>2, <1>4 DEF FormReduced, Paired
<1>6. /\ form'.page \in {"Template", "Table"} /\ form'.classes = classes /\ form'.old = {}
      /\ \A a \in attrs \ form'.attrs : a[2] # "" \/ (form'.page = "Template" /\ a[1] \in ClassSchema.fixed)
  BY <1>1, <1>4
<1>7. /\ past'.classes = classes /\ past'.attrs = attrs
      /\ past' = [classes |-> past'.classes, attrs |-> past'.attrs, again |-> past'.again]
  BY <1>1
<1>8. QED BY <1>3, <1>5, <1>6, <1>7, FormKeeps DEF Chosen!Inputs

(* The form for object classes is sent: in_oc has what was selected before.   *)
LEMMA ClassesChoose ==
  ASSUME ClassesInv, NEW selected, NEW type, Chosen!Choose(selected, type)
  PROVE  ClassesInv'
<1> DEFINE all_oc == form.in_oc \union selected
           classes == IF all_oc # {} THEN all_oc ELSE form.classes
<1>1. /\ UNCHANGED <<dir, work>> /\ Chosen!ShowForm(type, all_oc, form.classes, form.attrs, "tmpl")
      /\ past' = [classes |-> IF selected = {} /\ form.in_oc = {} THEN form.classes ELSE selected,
                  attrs |-> form.attrs, again |-> past.again \/ form.in_oc # {}]
  BY DEF Chosen!Choose
<1>2. /\ Paired(form.attrs) /\ ClassRecords /\ \A a \in form.old \ form.attrs : MayGo(a)
  BY DEF ClassesInv, ClassRecords, FormReduced
<1>3. /\ form'.page \in {"", "Templates", "OC", "Template", "Table"} /\ Paired(form'.attrs)
      /\ report' # "saved" /\ FormReduced' /\ (work'.cmd = "add" => form'.old = {})
      /\ form'.page = "OC" => form'.marked = classes
      /\ form'.page \in Chosen!Inputs =>
           /\ form'.classes = classes
           /\ \A a \in form.attrs \ form'.attrs : a[2] # "" \/ (form'.page = "Template" /\ a[1] \in ClassSchema.fixed)
  BY <1>1, <1>2, FormShown
<1>4. work' = [cmd |-> work'.cmd, parent |-> work'.parent, entry |-> work'.entry] /\ Paired(work'.entry.attrs)
  BY <1>1, <1>2 DEF ClassRecords
<1>5. /\ past'.classes \subseteq classes /\ (~past'.again => past'.classes = classes)
      /\ past'.attrs = form.attrs
      /\ past' = [classes |-> past'.classes, attrs |-> past'.attrs, again |-> past'.again]
  BY <1>1
<1> HIDE DEF all_oc, classes
<1>6. QED BY <1>3, <1>4, <1>5, FormKeeps

(* A form of another type for the same classes and attributes.               *)
LEMMA ClassesSwitch ==
  ASSUME ClassesInv, NEW type, Chosen!Switch(type)
  PROVE  ClassesInv'
<1>1. /\ UNCHANGED <<dir, work>> /\ Chosen!ShowForm(type, {}, form.classes, form.attrs, "exp")
      /\ past' = [classes |-> form.classes, attrs |-> form.attrs, again |-> FALSE]
  BY DEF Chosen!Switch, Chosen!Seen
<1>2. /\ Paired(form.attrs) /\ ClassRecords /\ \A a \in form.old \ form.attrs : MayGo(a)
  BY DEF ClassesInv, ClassRecords, FormReduced
<1>3. /\ form'.page \in {"", "Templates", "OC", "Template", "Table"} /\ Paired(form'.attrs)
      /\ report' # "saved" /\ FormReduced' /\ (work'.cmd = "add" => form'.old = {})
      /\ form'.page = "OC" => form'.marked = form.classes
      /\ form'.page \in Chosen!Inputs =>
           /\ form'.classes = form.classes
           /\ \A a \in form.attrs \ form'.attrs : a[2] # "" \/ (form'.page = "Template" /\ a[1] \in ClassSchema.fixed)
  BY <1>1, <1>2, FormShown
<1>4. work' = [cmd |-> work'.cmd, parent |-> work'.parent, entry |-> work'.entry] /\ Paired(work'.entry.attrs)
  BY <1>1, <1>2 DEF ClassRecords
<1>5. /\ past'.classes = form.classes /\ past'.attrs = form.attrs
      /\ past' = [classes |-> past'.classes, attrs |-> past'.attrs, again |-> past'.again]
  BY <1>1
<1>6. QED BY <1>3, <1>4, <1>5, FormKeeps

(* What is deleted was on the first form and is not on the last one.         *)
LEMMA ClassesSave ==
  ASSUME ClassesInv, Chosen!Save
  PROVE  ClassesInv'
<1> DEFINE rest == {a \in work.entry.attrs : a \notin form.old \/ (a[1] \in ClassSchema.fixed /\ ~dir.relax)}
<1>1. /\ form' = Chosen!EmptyPage /\ report' = "saved" /\ dir' = dir
      /\ work' = [work EXCEPT !.entry = [classes |-> form.classes, attrs |-> form.attrs \union rest]]
      /\ past' = [past EXCEPT !.attrs = work.entry.attrs]
  BY DEF Chosen!Save
<1>2. ClassRecords /\ FormReduced
  BY DEF ClassesInv
<1>3. form'.page = "" /\ form'.attrs = {} /\ form'.old = {}
  BY <1>1 DEF Chosen!EmptyPage
<1>4. /\ work' = [cmd |-> work.cmd, parent |-> work.parent,
                  entry |-> [classes |-> form.classes, attrs |-> form.attrs \union rest]]
      /\ past' = [classes |-> past.classes, attrs |-> work.entry.attrs, again |-> past.again]
  BY <1>1, <1>2 DEF ClassRecords
<1>5. work'.entry.attrs = form.attrs \union rest /\ past'.attrs = work.entry.attrs
  BY <1>4
<1>6. \A a \in work.entry.attrs \ (form.attrs \union rest) : a[2] # ""
  BY <1>2 DEF FormReduced, MayGo
<1>7. Paired(form.attrs \union rest)
  BY <1>2 DEF ClassRecords, Paired
<1> HIDE DEF rest
<1>8. ClassRecords' /\ FormReduced'
  BY <1>3, <1>4, <1>5, <1>7 DEF ClassRecords, FormReduced, Paired
<1>9. Chosen!OnlyOptionsLost'
  BY <1>5, <1>6 DEF Chosen!OnlyOptionsLost
<1>10. QED BY <1>3, <1>8, <1>9 DEF ClassesInv, Chosen!ClassesAsChosen, Chosen!EntryKept, Chosen!Inputs

(* Every request keeps the invariant of the classes.                         *)
LEMMA ClassesStep ==
  ASSUME ClassesInv, [Chosen!Next]_Chosen!vars
  PROVE  ClassesInv'
<1>1. CASE UNCHANGED Chosen!vars
  BY <1>1 DEF Chosen!vars, ClassesInv, ClassRecords, FormReduced, MayGo, Paired, Chosen!ClassesAsChosen, Chosen!EntryKept,
     Chosen!OnlyOptionsLost
<1>2. QED
  BY <1>1, ClassesOpen, ClassesMenu, ClassesPick, ClassesChoose, ClassesSwitch, ClassesSave DEF Chosen!Next

(* The object class form selects the classes that were chosen, the input form *)
(* is for them, and over any number of requests, for any schema, HTML templates  *)
(* and LDIF templates, only attributes with an option are lost when a form is     *)
(* saved that the user has not changed.                                        *)
THEOREM ClassesAreKept == DispatchSpec => []ClassesKept
<1> DEFINE CInv == command = "in_oc" => ClassesInv
<1>1. DispatchInit => CInv
  BY ClassesInit DEF DispatchInit
<1>2. CInv /\ [DispatchNext]_all => CInv'
  BY OneCommand, ClassesStep
<1>3. CInv => ClassesKept
  BY DEF ClassesInv, ClassesKept
<1>4. QED BY <1>1, <1>2, <1>3, PTL DEF DispatchSpec
=============================================================================
