-------------------------- MODULE DerivedAttributes -------------------------
(***************************************************************************)
(* Attributes whose values web2ldap computes: names composed of other          *)
(* attributes (ComposedAttribute), and those of the AE-DIR classes of           *)
(* plugins/aedir.py, which are copied from entries the entry refers to, follow   *)
(* another attribute, or depend on the time.  get_entry_input() calls            *)
(* transmute() for one attribute after the other, in the order of the form, and   *)
(* again while something changes, at most seven times.  What transmute() reads   *)
(* may be changed by others between two calls.                               *)
(*                                                                         *)
(* An entry is a function from attributes to lists of values.  A value is a      *)
(* tuple, <<>> the empty string: <<"uid", "u1">> is a DN, <<7, "Z">> a time,      *)
(* <<zone, rest>> and <<prefix, uid>> are strings with a part of their own.      *)
(***************************************************************************)
EXTENDS Integers, Sequences, FiniteSets, SequencesExt, TLC

CONSTANTS
  Classes,     \* structural object classes in use
  Orders,      \* Orders[c]: lists of the attributes of a form
  Saved,       \* Saved[c]: entries as they are; <<>> for a new one
  Typed,       \* Typed[c]: what a user puts in the form, [attribute -> values]
  Versions,    \* Versions[dn]: contents another entry may have, <<>> if it is deleted
  zone,        \* _get_zone_name()
  Times,       \* bound: points in time
  MaxRounds,   \* bound: forms that are sent
  MaxChanges   \* bound: changes by others, and steps of time, in all

VARIABLES pc, form, dir, work, report, past

vars == <<pc, form, dir, work, report, past>>

DerivedAssumption ==
  /\ MaxRounds \in Nat /\ MaxChanges \in Nat /\ Times \subseteq Nat /\ 0 \in Times
  /\ \A c \in Classes : Orders[c] # {} /\ Saved[c] # {}

-----------------------------------------------------------------------------
(* Entries. *)

Get(e, at, default) == IF at \in DOMAIN e THEN e[at] ELSE default
Full(vals) == SelectSeq(vals, LAMBDA v : v # <<>>)
Given(e, at) == at \in DOMAIN e /\ e[at] # <<>> /\ e[at][1] # <<>>     \* SingleValueDict

(* ae_status: NoStatus if there is none. *)
NoStatus == -9
ae_status(e) == IF Given(e, "aeStatus") THEN e["aeStatus"][1][1] ELSE NoStatus

(* The entries at other DNs: what a search finds, by status. *)
Active(ref, dn) == dn \in DOMAIN ref /\ ae_status(ref[dn]) = 0
Usable(ref, dn) == dn \in DOMAIN ref /\ ae_status(ref[dn]) \in {-1, 0}

-----------------------------------------------------------------------------
(* ComposedAttribute: the first template of which all attributes are there.    *)

Templates ==
  [aeUser |-> [displayName |-> <<<<"givenName", "sn", "uid", "uidNumber">>, <<"givenName", "sn", "uid">>>>],
   aeContact |-> [displayName |-> <<<<"cn", "mail">>, <<"cn">>>>],
   aeDept |-> [displayName |-> <<<<"ou", "departmentNumber">>, <<"ou">>, <<"departmentNumber">>>>],
   aeLocation |-> [displayName |-> <<<<"cn", "l", "street">>, <<"cn", "l">>, <<"cn", "street">>, <<"cn", "st">>, <<"cn">>>>],
   aePerson |-> [displayName |-> <<<<"givenName", "sn", "ou">>, <<"givenName", "sn", "departmentNumber">>,
                                   <<"givenName", "sn", "uniqueIdentifier">>, <<"givenName", "sn">>>>],
   aeNwDevice |-> [description |-> <<<<"cn", "aeFqdn", "ipHostNumber">>, <<"cn", "ipHostNumber">>>>],
   inetOrgPerson |-> [cn |-> <<<<"givenName", "sn">>>>,
     displayName |-> <<<<"givenName", "sn", "uid", "employeeNumber">>, <<"givenName", "sn", "uid", "uniqueIdentifier">>,
                       <<"givenName", "sn", "employeeNumber">>, <<"givenName", "sn", "ou", "departmentNumber">>,
                       <<"givenName", "sn", "ou">>, <<"givenName", "sn", "uid">>, <<"givenName", "sn">>>>]]
Composed(c, at) == c \in DOMAIN Templates /\ at \in DOMAIN Templates[c]
Fit(c, at, e) == SelectSeq(Templates[c][at], LAMBDA t : \A i \in DOMAIN t : Given(e, t[i]))
Filled(template, e) == <<template, [i \in DOMAIN template |-> e[template[i]][1]]>>
Compose(c, at, e) == IF Fit(c, at, e) = <<>> THEN e[at] ELSE << Filled(Fit(c, at, e)[1], e) >>

-----------------------------------------------------------------------------
(* AEDerefAttribute: copied from an active entry, if it has the attribute.     *)

Reference(c, at) ==
  CASE c = "aeUser" /\ at \in {"sn", "givenName", "mail"} -> "aePerson"
    [] c = "aePerson" /\ at \in {"ou", "departmentNumber"} -> "aeDept"
    [] OTHER -> ""
Copied(dn, at, ref) == IF Usable(ref, dn) /\ at \in DOMAIN ref[dn] THEN <<ref[dn][at][1]>> ELSE <<>>
Deref(at, from, e, ref) == IF from \in DOMAIN e THEN Copied(e[from][1], at, ref) ELSE e[at]

is_mail_account(e) == <<"inetLocalMailRecipient">> \in ToSet(e["objectClass"])
UserMail(e, ref) ==
  IF ~is_mail_account(e) THEN Deref("mail", "aePerson", e, ref)
  ELSE IF Full(e["mail"]) # <<>> THEN e["mail"]
  ELSE IF "mailLocalAddress" \in DOMAIN e THEN <<e["mailLocalAddress"][1]>> ELSE <<>>

(* Attributes that follow another one. *)
Hidden == <<"-/-">>      \* homeDirectoryHidden
HomeDirectory(e) ==
  IF e["homeDirectory"] = <<Hidden>> THEN <<Hidden>>
  ELSE << <<"/home", IF "uid" \in DOMAIN e THEN e["uid"][1] ELSE <<>> >> >>
AEUIDNumber(e) == Get(e, "gidNumber", <<<<>>>>)
AEGIDNumber(e, saved, pool) ==
  IF Given(e, "gidNumber") THEN e["gidNumber"] ELSE Get(saved, "gidNumber", << <<pool>> >>)
AEUniqueIdentifier(e, now) == IF Given(e, "uniqueIdentifier") THEN e["uniqueIdentifier"] ELSE << <<"web2ldap", now>> >>
AEVisibleGroups(e) ==
  SetToSeq(ToSet(e["aeVisibleGroups"]) \union UNION {ToSet(Get(e, at, <<>>)) : at \in {"aeLoginGroups", "aeDisplayNameGroups"}})
AECommonNameAEHost(e) == SetToSeq(ToSet(e["host"]))

(* Groups: an archived one is emptied. *)
Emptied(e) == "member" \notin DOMAIN e \/ ae_status(e) = 2
AEMemberUid(e) == IF Emptied(e) THEN <<>> ELSE [i \in DOMAIN Full(e["member"]) |-> <<Full(e["member"])[i][2]>>]
MembersFound(e, ref) == {dn \in ToSet(e["member"]) : dn \in DOMAIN ref /\ ref[dn] # <<>>}
AERFC822MailMember(e, ref) ==
  IF Emptied(e) THEN <<>>
  ELSE LET dns == SetToSeq(MembersFound(e, ref))
       IN SortSeq(FlattenSeq([i \in DOMAIN dns |-> ref[dns[i]]["mail"]]), LAMBDA a, b : a[1] < b[1])

(* AEStatus, which is registered for aeExpiryStatus as well.  A time in a       *)
(* notation other than "Z" is as if it were not there.                         *)
Parses(e, at) == Given(e, at) /\ e[at][1][2] = "Z"
NotYet(e, now) == Parses(e, "aeNotBefore") /\ now < e["aeNotBefore"][1][1]
Expired(e, now) == Parses(e, "aeNotAfter") /\ now > e["aeNotAfter"][1][1]
AEStatus(e, at, now) ==
  IF ~Given(e, at) THEN e[at]
  ELSE LET begun == IF e[at][1][1] = 0 /\ NotYet(e, now) THEN -1 ELSE e[at][1][1]
           expiry == IF Given(e, "aeExpiryStatus") THEN e["aeExpiryStatus"][1][1] ELSE begun
       IN << <<IF Expired(e, now) /\ expiry > begun THEN expiry ELSE begun>> >>

Prefixed == {"aeGroup", "aeMailGroup", "aeSrvGroup", "aeTag", "aeSudoRule"}      \* the cn begins with the zone

transmute(c, at, e, env) ==
  CASE Composed(c, at) -> Compose(c, at, e)
    [] c = "aeUser" /\ at = "mail" -> UserMail(e, env.ref)
    [] Reference(c, at) # "" /\ at # "mail" -> Deref(at, Reference(c, at), e, env.ref)
    [] at = "homeDirectory" -> HomeDirectory(e)
    [] c = "aeUser" /\ at = "uidNumber" -> AEUIDNumber(e)
    [] c \in {"aeUser", "aeGroup"} /\ at = "gidNumber" -> AEGIDNumber(e, env.saved, env.pool)
    [] at = "uniqueIdentifier" /\ c = "aePerson" -> AEUniqueIdentifier(e, env.now)
    [] at = "aeVisibleGroups" -> AEVisibleGroups(e)
    [] c = "aeHost" /\ at = "cn" -> AECommonNameAEHost(e)
    [] c \in Prefixed /\ at = "cn" -> <<e[at][1]>>
    [] at = "member" -> IF ae_status(e) = 2 THEN <<>> ELSE e[at]
    [] at = "memberUid" -> AEMemberUid(e)
    [] at = "rfc822MailMember" -> AERFC822MailMember(e, env.ref)
    [] at = "sudoHost" -> << <<"ALL">> >>
    [] at \in {"aeStatus", "aeExpiryStatus"} -> AEStatus(e, at, env.now)
    [] OTHER -> e[at]

(* KeyError, IndexError and AttributeError of transmute(): nobody catches them.  *)
TransmuteRaises(c, at, e, env) ==
  \/ c = "aeHost" /\ at = "cn" /\ "host" \notin DOMAIN e
  \/ at = "rfc822MailMember" /\ ~Emptied(e) /\ \E dn \in MembersFound(e, env.ref) : "mail" \notin DOMAIN env.ref[dn]
  \/ at \in {"aeStatus", "aeExpiryStatus"} /\ Given(e, at) /\ Expired(e, env.now) /\ "aeExpiryStatus" \notin DOMAIN e

-----------------------------------------------------------------------------
(* validate() *)

StatusValid(v, e, now) ==
  /\ v[1] \in -1..2
  /\ Expired(e, now) => v[1] >= 1
  /\ ~Expired(e, now) /\ NotYet(e, now) => v[1] = -1

NotAfterValid(v, e) ==
  Given(e, "aeNotBefore") => Parses(e, "aeNotBefore") /\ e["aeNotBefore"][1][1] <= v[1]

(* AEGroupMember: active users below the zones of the group, of persons in its   *)
(* departments.  The members of a dynamic group are not checked.               *)
ZoneMember(dn, e, ref) == Full(Get(e, "aeMemberZone", <<>>)) # <<>> => ToSet(ref[dn]["zone"]) \intersect ToSet(e["aeMemberZone"]) # {}
PersonMember(dn, e, ref) ==
  Full(Get(e, "aeDept", <<>>)) # <<>> =>
    /\ Given(ref[dn], "aePerson") /\ ref[dn]["aePerson"][1] \in DOMAIN ref
    /\ Get(ref[ref[dn]["aePerson"][1]], "aeDept", <<<<>>>>)[1] \in ToSet(e["aeDept"])
AEGroupMember(dn, c, e, ref) ==
  \/ Full(Get(e, "memberURL", <<>>)) # <<>>
  \/ /\ Active(ref, dn) /\ ZoneMember(dn, e, ref) /\ PersonMember(dn, e, ref)
     /\ c = "aeMailGroup" => "mail" \in DOMAIN ref[dn]

(* AEPerson: the persons allowed for a status and in the departments of the      *)
(* zone; all for an archived account.                                         *)
ZoneDepts(ref) == LET dn == <<"cn", zone>> IN IF dn \in DOMAIN ref THEN Get(ref[dn], "aeDept", <<>>) ELSE <<>>
StatusMap == [s \in -1..2 |-> CASE s = -1 -> {-1, 0} [] s = 0 -> {0} [] OTHER -> {0, 1, 2}]
AEPerson(dn, e, ref) ==
  LET status == IF ae_status(e) = NoStatus THEN 0 ELSE ae_status(e)
  IN \/ status = 2
     \/ /\ dn \in DOMAIN ref /\ ae_status(ref[dn]) \in StatusMap[status]
        /\ is_mail_account(e) \/ "mail" \in DOMAIN ref[dn]
        /\ Full(ZoneDepts(ref)) # <<>> => ToSet(Get(ref[dn], "aeDept", <<>>)) \intersect ToSet(ZoneDepts(ref)) # {}

(* A DynamicValueSelectList: one entry has the value, not more. *)
AERFC822MailMemberValid(v, ref) ==
  Cardinality({dn \in DOMAIN ref : Active(ref, dn) /\ v \in ToSet(Get(ref[dn], "mail", <<>>))}) = 1

validate(c, at, v, e, env) ==
  CASE v = <<>> -> TRUE
    [] at \in {"aeStatus", "aeExpiryStatus"} -> StatusValid(v, e, env.now)
    [] at = "aeNotAfter" -> NotAfterValid(v, e)
    [] at = "homeDirectory" -> v = Hidden \/ (v[1] = "/home" /\ v[2] = Get(e, "uid", <<<<>>>>)[1])
    [] at = "member" -> AEGroupMember(v, c, e, env.ref)
    [] at = "aePerson" /\ c = "aeUser" -> AEPerson(v, e, env.ref)
    [] at = "mail" /\ c = "aeUser" -> is_mail_account(e) => v \in ToSet(Get(e, "mailLocalAddress", <<>>))
    [] at = "rfc822MailMember" -> AERFC822MailMemberValid(v, env.ref)
    [] at \in {"aeLoginGroups", "aeDisplayNameGroups", "aeVisibleGroups"} -> Active(env.ref, v)
    [] c \in Prefixed /\ at = "cn" -> v[2] # "" /\ (zone = "pub" \/ v[1] = zone)
    [] OTHER -> TRUE

(* ValueError of AENotAfter: the base class accepts notations strptime() does not. *)
ValidateRaises(e) == Given(e, "aeNotAfter") /\ ~Parses(e, "aeNotAfter")

-----------------------------------------------------------------------------
(* The form. *)

(* Fields that are not seen and are sent empty, for transmute() to fill. *)
Blank(c, at, e) ==
  \/ Composed(c, at) \/ at = "memberUid" \/ (Reference(c, at) # "" /\ at # "mail")
  \/ at = "mail" /\ c = "aeUser" /\ ~is_mail_account(e)
Unseen(c, at, e) == Blank(c, at, e) \/ at \in {"homeDirectory", "uidNumber", "rfc822MailMember", "sudoHost", "uniqueIdentifier", "uid"}

(* form_value() of each value, or of none. *)
form_value(c, at, e, vals) ==
  CASE Blank(c, at, e) -> IF vals = <<>> THEN <<<<>>>> ELSE [i \in DOMAIN vals |-> <<>>]
    [] vals # <<>> -> vals
    [] at = "uid" /\ c = "aeUser" -> << <<"generated">> >>      \* _gen_uid()
    [] c \in Prefixed /\ at = "cn" -> << <<zone, "">> >>
    [] OTHER -> <<<<>>>>

Init ==
  \E c \in Classes : \E order \in Orders[c], saved \in Saved[c], ref \in {[dn \in DOMAIN Versions |-> Versions[dn][1]]} :
    /\ pc = "Form" /\ work = <<>> /\ report = ""
    /\ form = [class |-> c, order |-> order]
    /\ dir = [saved |-> saved, ref |-> ref, now |-> 0, pool |-> 1]
    /\ past = [rounds |-> 0, changes |-> 0, during |-> 0, next |-> 1, left |-> 0, changed |-> FALSE, seen |-> {}, invalid |-> {},
               untouched |-> FALSE, same |-> FALSE, before |-> saved]

iteration_count_One == 1      \* mutant
iteration_count == 7

(* The form for the entry as it is, with what the user has put in, is sent. *)
Send ==
  /\ pc = "Form" /\ past.rounds < MaxRounds
  /\ \E typed \in {t \in Typed[form.class] : DOMAIN t \subseteq ToSet(form.order) \union {"objectClass"}} :
       LET entry == IF report = "invalid" THEN work ELSE dir.saved
           oc == [objectClass |-> Get(typed, "objectClass", Get(entry, "objectClass", << <<form.class>> >>))]
       IN /\ work' = typed @@ oc @@ [at \in ToSet(form.order) |-> form_value(form.class, at, oc, Get(entry, at, <<>>))]
          /\ past' = [past EXCEPT !.rounds = @ + 1, !.next = 1, !.left = iteration_count - 1, !.changed = FALSE,
                                  !.seen = {dir.ref}, !.invalid = {}, !.during = 0, !.untouched = (typed = <<>> /\ past.same), !.before = dir.saved]
  /\ pc' = "Transmute" /\ report' = ""
  /\ UNCHANGED <<form, dir>>

(* One call of transmute(). *)
Transmute ==
  LET at == form.order[past.next]
      vals == transmute(form.class, at, work, dir)
      again == past.changed \/ vals # work[at]
      last == past.next = Len(form.order)
  IN /\ pc = "Transmute" /\ ~TransmuteRaises(form.class, at, work, dir)
     /\ work' = [work EXCEPT ![at] = vals]
     /\ dir' = IF at = "gidNumber" /\ ~Given(work, at) /\ at \notin DOMAIN dir.saved THEN [dir EXCEPT !.pool = @ + 1] ELSE dir
     /\ IF ~last THEN /\ past' = [past EXCEPT !.next = @ + 1, !.changed = again] /\ UNCHANGED pc
        ELSE IF again /\ past.left > 0
        THEN /\ past' = [past EXCEPT !.next = 1, !.left = @ - 1, !.changed = FALSE, !.seen = {dir.ref}] /\ UNCHANGED pc
        ELSE UNCHANGED past /\ pc' = "Validate"
     /\ UNCHANGED <<form, report>>

Fail ==
  /\ \/ pc = "Transmute" /\ TransmuteRaises(form.class, form.order[past.next], work, dir)
     \/ pc = "Validate" /\ ValidateRaises(work)
  /\ pc' = "Form" /\ report' = "error"
  /\ UNCHANGED <<form, dir, work, past>>

(* For the properties: the first of several values is sent empty, and is as if    *)
(* there were none while the others are saved.                                *)
FirstIsEmpty(e) == \E at \in DOMAIN e : e[at] # <<>> /\ e[at][1] = <<>> /\ Full(e[at]) # <<>>

(* Empty lists are taken out, the rest is validated, and modify or add follows. *)
Validate ==
  LET e == [at \in {a \in DOMAIN work : work[a] # <<>>} |-> work[at]]
      invalid == {at \in DOMAIN e : \E i \in DOMAIN e[at] : ~validate(form.class, at, e[at][i], e, dir)}
  IN /\ pc = "Validate" /\ ~ValidateRaises(work)
     /\ work' = e /\ pc' = "Form"
     /\ past' = [past EXCEPT !.invalid = invalid, !.same = (invalid = {} /\ ~FirstIsEmpty(e) /\ past.during = 0)]
     /\ IF invalid # {} THEN report' = "invalid" /\ UNCHANGED dir
        ELSE /\ report' = "saved"
             /\ dir' = [dir EXCEPT !.saved = [at \in {a \in DOMAIN e : Full(e[a]) # <<>>} |-> Full(e[at])]]
     /\ UNCHANGED form

(* Other users, and the clock, while the loop runs or before the form is sent.  *)
Elsewhere ==
  /\ past.changes < MaxChanges
  /\ \/ \E dn \in DOMAIN Versions : \E v \in ToSet(Versions[dn]) \ {dir.ref[dn]} : dir' = [dir EXCEPT !.ref[dn] = v]
     \/ dir.now + 1 \in Times /\ dir' = [dir EXCEPT !.now = @ + 1]
  /\ past' = [past EXCEPT !.changes = @ + 1, !.during = IF pc = "Form" THEN @ ELSE @ + 1, !.same = FALSE, !.untouched = FALSE,
                          !.seen = IF pc = "Transmute" THEN @ \union {dir'.ref} ELSE @]
  /\ UNCHANGED <<pc, form, work, report>>

Next == Send \/ Transmute \/ Fail \/ Validate \/ Elsewhere
Spec == Init /\ [][Next]_vars

-----------------------------------------------------------------------------
(* Properties. *)

TypeOK ==
  /\ pc \in {"Form", "Transmute", "Validate"} /\ report \in {"", "error", "invalid", "saved"}
  /\ form.class \in Classes /\ form.order \in Orders[form.class]
  /\ dir.now \in Times /\ past.next \in 1..Len(form.order) /\ past.left \in 0..6
  /\ past.rounds \in 0..MaxRounds /\ past.changes \in 0..MaxChanges

(* What the attributes of an entry that was sent should be when it is saved. *)
NamesInStep(c, sent, saved, quiet) ==
  c \in DOMAIN Templates =>
    \A at \in DOMAIN Templates[c] :
      IF Fit(c, at, sent) # <<>> THEN at \in DOMAIN saved /\ saved[at] = <<Filled(Fit(c, at, sent)[1], sent)>>
      ELSE quiet => at \notin DOMAIN saved
CopiesInStep(c, saved, ref) ==
  \A at \in {a \in ToSet(form.order) : Reference(c, a) # ""} :
    LET from == Reference(c, at)
        source == IF from \in DOMAIN saved THEN Copied(saved[from][1], at, ref) ELSE <<>>
    IN IF at = "mail" /\ is_mail_account(saved)
       THEN Get(saved, at, <<>>) = Get(saved, "mailLocalAddress", <<>>) \/ saved[at][1] \in ToSet(saved["mailLocalAddress"])
       ELSE Get(saved, at, <<>>) = source
MembersInStep(saved, ref) ==
  LET members == ToSet(Get(saved, "member", <<>>)) IN
    /\ ae_status(saved) = 2 => DOMAIN saved \intersect {"member", "memberUid", "rfc822MailMember"} = {}
    /\ "memberUid" \in ToSet(form.order) => ToSet(Get(saved, "memberUid", <<>>)) = {<<dn[2]>> : dn \in members}
    /\ "rfc822MailMember" \in ToSet(form.order) =>
         ToSet(Get(saved, "rfc822MailMember", <<>>)) = UNION {ToSet(Get(ref[dn], "mail", <<>>)) : dn \in members}
AccountInStep(c, saved) ==
  c = "aeUser" => /\ saved["uidNumber"] = saved["gidNumber"]
                  /\ saved["homeDirectory"] # <<Hidden>> => saved["homeDirectory"][1][2] = saved["uid"][1]

(* An entry is saved with all derived attributes in step with the others and with  *)
(* one state of the entries they are copied from, in any order of the form and      *)
(* while others change these entries ("This method has access to the whole entry  *)
(* after processing all input", syntaxes.py:339, called "more than once").  A       *)
(* second change may fall into the seventh pass, which nothing repeats.          *)
DerivedInStep ==
  (report = "saved" /\ pc = "Form" /\ past.during <= 1) =>
    LET c == form.class IN
      /\ NamesInStep(c, work, dir.saved, past.during = 0) /\ AccountInStep(c, dir.saved)
      /\ \E ref \in past.seen : CopiesInStep(c, dir.saved, ref) /\ MembersInStep(dir.saved, ref)

(* What was saved is saved once more, and as it is, when the form is sent as it is *)
(* shown and nothing has changed elsewhere ("If there's nothing to change then     *)
(* simply return the same value list", syntaxes.py:340).  Known: FirstIsEmpty.     *)
SavedIsKept ==
  past.untouched =>
    /\ report \notin {"invalid", "error"}
    /\ report = "saved" => dir.saved = past.before

(* A refused attribute has a field the user can see, unless others have changed   *)
(* something in the meantime.  Known: the addresses of a mail group are not seen,   *)
(* and are refused when another entry has one of them.                         *)
RefusedIsSeen ==
  (report = "invalid" /\ past.during = 0) =>
    \/ \E at \in past.invalid : ~Unseen(form.class, at, work)
    \/ \E ref \in past.seen : \E dn1, dn2 \in DOMAIN ref :
         dn1 # dn2 /\ ToSet(Get(ref[dn1], "mail", <<>>)) \intersect ToSet(Get(ref[dn2], "mail", <<>>)) # {}
=============================================================================
