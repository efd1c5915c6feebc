------------------------------ MODULE MCInputs ------------------------------
(***************************************************************************)
(* Small instances of AttributeSyntaxes, DerivedAttributes and ObjectClasses: the values of    *)
(* entries, what users type, and the entries others change.                   *)
(***************************************************************************)
EXTENDS Integers, Sequences, TLC

-----------------------------------------------------------------------------
(* Values and texts of each syntax class. *)

As(notation, what) == [as |-> notation, content |-> what]
AWord(notation) == As(notation, <<"w">>)
OneOf(set) == {<<v>> : v \in set}

NotationsOf ==
  LET all == {"plain", "padded", "upper", "accented", "tabbed", "lf", "bytes", "bad"}
      with(classes, set) == [c \in classes |-> set]
  IN with({"MultilineText", "PostalAddress"}, {"plain", "lf", "crlf", "dollar", "spaced", "bytes"})
     @@ with({"XmlValue"}, {"plain", "lf", "crlf", "bad", "bytes"})
     @@ with({"JSONValue"}, {"json", "indented", "bad", "lf", "bytes"})
     @@ with({"TelephoneNumber", "FacsimileTelephoneNumber"}, {"plain", "national", "extension", "fax", "bad"})
     @@ with({"DistinguishedName", "NameAndOptionalUID"}, {"dn", "dn#uid", "bad"})
     @@ with({"MacAddress", "UUID"}, {"plain", "upper", "dashed", "bad"})
     @@ with({"NullTerminatedDirectoryString"}, {"null", "plain", "accented", "bytes"})
     @@ with({"OctetString", "Binary"}, {"bytes"})
     @@ with({"JPEGImage"}, {"jpeg", "png"})
     @@ with({"IPHostAddress", "IPNetworkAddress"}, {"plain", "net", "padded"})
     @@ with({"DirectoryString", "IA5String", "PrintableString", "NumericString", "BitString", "DeliveryMethod", "Uri",
              "OID", "SchemaDescription", "CountryString", "AEUid", "AETicketId"}, all)
WordClasses == DOMAIN NotationsOf
NumberClasses == {"Integer", "IPServicePortNumber", "Timespan"}
TimeClasses == {"GeneralizedTime", "NotAfter", "UTCTime"}
DateClasses == {"ISO8601Date", "NumstringDate", "DateOfBirth"}
DomainClasses == {"DNSDomain", "DomainComponent", "RFC822Address"}
SelectClasses == {"Boolean", "SelectList", "HashAlgorithmOID", "DynamicValueSelectList", "DynamicDNSelectList"}
SyntaxClasses ==
  WordClasses \union NumberClasses \union TimeClasses \union DateClasses \union DomainClasses \union SelectClasses
    \union {"BitArrayInteger"}

ANumber(n) == As("number", <<n>>)
DayTime == <<2, 0, 2, 0, 1, 2, 3, 1, 1, 2, 3, 4>>      \* without seconds
TimeSamples ==
  {As("Z", DayTime \o <<5, 6>>), As("Z", DayTime), As("Z", <<2, 0, 1, 2, 3, 1, 1, 2, 3, 4, 5, 6>>),
   As("Z", <<0, 9, 9, 9, 1, 2, 3, 1, 1, 2, 3, 4, 5, 6>>), As("Z", <<2, 0, 0, 1, 0, 1, 0, 0, 0, 0, 0, 0>>), As("Z", <<9, 9, 1, 2, 3, 1, 2, 3, 5, 9, 5, 9>>),
   As("fraction", DayTime \o <<5, 6>>), As("offset", DayTime \o <<5, 6>>), As("offset", DayTime)}

SamplesOf == [c \in SyntaxClasses |-> {<<>>} \union
  CASE c \in WordClasses -> OneOf({AWord(n) : n \in NotationsOf[c]})
    [] c \in NumberClasses -> OneOf({ANumber(n) : n \in {0, -5, 7, 90, 694861}} \union {As("padded", <<7>>), As("bad", <<0>>)})
    [] c = "BitArrayInteger" -> OneOf({ANumber(n) : n \in {0, 3, 9, 15, -7}} \union {As("bad", <<0>>), As("bytes", <<0>>)})
    [] c \in TimeClasses -> OneOf(TimeSamples)
    [] c \in DateClasses -> OneOf({As("date", <<2020, 12, 31>>), As("date", <<999, 1, 2>>), As("german", <<2020, 12, 31>>), As("bad", <<>>)})
    [] c \in DomainClasses -> OneOf({As(n, text) : n \in {"plain", "upper", "idna", "padded", "xn", "bytes"}, text \in {<<"a">>, <<"a", "b">>}})
    [] c = "Boolean" -> OneOf({As(n, <<o>>) : n \in {"plain", "upper"}, o \in {"o1", "o2"}})
    [] OTHER -> OneOf({AWord("plain"), As("plain", <<"o1">>)}) \union {<<As("plain", <<"o1">>), As("plain", <<"o2">>)>>}]
TypedTexts == [c \in SyntaxClasses |-> {As("empty", <<>>)} \union
  CASE c \in WordClasses -> {AWord(n) : n \in {"plain", "padded", "upper", "extension", "bad", "png"}}
    [] c \in NumberClasses -> {ANumber(0), ANumber(70000), As("span", <<<<1, "hours">>, <<60, "mins">>>>),
                               As("span", <<<<1, "day">>>>), As("span", <<<<1, "hours">>, <<1, "hours">>>>)}
    [] c = "BitArrayInteger" -> {ANumber(4), As("flags", <<{1, 8, 16}>>), As("bad", <<0>>), As("accented", <<0>>)}
    [] c \in TimeClasses -> {As("seconds", <<n>>) : n \in {0, 60, 20200101}}
         \union {As("day", <<-1>>), As("date", <<2020, 12, 31>>), As("minutes", <<2020, 12, 31, 10, 20, 0>>), As("Z", DayTime), As("bad", <<0>>),
                 As("Z", <<0, 9, 9, 9, 0, 1, 0, 1, 1, 2, 3, 4, 5, 6>>), As("date", <<99, 1, 2>>)}
    [] c \in DateClasses -> {As("american", <<2019, 1, 2>>), As("german", <<999, 1, 2>>), As("date", <<2040, 1, 1>>), As("bad", <<0>>)}
    [] c \in DomainClasses -> {As(n, text) : n \in {"accented", "xn", "bad", "upper"}, text \in {<<"a">>, <<"a", "b">>}}
    [] OTHER -> {As("plain", <<"o1">>), As("plain", <<"x">>)}]

(* The day before the end of February of a leap year. *)
ClockDigits ==
  0 :> <<2, 0, 2, 4, 0, 2, 2, 9, 2, 3, 5, 9, 0, 0>> @@ 60 :> <<2, 0, 2, 4, 0, 3, 0, 1, 0, 0, 0, 0, 0, 0>>
  @@ 86400 :> <<2, 0, 2, 4, 0, 3, 0, 1, 2, 3, 5, 9, 0, 0>> @@ -86400 :> <<2, 0, 2, 4, 0, 2, 2, 8, 2, 3, 5, 9, 0, 0>>
  @@ 20200101 :> <<>>

-----------------------------------------------------------------------------
(* Entries of AE-DIR: p1 is the person of account u1, in department d1; both    *)
(* accounts are members of groups.                                           *)

Cn(name) == <<"cn", name>>
Uid(name) == <<"uid", name>>
Single(name) == << <<name>> >>
At(time) == << <<time, "Z">> >>
Active == [aeStatus |-> Single(0)]
APerson(name, status) ==
  [aeStatus |-> Single(status), sn |-> Single(name), givenName |-> << <<"g", name>> >>, mail |-> Single(7), aeDept |-> <<Cn("d1")>>]
Account(area) == Active @@ [zone |-> <<Cn(area)>>]
Mail(n) == [mail |-> Single(n)]
OfP1 == [aePerson |-> <<Cn("p1")>>]

VersionsOf ==
  Cn("p1") :> <<APerson("a", 0), APerson("b", 0), APerson("a", 1)>>
  @@ Cn("d1") :> << Active @@ [ou |-> Single("dept"), departmentNumber |-> Single("12")],
                    Active @@ [departmentNumber |-> Single("12")], <<>> >>
  @@ Uid("u1") :> << Account("z") @@ Mail(1) @@ OfP1, [aeStatus |-> Single(1)] @@ Account("z") @@ Mail(1) @@ OfP1, <<>> >>
  @@ Uid("u2") :> << Account("y") @@ Mail(0), Account("y"), Account("y") @@ Mail(1) >>
  @@ Cn("g1") :> << Active >> @@ Cn("g2") :> << Active >>
  @@ Cn("z") :> << Active, Active @@ [aeDept |-> <<Cn("d2")>>] >>

DerivedClasses ==
  {"aeUser", "aePerson", "aeGroup", "aeMailGroup", "aeHost", "aeSrvGroup", "aeSudoRule", "inetOrgPerson", "aeLocation"}
AllOrders(fields) == {fields, [i \in DOMAIN fields |-> fields[Len(fields) + 1 - i]]}
OrdersOf == [c \in DerivedClasses |->
  CASE c = "aeUser" -> AllOrders(<<"aePerson", "sn", "givenName", "mail", "mailLocalAddress", "uid", "gidNumber",
                                   "uidNumber", "homeDirectory", "displayName", "aeStatus">>)
    [] c = "aePerson" -> AllOrders(<<"aeDept", "ou", "departmentNumber", "sn", "givenName", "uniqueIdentifier", "displayName">>)
    [] c = "aeGroup" -> AllOrders(<<"aeStatus", "aeExpiryStatus", "aeNotBefore", "aeNotAfter", "cn", "aeMemberZone", "aeDept",
                                    "member", "memberUid", "gidNumber">>)
    [] c = "aeMailGroup" -> AllOrders(<<"aeStatus", "aeNotAfter", "member", "rfc822MailMember">>)
    [] c = "aeHost" -> {<<"host", "cn">>, <<"cn">>}
    [] c = "aeSrvGroup" -> {<<"aeVisibleGroups", "aeLoginGroups", "aeDisplayNameGroups">>}
    [] c = "aeSudoRule" -> {<<"cn", "sudoHost", "aeStatus", "aeNotBefore", "aeNotAfter", "aeExpiryStatus">>}
    [] c = "aeLocation" -> {<<"displayName", "cn", "l", "street", "st">>}
    [] OTHER -> AllOrders(<<"cn", "givenName", "sn", "displayName", "ou">>)]

TypedFields ==
  LET account == OfP1 @@ Active
      group == [member |-> <<Uid("u1")>>, cn |-> << <<"z", "x">> >>] @@ Active
      mails == [member |-> <<Uid("u1"), Uid("u2")>>] @@ Active
      name == [givenName |-> Single("g"), sn |-> Single("s")]
      rule == [cn |-> << <<"z", "x">> >>, aeNotBefore |-> At(1)] @@ Active
  IN [c \in DerivedClasses |-> {<<>>} \union
    CASE c = "aeUser" ->
           {account, [aeStatus |-> Single(2)] @@ account,
            [objectClass |-> <<<<"aeUser">>, <<"inetLocalMailRecipient">>>>, mailLocalAddress |-> <<<<3>>, <<4>>>>] @@ account}
      [] c = "aePerson" -> {[aeDept |-> <<Cn("d1")>>] @@ name, name}
      [] c = "aeGroup" ->
           {[member |-> <<Uid("u1"), Uid("u2")>>, aeNotAfter |-> At(1), aeExpiryStatus |-> Single(2)] @@ group,
            [aeDept |-> <<Cn("d1")>>] @@ group,
            [aeMemberZone |-> <<Cn("y")>>, aeNotBefore |-> At(1), aeExpiryStatus |-> Single(1)] @@ group}
      [] c = "aeMailGroup" -> {mails, [aeNotAfter |-> At(1)] @@ mails}
      [] c = "aeHost" -> {[host |-> << <<"h">>, <<"i">> >>]}
      [] c = "aeSrvGroup" -> {[aeLoginGroups |-> <<Cn("g1")>>, aeDisplayNameGroups |-> <<Cn("g2"), Cn("g1")>>]}
      [] c = "aeSudoRule" ->
           {[cn |-> << <<"y", "x">> >>] @@ Active, [aeNotAfter |-> << <<2, "offset">> >>] @@ rule, [aeNotAfter |-> At(0)] @@ rule}
      [] c = "aeLocation" ->
           {[cn |-> Single("n"), street |-> Single("s")], [cn |-> Single("n"), st |-> Single("s"), l |-> Single("l")]}
      [] OTHER -> {name, [givenName |-> << <<>>, <<"G">> >>] @@ name, [ou |-> Single("o")] @@ name}]

-----------------------------------------------------------------------------
(* ObjectClasses: a class without schema, one with an HTML template that       *)
(* repeats a type of another; attributes with and without option of types that  *)
(* are allowed, obsolete, not modifiable or unknown.  The rule of an entry is      *)
(* found if an entry above has it or is a subschema administrative point.       *)

ClassKinds ==
  [top |-> "abstract", org |-> "structural", unit |-> "structural", ext |-> "auxiliary", aux |-> "auxiliary",
   odd |-> "unknown"]
ClassTypes ==
  [top |-> {}, org |-> {"cn", "old"}, unit |-> {"cn", "time"}, ext |-> {}, aux |-> {"desc"}, odd |-> {}]
TemplateTypes == [[c \in DOMAIN ClassKinds |-> {}] EXCEPT !.org = {"cn"}, !.aux = {"cn", "desc"}]
SomeAttributes == ({"cn", "desc", "old", "odd"} \X {"", "x"}) \union {<<"time", "">>}
StructureRule(class, sup) == [class |-> class, sup |-> sup]
StructureRules ==
  <<StructureRule("org", {}), StructureRule("unit", {1}), StructureRule("unit", {}), StructureRule("unit", {2}),
    StructureRule("org", {2})>>
Example(classes, attrs) == [classes |-> classes, attrs |-> attrs]
LdifExamples ==
  [t1 |-> [classes |-> {"top", "unit"}, attrs |-> {<<"cn", "">>}, parent |-> ""],
   t2 |-> [classes |-> {"org", "aux"}, attrs |-> SomeAttributes, parent |-> "o"]]
EditedExamples ==
  {Example({"top", "org", "odd"}, SomeAttributes), Example({"unit", "aux", "ext"}, SomeAttributes),
   Example({"odd"}, SomeAttributes \ {<<"desc", "">>, <<"odd", "">>})}
ServerWith(method, readable, admins) ==
  [method |-> method, readable |-> readable, admins |-> admins, children |-> [d \in {"c", "o", "p"} |-> {}],
   open |-> {"c", "o", "p"}, relax |-> FALSE, broken |-> FALSE]
Servers ==
  {ServerWith("rules", {}, {"c"}), ServerWith("rules", {}, {}), ServerWith("rules", {"c", "o"}, {}),
   [ServerWith("children", {}, {}) EXCEPT !.children["o"] = {"unit", "aux"}],
   [ServerWith("", {}, {}) EXCEPT !.relax = TRUE, !.open = {"o"}],
   [ServerWith("", {}, {}) EXCEPT !.broken = TRUE]}
=============================================================================
