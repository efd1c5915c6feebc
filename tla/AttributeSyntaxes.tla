------------------------- MODULE AttributeSyntaxes -------------------------
(***************************************************************************)
(* The values of one attribute on their way through the input form: each       *)
(* syntax class of schema/syntaxes.py turns a value into the text of a field    *)
(* (form_value), the browser sends the text back, the class turns it into a      *)
(* value (sanitize) and checks it (validate), and modify writes what has         *)
(* changed.  Two methods that are to be inverse to each other, and a check,      *)
(* are written separately for some fifty classes.                            *)
(*                                                                         *)
(* A value or text is [as, content]: a notation and the content.  Content is a        *)
(* sequence: the digits of a time, a number, a word; what matters of a word is   *)
(* in the notation.                                                         *)
(***************************************************************************)
EXTENDS Integers, Sequences, FiniteSets, FiniteSetsExt

CONSTANTS
  Classes,      \* syntax classes in use
  Samples,      \* Samples[c]: lists of values an entry may have
  Typed,        \* Typed[c]: texts the user may type
  Libraries,    \* of "phonenumbers", "defusedxml" and "PIL", those installed
  Flags,        \* flag_desc_table of the BitArrayInteger class: powers of two
  Options,      \* words of the select lists: attr_value_dict, or entries found
  Clock,        \* Clock[n]: digits of the time in n seconds; <<>> after year 9999
  MaxRounds     \* bound: times the form is sent

VARIABLES
  pc,       \* "Entry" or "Form"
  form,     \* [class, hidden]: hidden if the user may not write the attribute
  dir,      \* [vals, found]: the values of the attribute; entries found per option
  work,     \* the texts of the fields
  report,   \* "", "invalid", "error", "unchanged" or "modified"
  past      \* for the properties: rounds, when the form was opened and touched, the text typed

vars == <<pc, form, dir, work, report, past>>

Text(as, content) == [as |-> as, content |-> content]
Nothing == Text("empty", <<>>)
Empty(t) == t.as = "empty"

SyntaxAssumption ==
  /\ MaxRounds \in Nat /\ \A f \in Flags : f \in Nat \ {0}
  /\ \A c \in Classes : Samples[c] # {} /\ \A list \in Samples[c] : \A i \in DOMAIN list : ~Empty(list[i])

-----------------------------------------------------------------------------
(* Text. *)

(* form_value() of LDAPSyntax: text that cannot be decoded is replaced. *)
Snipped == Text("snipped", <<"!!!snipped because of UnicodeDecodeError!!!">>)
Decoded(v) == IF v.as = "bytes" THEN Snipped ELSE v

Strip(t) == IF t.as = "padded" THEN [t EXCEPT !.as = "plain"] ELSE t
Lower(t) == IF t.as = "upper" THEN [t EXCEPT !.as = "plain"] ELSE t
Upper(t) == IF t.as \in {"plain", "padded"} THEN [t EXCEPT !.as = "upper"] ELSE t

DirectoryString(v) == v.as # "bytes"
IA5String(v) == v.as \notin {"bytes", "accented"}
DistinguishedName(v) == v.as = "dn"
NameAndOptionalUID(v) == v.as \in {"dn", "dn#uid"}

(* Classes that check a pattern and no more. *)
PrintableStrings == {"PrintableString", "NumericString", "EnhancedGuide", "Guide"}
Anchored == {"BitString", "DeliveryMethod"}       \* by "^" and "$"
Patterned == Anchored \union PrintableStrings \union {"TelexNumber", "TeletexTerminalIdentifier"}
Matches(c, v) ==
  \/ v.as = "plain"
  \/ v.as = "padded" /\ c \notin Anchored
  \/ v.as = "upper" /\ c \notin Anchored \union {"NumericString"}

(* Classes that strip, and check with a parser or a pattern. *)
Addresses == {"IPHostAddress", "IPv4HostAddress", "IPNetworkAddress"}
Algorithms == {"HashAlgorithmOID", "HMACAlgorithmOID"}
Stripped == Addresses \union Algorithms \union {"Uri", "OID", "SchemaDescription", "CountryString"}
AddressValid(c, v) == v.as = "plain" \/ (c = "IPNetworkAddress" /\ v.as = "net")
UriValid(v) == v.as \notin {"bad", "snipped", "bytes"}
OidValid(v) == v.as \in {"plain", "upper"}
SchemaDescription(v) == v.as \notin {"bad", "snipped", "bytes"}

(* Separators are put in or taken out, and letters made small. *)
MacAddress(t) == IF t.as \in {"padded", "upper", "dashed"} THEN [t EXCEPT !.as = "plain"] ELSE t
UUID(t) == IF t.as \in {"upper", "dashed"} THEN [t EXCEPT !.as = "plain"] ELSE t

(* The last byte is cut off in the form, whatever it is: of an accented letter it *)
(* is one of two, and the rest cannot be decoded.                              *)
UncutForm(v) == IF Empty(v) THEN v ELSE IF v.as = "null" THEN Text("plain", v.content) ELSE Text("plain", v.content \o <<"cut">>)
WithNull(t) == Text("null", t.content)

(* Hex digits; other text is taken for the bytes themselves. *)
HexForm(v) == IF Empty(v) THEN v ELSE Text("hex", v.content)
OctetString(t) == Text("bytes", t.content)

(* An image in another format is converted; one that cannot be read stays.       *)
JPEGImage(t) == IF t.as = "png" /\ "PIL" \in Libraries THEN [t EXCEPT !.as = "jpeg"] ELSE t

(* Lines: each class has a separator of its own. *)
MultilineText(t) == IF t.as = "lf" THEN Text("crlf", t.content) ELSE t
PostalForm(v) == IF v.as \in {"dollar", "spaced"} THEN Text("crlf", v.content) ELSE v
PostalAddress(t) == IF t.as \in {"lf", "crlf"} THEN Text("spaced", t.content) ELSE t
XmlForm(v) == IF v.as = "lf" THEN Text("crlf", v.content) ELSE v
XmlValue(t) == IF t.as = "crlf" THEN Text("lf", t.content) ELSE t
XmlValid(v) == v.as # "bytes" /\ (v.as # "bad" \/ "defusedxml" \notin Libraries)
JSONForm(v) == IF v.as \in {"json", "indented"} THEN Text("indented", v.content) ELSE XmlForm(v)
JSONValue(t) == IF t.as \in {"json", "indented"} THEN Text("json", t.content) ELSE XmlValue(t)

(* Names are shown in Unicode and stored in ASCII (IDNA).  A label that cannot   *)
(* be encoded is an error that nobody catches, and so is one in ASCII, "xn", that  *)
(* begins like an encoded one and cannot be decoded.                           *)
DomainForm(v) == IF v.as = "idna" THEN Text("accented", v.content) ELSE Decoded(v)
DNSDomain(t) == IF t.as = "accented" THEN Text("idna", t.content) ELSE Lower(Strip(t))
DomainValid(c, v) == v.as \in {"plain", "idna", "xn"} /\ (c = "DomainComponent" => Len(v.content) = 1)

(* An address is split at its one "@". *)
HasDomain(t) == Len(t.content) = 2
AddressForm(v) == IF HasDomain(v) THEN DomainForm(v) ELSE Decoded(v)
RFC822Address(t) == IF HasDomain(t) THEN DNSDomain(t) ELSE t
MailValid(v) == HasDomain(v) /\ v.as \in {"plain", "idna", "xn"}

(* A number the library can parse is written in international format.  There an  *)
(* "extension", x12, becomes "ext", with letters the pattern does not allow.      *)
International == [national |-> "plain", extension |-> "ext"]
TelephoneNumber(t) ==
  IF t.as \in DOMAIN International /\ "phonenumbers" \in Libraries THEN [t EXCEPT !.as = International[t.as]] ELSE t
TelephoneValid(c, v) == v.as \in {"plain", "national", "padded", "extension"} \/ (c = "FacsimileTelephoneNumber" /\ v.as = "fax")

-----------------------------------------------------------------------------
(* Numbers. *)

Numbers == {"Integer", "IPServicePortNumber", "SecondsSinceEpoch", "DaysSinceEpoch"}
IntegerValue(t) == IF t.as = "padded" THEN Text("number", t.content) ELSE t   \* zeros in front
MinValue(c) == IF c \in {"Integer", "BitArrayInteger"} THEN -(10^9) ELSE 0
MaxValue(c) == IF c = "IPServicePortNumber" THEN 65535 ELSE IF c = "BitArrayInteger" THEN SumSet(Flags) ELSE 2 * 10^9
IntegerValid(c, v) == v.as \in {"number", "padded"} /\ MinValue(c) <= v.content[1] /\ v.content[1] <= MaxValue(c)

(* The larger units first; a unit of which there is none is left out. *)
ts2repr(n) ==
  SelectSeq(<< <<n \div 604800, "weeks">>, <<(n % 604800) \div 86400, "days">>, <<(n % 86400) \div 3600, "hours">>,
               <<(n % 3600) \div 60, "mins">>, <<n % 60, "secs">> >>,
            LAMBDA part : part[1] > 0)
Divisor_HourMinutes == [weeks |-> 604800, days |-> 86400, hours |-> 3600, mins |-> 3600, secs |-> 1]   \* mutant
Divisor == [weeks |-> 604800, days |-> 86400, hours |-> 3600, mins |-> 60, secs |-> 1]
repr2ts(parts) ==
  IF /\ \A i \in DOMAIN parts : parts[i][2] \in DOMAIN Divisor
     /\ \A i, j \in DOMAIN parts : i # j => parts[i][2] # parts[j][2]
  THEN Text("number", <<MapThenSumSet(LAMBDA i : parts[i][1] * Divisor[parts[i][2]], DOMAIN parts)>>)
  ELSE Text("bad", parts)

TimespanForm(v) ==
  IF v.as \notin {"number", "padded"} THEN Decoded(v)
  ELSE IF ts2repr(v.content[1]) = <<>> THEN Nothing ELSE Text("span", ts2repr(v.content[1]))
Timespan(t) == IF t.as = "span" THEN repr2ts(t.content) ELSE IntegerValue(t)

(* A line for each flag of the table; an absent value is 0, and so is text, but   *)
(* not if it is not ASCII.                                                    *)
FlagForm(v) == Text("flags", <<IF Empty(v) THEN {} ELSE {f \in Flags : (v.content[1] \div f) % 2 = 1}>>)
FlagValue(t) ==
  CASE t.as = "flags" -> Text("number", <<SumSet(t.content[1] \intersect Flags)>>)
    [] t.as \in {"number", "padded"} -> IntegerValue(t)
    [] t.as = "accented" -> t
    [] OTHER -> Text("number", <<0>>)

-----------------------------------------------------------------------------
(* Points in time: digits as stored, <<year, month, ..., second>> in a form.   *)

Times == {"GeneralizedTime", "NotBefore", "NotAfter", "UTCTime"}
TimeDefault == [c \in {"NotBefore", "NotAfter"} |->
                  IF c = "NotBefore" THEN <<0, 0, 0, 0, 0, 0>> ELSE <<2, 3, 5, 9, 5, 9>>]
Number(ds) == MapThenSumSet(LAMBDA i : ds[i] * 10^(Len(ds) - i), DOMAIN ds)
Two(n) == <<n \div 10, n % 10>>
FourDigits(n) == Two(n \div 100) \o Two(n % 100)
(* strftime() writes a year before 1000 without zeros in front. *)
YearDigits(n) == SubSeq(FourDigits(n), Min({i \in 1..4 : FourDigits(n)[i] # 0}), 4)
DateDigits(at) == YearDigits(at[1]) \o Two(at[2]) \o Two(at[3])
ToDigits(at) == DateDigits(at) \o Two(at[4]) \o Two(at[5]) \o Two(at[6])
MonthDays(year, month) ==
  IF month # 2 THEN (IF month \in {4, 6, 9, 11} THEN 30 ELSE 31)
  ELSE IF year % 4 = 0 /\ (year % 100 # 0 \/ year % 400 = 0) THEN 29 ELSE 28

(* strptime(): the fields after the year have one digit or two, as many as the   *)
(* pattern of the format can take from the left: a digit that is missing is      *)
(* missing at the end, and the fields before it are taken for others.           *)
Widths == [1..5 -> 1..2]
Ranges == <<1..12, 1..31, 0..23, 0..59, 0..61>>
Start(w, i) == MapThenSumSet(LAMBDA j : w[j], 1..(i - 1))
Part(ds, w, i) == Number(SubSeq(ds, Start(w, i) + 1, Start(w, i) + w[i]))
Greedy(w) == MapThenSumSet(LAMBDA i : w[i] * 2^(5 - i), 1..5)
strptime(ds, yearDigits) ==
  LET rest == SubSeq(ds, yearDigits + 1, Len(ds))
      fits == {w \in Widths : Start(w, 6) = Len(rest) /\ \A i \in 1..5 : Part(rest, w, i) \in Ranges[i]}
      best == CHOOSE w \in fits : \A other \in fits : Greedy(other) <= Greedy(w)
      year == Number(SubSeq(ds, 1, yearDigits)) + (IF yearDigits = 2 THEN 2000 ELSE 0)
      at == <<year>> \o [i \in 1..5 |-> Part(rest, best, i)]
  IN IF year > 0 /\ fits # {} /\ at[3] <= MonthDays(at[1], at[2]) /\ at[6] < 60 THEN at ELSE <<>>

(* utc_strptime(), behind the pattern of the class. *)
TimeValid(v) ==
  \/ v.as = "Z" /\ \/ Len(v.content) = 14 /\ strptime(v.content, 4) # <<>>
                   \/ Len(v.content) = 12 /\ strptime(v.content, 2) # <<>>
  \/ v.as \in {"fraction", "offset"} /\ Len(v.content) = 14 /\ strptime(v.content, 4) # <<>>

TimeForm(v) ==
  IF v.as = "Z" /\ strptime(v.content, 4) # <<>> THEN Text("iso", strptime(v.content, 4)) ELSE Decoded(v)

(* The word for a day and the date are for the classes that have a default time;  *)
(* seconds count from now.  A year of less than four digits is not read again, and  *)
(* is written without the zeros of a year that is.                             *)
TimeValue(c, t) ==
  CASE t.as = "seconds" -> Text("Z", Clock[t.content[1]])
    [] t.as = "day" /\ c \in DOMAIN TimeDefault -> Text("Z", SubSeq(Clock[86400 * t.content[1]], 1, 8) \o TimeDefault[c])
    [] t.as = "date" /\ c \in DOMAIN TimeDefault -> Text("Z", DateDigits(t.content) \o TimeDefault[c])
    [] t.as = "iso" /\ t.content[1] >= 1000 -> Text("Z", ToDigits(t.content))
    [] t.as = "minutes" -> Text("Z", ToDigits(t.content))
    [] t.as = "Z" /\ strptime(t.content, 4) # <<>> -> Text("Z", ToDigits(strptime(t.content, 4)))
    [] OTHER -> t

(* Dates; "german" and "american" are other formats that are accepted, "short" has  *)
(* a year of less than four digits.  The digits of NumstringDate are not read.    *)
Dates == {"ISO8601Date", "NumstringDate", "DateOfBirth"}
DateValue(c, t) ==
  IF t.as \in {"german", "american"} \/ (t.as = "date" /\ c # "NumstringDate")
  THEN Text(IF t.content[1] < 1000 THEN "short" ELSE "date", t.content) ELSE t
DateValid(c, v) == v.as = "date" /\ (c = "DateOfBirth" => Number(DateDigits(v.content)) <= Number(SubSeq(Clock[0], 1, 8)))

-----------------------------------------------------------------------------
(* Select lists. *)

Dynamic == {"DynamicValueSelectList", "DynamicDNSelectList"}
Selects == {"SelectList", "Boolean", "CountryString", "LDAPv3ResultCode"} \union Algorithms \union Dynamic
Word(v) == v.content[1]

(* The options are in the code, or found by a search: none if it fails.         *)
get_attr_value_dict(c, found) == IF c \in Dynamic THEN {o \in Options : found[o] > 0} ELSE Options

(* The options of a field: without the other values, with its own.              *)
SortedOptions(c, found, vals, i) ==
  {Nothing} \union {vals[j] : j \in DOMAIN vals \intersect {i}}
  \union {Text(IF c = "Boolean" THEN "upper" ELSE "plain", <<o>>) :
            o \in get_attr_value_dict(c, found) \ {Word(vals[j]) : j \in DOMAIN vals \ {i}}}

(* For a Boolean in small letters the keys of the options are replaced while    *)
(* they are iterated over: a RuntimeError, from Python 3.8 on.                  *)
OptionsRaise(c, hidden, vals) == c = "Boolean" /\ ~hidden /\ \E i \in DOMAIN vals : vals[i].as = "plain"
Boolean(found, v) == Word(v) \in get_attr_value_dict("Boolean", found)

(* A value of DynamicValueSelectList must be found once, not more often.        *)
SelectList(c, found, v) == v.as = "plain" /\ Word(v) \in get_attr_value_dict(c, found)
DynamicDNSelectList(found, v) == SelectList("DynamicDNSelectList", found, v)
DynamicValueSelectList(found, v) == v.as = "plain" /\ Word(v) \in Options /\ found[Word(v)] = 1
SelectValid(c, found, v) ==
  CASE c = "Boolean" -> Boolean(found, v)
    [] c = "DynamicDNSelectList" -> DynamicDNSelectList(found, v)
    [] c = "DynamicValueSelectList" -> DynamicValueSelectList(found, v)
    [] OTHER -> SelectList(c, found, v)

-----------------------------------------------------------------------------
(* The three methods of a class. *)

editable(c) == c \notin {"Binary", "JPEGImage"}

form_value(c, v) ==
  CASE c = "NullTerminatedDirectoryString" -> UncutForm(v)
    [] c = "OctetString" -> HexForm(v)
    [] c = "BitArrayInteger" -> FlagForm(v)
    [] ~editable(c) -> Nothing
    [] Empty(v) -> Nothing
    [] c = "PostalAddress" -> PostalForm(v)
    [] c = "XmlValue" -> XmlForm(v)
    [] c = "JSONValue" -> JSONForm(v)
    [] c \in {"DNSDomain", "DomainComponent"} -> DomainForm(v)
    [] c = "RFC822Address" -> AddressForm(v)
    [] c = "Timespan" -> TimespanForm(v)
    [] c \in Times -> TimeForm(v)
    [] OTHER -> Decoded(v)

(* Text that cannot be decoded, or flags that are not a number: form_value() of  *)
(* these classes ends in an error, for a hidden field, too.                       *)
FormRaises(c, v) ==
  CASE c \in {"MultilineText", "PostalAddress", "XmlValue", "JSONValue"} -> v.as = "bytes"
    [] c = "NullTerminatedDirectoryString" -> v.as \in {"bytes", "accented"}
    [] c = "BitArrayInteger" -> v.as \notin {"number", "padded", "empty"}
    [] c \in {"DNSDomain", "DomainComponent"} -> v.as = "xn"
    [] c = "RFC822Address" -> HasDomain(v) /\ v.as \in {"xn", "bytes"}
    [] OTHER -> FALSE

sanitize(c, t) ==
  CASE c = "NullTerminatedDirectoryString" -> WithNull(t)
    [] c = "BitArrayInteger" -> FlagValue(t)
    [] Empty(t) -> t
    [] c \in Stripped -> Strip(t)
    [] c = "AEUid" -> Lower(Strip(t))
    [] c = "AETicketId" -> Upper(t)
    [] c = "JPEGImage" -> JPEGImage(t)
    [] c = "MacAddress" -> MacAddress(t)
    [] c = "UUID" -> UUID(t)
    [] c = "OctetString" -> OctetString(t)
    [] c = "MultilineText" -> MultilineText(t)
    [] c = "PostalAddress" -> PostalAddress(t)
    [] c = "XmlValue" -> XmlValue(t)
    [] c = "JSONValue" -> JSONValue(t)
    [] c \in {"DNSDomain", "DomainComponent"} -> DNSDomain(t)
    [] c = "RFC822Address" -> RFC822Address(t)
    [] c \in {"TelephoneNumber", "FacsimileTelephoneNumber"} -> TelephoneNumber(t)
    [] c \in Numbers -> IntegerValue(t)
    [] c = "Timespan" -> Timespan(t)
    [] c \in Times -> TimeValue(c, t)
    [] c \in Dates -> DateValue(c, t)
    [] OTHER -> t

(* Errors of a class that get_entry_input() does not catch. *)
Raises(c, t) ==
  \/ c \in {"DNSDomain", "DomainComponent"} /\ t.as = "bad"
  \/ c = "RFC822Address" /\ HasDomain(t) /\ t.as = "bad"
  \/ c \in Times /\ t.as = "seconds" /\ Clock[t.content[1]] = <<>>

validate(c, found, v) ==
  CASE Empty(v) -> TRUE
    [] c \in {"DirectoryString", "MultilineText", "PostalAddress"} -> DirectoryString(v)
    [] c \in {"IA5String", "AETicketId"} -> IA5String(v)
    [] c = "AEUid" -> v.as = "plain"
    [] c = "DistinguishedName" -> DistinguishedName(v)
    [] c = "NameAndOptionalUID" -> NameAndOptionalUID(v)
    [] c \in Patterned -> Matches(c, v)
    [] c \in Addresses -> AddressValid(c, v)
    [] c = "Uri" -> UriValid(v)
    [] c = "OID" -> OidValid(v)
    [] c = "SchemaDescription" -> SchemaDescription(v)
    [] c \in {"MacAddress", "UUID"} -> v.as = "plain"
    [] c = "NullTerminatedDirectoryString" -> v.as \in {"null", "bytes"}
    [] c = "JSONValue" -> v.as = "json"
    [] c = "JPEGImage" -> v.as = "jpeg"
    [] c = "XmlValue" -> XmlValid(v)
    [] c \in {"DNSDomain", "DomainComponent"} -> DomainValid(c, v)
    [] c = "RFC822Address" -> MailValid(v)
    [] c \in {"TelephoneNumber", "FacsimileTelephoneNumber"} -> TelephoneValid(c, v)
    [] c \in Numbers \union {"Timespan", "BitArrayInteger"} -> IntegerValid(c, v)
    [] c \in Times -> TimeValid(v)
    [] c \in Dates -> DateValid(c, v)
    [] c \in Selects -> SelectValid(c, found, v)
    [] OTHER -> TRUE

-----------------------------------------------------------------------------
(* The form, the browser and modify. *)

(* InputFormEntry: there is a field for an attribute without values, and an      *)
(* empty one for each that cannot be edited.                                   *)
Fields(c, vals) ==
  IF ~editable(c) \/ vals = <<>> THEN <<form_value(c, Nothing)>> ELSE [i \in DOMAIN vals |-> form_value(c, vals[i])]

FieldsRaise(c, hidden, vals) ==
  OptionsRaise(c, hidden, vals) \/ (editable(c) /\ \E i \in DOMAIN vals : FormRaises(c, vals[i]))

(* What the browser sends of a text: line breaks are lost in a field of one line  *)
(* and are CR LF elsewhere, and a number field takes only numbers.  s2d() takes    *)
(* the tabs out of a hidden field.                                            *)
Areas == {"BitArrayInteger", "OctetString", "MultilineText", "PostalAddress", "XmlValue", "JSONValue"}
Browser(c, hidden, t) ==
  CASE hidden -> IF t.as = "tabbed" THEN Text("plain", t.content) ELSE IF t.as = "lf" THEN Text("crlf", t.content) ELSE t
    [] ~hidden /\ c \in Areas -> IF t.as = "lf" THEN Text("crlf", t.content) ELSE t
    [] ~hidden /\ c \in Numbers -> IF t.as \in {"number", "padded", "empty"} THEN t ELSE Nothing
    [] OTHER -> IF t.as \in {"lf", "crlf"} THEN Text("plain", t.content) ELSE t

Full(vals) == SelectSeq(vals, LAMBDA v : ~Empty(v))

Init ==
  \E c \in Classes, hidden \in BOOLEAN : \E vals \in Samples[c] :
    /\ pc = "Entry" /\ work = <<>> /\ report = ""
    /\ form = [class |-> c, hidden |-> hidden]
    /\ dir = [vals |-> vals, found |-> [o \in Options |-> 1]]
    /\ past = [rounds |-> 0, opened |-> 0, touched |-> 0, typed |-> Nothing, last |-> vals, elsewhere |-> FALSE, refused |-> FALSE]

OpenForm ==
  /\ pc = "Entry" /\ past.rounds < MaxRounds /\ report # "error"
  /\ IF FieldsRaise(form.class, form.hidden, dir.vals)
     THEN report' = "error" /\ UNCHANGED <<pc, work>>
     ELSE pc' = "Form" /\ work' = Fields(form.class, dir.vals) /\ report' = ""
  /\ past' = [past EXCEPT !.last = dir.vals, !.opened = past.rounds, !.refused = FALSE]
  /\ UNCHANGED <<form, dir>>

(* The user changes a field once, if it can be seen; a select list without     *)
(* options is a field for text.                                               *)
Touch ==
  LET c == form.class
      choice(i) == IF c \in Selects /\ get_attr_value_dict(c, dir.found) # {}
                   THEN SortedOptions(c, dir.found, dir.vals, i) ELSE Typed[c]
  IN /\ pc = "Form" /\ ~form.hidden /\ past.touched = 0
     /\ \E i \in DOMAIN work : \E t \in choice(i) :
          /\ work' = [work EXCEPT ![i] = t]
          /\ past' = [past EXCEPT !.touched = past.rounds + 1, !.typed = t, !.refused = FALSE]
     /\ UNCHANGED <<pc, form, dir, report>>

(* Somebody adds or removes an entry the select list finds, or the search fails. *)
FoundElsewhere ==
  /\ form.class \in Dynamic /\ ~past.elsewhere
  /\ \/ \E o \in Options, n \in {0, 2} : dir' = [dir EXCEPT !.found[o] = n]
     \/ dir' = [dir EXCEPT !.found = [o \in Options |-> 0]]
  /\ past' = [past EXCEPT !.elsewhere = TRUE]
  /\ UNCHANGED <<pc, form, work, report>>

(* get_entry_input() and modify. *)
Send ==
  LET c == form.class
      sent == [i \in DOMAIN work |-> Browser(c, form.hidden, work[i])]
      raised == \E i \in DOMAIN sent : Raises(c, sent[i])
      vals == [i \in DOMAIN sent |-> sanitize(c, sent[i])]
      invalid == \E i \in DOMAIN vals : ~validate(c, dir.found, vals[i])
  IN /\ pc = "Form" /\ past.rounds < MaxRounds
     /\ \/ /\ raised
           /\ report' = "error" /\ pc' = "Entry" /\ work' = <<>> /\ UNCHANGED dir
        \/ /\ ~raised /\ invalid
           /\ IF FieldsRaise(c, form.hidden, vals)
              THEN report' = "error" /\ pc' = "Entry" /\ work' = <<>>
              ELSE report' = "invalid" /\ work' = Fields(c, vals) /\ UNCHANGED pc
           /\ UNCHANGED dir
        \/ /\ ~raised /\ ~invalid
           /\ dir' = [dir EXCEPT !.vals = IF editable(c) \/ Full(vals) # <<>> THEN Full(vals) ELSE @]
           /\ report' = IF dir'.vals = dir.vals THEN "unchanged" ELSE "modified"
           /\ pc' = "Entry" /\ work' = <<>>
     /\ past' = [past EXCEPT !.rounds = @ + 1, !.refused = @ \/ report' = "invalid"]
     /\ UNCHANGED form

Next == OpenForm \/ Touch \/ FoundElsewhere \/ Send
Spec == Init /\ [][Next]_vars

-----------------------------------------------------------------------------
(* Properties. *)

TypeOK ==
  /\ pc \in {"Entry", "Form"} /\ form.class \in Classes /\ form.hidden \in BOOLEAN
  /\ report \in {"", "invalid", "error", "unchanged", "modified"}
  /\ past.rounds \in 0..MaxRounds /\ (pc = "Entry" <=> work = <<>>)
  /\ \A i \in DOMAIN dir.vals : ~Empty(dir.vals[i])

(* What a value says: times, numbers and text in any notation. *)
Instant(c, v) ==
  LET y == IF c = "UTCTime" /\ Len(v.content) = 12 THEN 2 ELSE 4
      field(i) == IF Len(v.content) < y + 2 * i THEN 0 ELSE Number(SubSeq(v.content, y + 2 * i - 1, y + 2 * i))
  IN <<Number(SubSeq(v.content, 1, y)) + (IF y = 2 THEN 2000 ELSE 0)>> \o [i \in 1..5 |-> field(i)]
Meaning(c, v) ==
  CASE c \in Times /\ v.as = "Z" -> <<"time", Instant(c, v)>>
    [] c \in Numbers \union {"Timespan"} /\ v.as = "padded" -> <<"number", v.content>>
    [] c \in Dates -> <<"date", v.content>>
    [] v.as \in {"padded", "upper", "dashed"} -> <<"plain", v.content>>
    [] v.as \in {"lf", "dollar", "spaced"} -> <<"crlf", v.content>>
    [] v.as = "indented" -> <<"json", v.content>>
    [] v.as = "national" -> <<"plain", v.content>>
    [] OTHER -> <<v.as, v.content>>
Says(c, vals) == [i \in DOMAIN vals |-> Meaning(c, vals[i])]

(* What the code is known to lose of a form that is only opened and sent.  *)
Lossy(c, hidden, vals) ==
  \/ vals = <<>> /\ c \in {"NullTerminatedDirectoryString", "BitArrayInteger"}
  \/ \E i \in DOMAIN vals :
       LET v == vals[i] IN
         \/ v.as = "bytes" /\ c # "OctetString"
         \/ v.as = "tabbed" /\ hidden
         \/ v.as \in {"lf", "crlf"} /\ ~hidden /\ c \notin Areas
         \/ v.as # "null" /\ c = "NullTerminatedDirectoryString"
         \/ v.as = "bad" /\ ~hidden /\ c \in Numbers
         \/ v.as = "number" /\ c = "Timespan" /\ v.content[1] <= 0
         \/ c = "BitArrayInteger" /\ v.content[1] # SumSet({f \in Flags : (v.content[1] \div f) % 2 = 1})
         \/ c \in Times /\ v.as = "Z" /\ Len(v.content) # 14

(* "This is the inverse of LDAPSyntax.form_value()" (sanitize, syntaxes.py:323):  *)
(* a form that is opened and sent as it is leaves the values with their meaning,   *)
(* and those a form has written as they are, apart from what is known to be lost. *)
OpenedIsKept ==
  (pc = "Entry" /\ report = "modified" /\ past.touched <= past.opened)
    => \/ Lossy(form.class, form.hidden, past.last)
       \/ past.opened = 0 /\ Says(form.class, dir.vals) = Says(form.class, past.last)

(* A year before 1000 is shown, or written, without its zeros. *)
ShortYear(c, t) ==
  \/ c \in Times /\ t.as = "Z" /\ t.content[1] = 0
  \/ c \in Times \union Dates /\ t.as \in {"minutes", "date"} /\ t.content[1] < 1000

(* Valid values the code is known to refuse, or to fail for. *)
KnownRefused(c, v) ==
  \/ ShortYear(c, v)
  \/ v.as = "extension" /\ "phonenumbers" \in Libraries
  \/ v.as = "xn"
  \/ v.as = "bytes" /\ c = "NullTerminatedDirectoryString"

(* The form of valid values can be opened, and they are not refused when the user  *)
(* has not touched them, apart from a Boolean in small letters, years before 1000,  *)
(* extensions of telephone numbers, names that cannot be decoded, and bytes before  *)
(* a null byte.                                                               *)
ValidIsAccepted ==
  (report \in {"invalid", "error"} /\ past.touched <= past.opened)
    => \/ \E i \in DOMAIN past.last :
            ~validate(form.class, dir.found, past.last[i]) \/ KnownRefused(form.class, past.last[i])
       \/ OptionsRaise(form.class, form.hidden, past.last)

(* Input that was refused is shown such that it is refused again when it is sent  *)
(* as shown, not written as something else.  A file is not shown; and a time that    *)
(* has lost the zeros of its year may be shown with another year.               *)
RefusedIsShown ==
  (pc = "Entry" /\ report \in {"unchanged", "modified"} /\ past.refused)
    => \/ past.elsewhere \/ (~editable(form.class) /\ report = "unchanged")
       \/ form.class \in Times /\ ShortYear(form.class, past.typed)
=============================================================================
