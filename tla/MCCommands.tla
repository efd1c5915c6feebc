----------------------------- MODULE MCCommands ----------------------------
(***************************************************************************)
(* Instances of Commands for TLC, and with them three more modules: what the  *)
(* pages of any command offer, and what becomes of it when it is sent.        *)
(***************************************************************************)
EXTENDS MCRecursiveDelete, Commands, MCInputs

-----------------------------------------------------------------------------
(* Instances of Commands. *)

MCBulkDns == {"a", "b"} \X {"base", "in", "out"}
Old(values) == [is |-> "old", vals |-> values, hits |-> 0]
Mod(op, av) == [op |-> op, av |-> av]
MCBulkStarts ==
  {[d \in BulkDns |->
      IF d = <<"a", "base">> THEN Old({"v"}) ELSE IF d = <<"b", x>> THEN Old({})
      ELSE [is |-> "none", vals |-> {}, hits |-> 0]] : x \in {"base", "in"}}
MCRefuses == [d \in BulkDns |-> IF d = <<"b", "in">> THEN {"modify", "read"} ELSE {}]
MCBulkRows ==
  {<<Mod("", "")>>, <<Mod("add", "vTAB")>>, <<Mod("delete", "bad")>>, <<Mod("replace", "v")>>,
   <<Mod("add", "v"), Mod("delete", "")>>}

MCGroupsAre == [g1 |-> {"groupOfNames"}, g2 |-> {"groupOfNames", "posixGroup"}, g3 |-> {"groupOfNames", "org"}]

MCNamed ==
  {[dn |-> <<[t \in {"cn"} |-> "x"], "p">>,
    vals |-> [t \in {"cn", "ou"} |-> IF t = "cn" THEN {"x"} ELSE {}]]}

Known == {"extop", "readable", "pwdReset", "aux", "userPassword", "shadow", "nt", "ntTime"}
MCSchemas == {Known, Known \ {"extop", "aux"}, {"readable", "aux", "nt"}, Known \ {"readable"}}
MCForms ==
  [action : {"default", "passwdextop", "setuserpassword"}, input : {"empty", "new"},
   old : {"none", "right", "wrong"}, force : BOOLEAN, ntsync : BOOLEAN, timesync : BOOLEAN,
   who : {"self", "alias", "other", "nobody"}]
  \union [action : {"default"}, input : {"none", "single", "differ"}, old : {"none"}, force : {FALSE},
          ntsync : {FALSE}, timesync : {TRUE}, who : {"self"}]

Row(attr, option, av) == [at |-> attr, option |-> option, av |-> av]
MCSearchRows == {<<Row("", "is", "v"), Row("a", "exists", "")>>, <<Row("a", "is", "")>>}

Op(op, arg) == [op |-> op, arg |-> arg]
MCMethodsOf == [c1 |-> {"**all**"}, c2 |-> {"delete", "rename"}]
MCMenus ==
  {{Op("schema", "d1"), Op("flush", "all")},
   {Op("audit", "d1"), Op("audit", "d2"), Op("flush", "all")},
   {Op("enable", "c1"), Op("enable", "c2"), Op("disable", "c2")},
   {Op("enable", "c2"), Op("disable", "c2"), Op("send", "rename"), Op("send", "search")}}

Id(server, from, own, typed) == [at |-> server, from |-> from, own |-> own, typed |-> typed]
MCIdStarts ==
  {[used |-> [s1 |-> u, s2 |-> {1}, p |-> {}],
    menu |-> {Id("s1", "new", 0, FALSE), Id("s2", "new", 0, FALSE)}] : u \in {{1, 3}, {1, 2, 3}}}
  \union {[used |-> [s1 |-> {1, 2}, s2 |-> {1}, p |-> {}],
           menu |-> {Id("s1", "edit", 2, FALSE), Id("s1", "clone", 1, TRUE)}],
          [used |-> [s1 |-> {}, s2 |-> {}, p |-> {1}],
           menu |-> {Id("p", "clone", 1, FALSE), Id("p", "new", 0, FALSE), Id("p", "edit", 1, FALSE)}],
          [used |-> [s1 |-> {}, s2 |-> {}, p |-> {1}], menu |-> {Id("p", "clone", 1, TRUE)}]}

MCClassSchema ==
  [kind |-> ClassKinds, order |-> <<"org", "unit", "top", "aux", "ext", "odd">>, allows |-> ClassTypes,
   obsolete |-> {"old"}, fixed |-> {"time"}, template |-> TemplateTypes, contentRule |-> [unit |-> {"aux"}]]
MCDit ==
  [rules |-> StructureRules, dns |-> {"c", "o", "p"}, none |-> "", superior |-> [c |-> "", o |-> "c", p |-> "o"],
   oneRdn |-> {}, possible |-> [c |-> {1, 5}, o |-> {2, 3, 4}, p |-> {4, 3}], governing |-> [c |-> 1, o |-> 2, p |-> 4]]

-----------------------------------------------------------------------------
(* What pages offer and what they send. *)

(* A filter that fits its field, and not the field of a URL. *)
Doubled[n \in 0..6] == IF n = 0 THEN "(cn=aaaaaaaaaaaaa)" ELSE Doubled[n - 1] \o Doubled[n - 1]
LongFilter == <<Doubled[6]>>
Url(who, scope, filter, attrs) ==
  [server |-> "s1", dn |-> <<"cn=e,", "dc=c">>, scope |-> scope, filter |-> filter, attrs |-> attrs, who |-> who]
Menu == INSTANCE Navigation WITH pc <- step,
  Directories <- {[context |-> <<"dc=c">>, dn |-> <<"cn=e,", "dc=c">>, server |-> "", who |-> "none", home |-> "s1", other |-> "s2",
                   audit |-> <<"cn=log">>, config |-> <<>>, monitor |-> <<"cn=monitor">>]},
  TypedUrls <- {[to |-> "", url |-> Url("none", "2", <<"(cn=a", "\t", "  ", ")">>, <<"cn">>)],
                [to |-> "", url |-> Url("u", "0", <<>>, <<>>)],
                [to |-> "", url |-> Url("u", "1", LongFilter, <<>>)],
                [to |-> "dit", url |-> Url("none", "1", <<"(cn=a)">>, <<>>)]},
  MaxClicks <- 3,
  MaxTroubles <- 1

Syntaxes == INSTANCE AttributeSyntaxes WITH pc <- step,
  Classes <- SyntaxClasses,
  Samples <- SamplesOf,
  Typed <- TypedTexts,
  Libraries <- {"phonenumbers", "defusedxml", "PIL"},
  Flags <- {1, 2, 8},
  Options <- {"o1", "o2", "o3"},
  Clock <- ClockDigits,
  MaxRounds <- 3

Derived == INSTANCE DerivedAttributes WITH pc <- step,
  Classes <- DerivedClasses,
  Orders <- OrdersOf,
  Saved <- [c \in DerivedClasses |-> {<<>>}],
  Typed <- TypedFields,
  Versions <- VersionsOf,
  zone <- "z",
  Times <- 0..2,
  MaxRounds <- 2,
  MaxChanges <- 1

ASSUME
  Syntaxes!SyntaxAssumption /\ Derived!DerivedAssumption /\ Menu!NavigationAssumption

CommandInit ==
  \/ DispatchInit
  \/ NoDelete /\ \/ command = "modify" /\ Syntaxes!Init    \* the form and its input
                 \/ command = "addtemplate" /\ Derived!Init
                 \/ command = "" /\ Menu!Init             \* any command and its page

SyntaxesNext == command = "modify" /\ Syntaxes!Next /\ UNCHANGED <<command, vars>>
DerivedNext == command = "addtemplate" /\ Derived!Next /\ UNCHANGED <<command, vars>>
MenuNext == command = "" /\ Menu!Next /\ UNCHANGED <<command, vars>>

CommandNext == DispatchNext \/ SyntaxesNext \/ DerivedNext \/ MenuNext

CommandSpec == CommandInit /\ [][CommandNext]_all /\ DeleteFairness /\ BulkFairness

-----------------------------------------------------------------------------
(* Properties: those of Commands, and those of the pages.                     *)

(* Every variable of the command has its type. *)
CommandTypes ==
  /\ DispatchTypes
  /\ command = "modify" => Syntaxes!TypeOK
  /\ command = "addtemplate" => Derived!TypeOK
  /\ command = "" => Menu!TypeOK

(* A form that is opened and sent as it is changes no value, valid values are *)
(* not refused, and what was refused is not written when it is sent again, apart *)
(* from what the syntax classes are known to lose.  The object classes are those *)
(* that were chosen, and for no choice is an attribute lost, but for some with     *)
(* an option.                                                                 *)
InputKept ==
  /\ command = "modify" => Syntaxes!OpenedIsKept /\ Syntaxes!ValidIsAccepted /\ Syntaxes!RefusedIsShown
  /\ ClassesKept

(* Computed attributes are saved in step with what they are computed from,    *)
(* what was saved is saved again as it is, and the user sees what is refused.   *)
DerivedKept ==
  command = "addtemplate" => Derived!DerivedInStep /\ Derived!SavedIsKept /\ Derived!RefusedIsSeen

(* What a page offers is accepted when it is sent, apart from what the code   *)
(* is known to get wrong; classes and LDIF templates the server accepts are all  *)
(* offered.                                                                   *)
OfferedIsAccepted ==
  /\ command = "" => Menu!OfferedIsAccepted
  /\ command = "in_oc" => Chosen!RuleIsTrue /\ Chosen!OfferedSuffices

(* The links of a result page go on with the search they were shown for.      *)
LinksKeepSearch == command = "" => Menu!LinksKeepSearch

(* A request interrupted by a login, a referral or a choice of hosts is made  *)
(* again as it was.                                                           *)
LoginKeepsRequest == command = "" => Menu!LoginKeepsRequest
=============================================================================
