------------------------------ MODULE WebForms -----------------------------
(***************************************************************************)
(* web/forms.py and app/form.py: the fields a request to each command may    *)
(* have, and how get_input_fields() reads a request.                         *)
(*                                                                         *)
(* A value is a sequence of tokens with a length and the kind of text it is;  *)
(* a pattern is the set of kinds it matches.  Left out: HTML, cookies,          *)
(* character sets, and required fields, of which no form has one.              *)
(***************************************************************************)
EXTENDS Integers, Sequences, SequencesExt, FiniteSetsExt, TLC

(* Kinds of text: a name without and with dots, a list of attributes, the    *)
(* same with spaces, digits, a signed number, and so on.                       *)
Kinds == {"word", "dots", "attrs", "spaced", "num", "signed", "dn", "url", "host", "mime", "text", "lines", "bytes"}
Line == Kinds \ {"lines", "bytes"}   \* ".*"
Words == {"word", "num"}

Value(kind, is, len) == [is |-> is, kind |-> kind, len |-> len, url |-> {}]
Tab == "\t"                                     \* tokens of their own
Spaces == "  "
Length(tokens) == FoldLeft(LAMBDA n, token : n + Len(token), 0, tokens)

(* Field, Input; Select, Radio, Checkbox; DistinguishedNameInput. *)
Text(len, n, takes) == [len |-> len, n |-> n, takes |-> takes, options |-> {}]
Choice(n, options) ==
  [len |-> Max({Len(o) : o \in options}), n |-> n, takes |-> {}, options |-> {<<o>> : o \in options}]
Button(len, options) == [Text(len, 1, {"signed"}) EXCEPT !.options = {<<o>> : o \in options}]   \* and "+n", "-n"
Dn(n) == Text(1024, n, {"dn"})
Check == Choice(1, {"yes"})
Flag == Choice(1, {"0", "1"})

max_searchparams == 20
input_maxattrs == 3000
AttributeTypes == Text(500, input_maxattrs, {"word", "dots", "num"})

Modes == {"base", "adv", "exp"}
ScopeOptions == {"0", "1", "2", "3"}
SearchOptions == {"is", "contains", "exists", "begins", "atmost", "subtree"}   \* and others
Outputs == {"table", "raw", "print", "ldif", "ldif1", "csv", "excel"}
LastModOptions == {"-1", "10", "60", "600", "3600", "14400", "43200", "86400", "172800", "604800",
                   "2419200", "6048000", "31536000"}
Mechs == {"", "DIGEST-MD5", "CRAM-MD5", "PLAIN", "LOGIN", "GSSAPI", "EXTERNAL", "OTP", "NTLM",
          "SCRAM-SHA-1", "SCRAM-SHA-256"}
ControlOptions == {"assertion", "manageDIT", "relax", "treedelete"}   \* AVAILABLE_BOOLEAN_CONTROLS

-----------------------------------------------------------------------------
(* The forms. *)

Common ==
  [f \in {"delsid"} |-> Text(12, 1, Words)]
  @@ [f \in {"who", "login_authzid", "login_realm"} |-> Text(1000, 1, Line)]
  @@ [f \in {"cred"} |-> Text(200, 1, Line)]
  @@ [f \in {"login_authzid_prefix"} |-> Choice(1, {"", "u:", "dn:"})]
  @@ [f \in {"login_mech"} |-> Choice(1, Mechs)]
  @@ [f \in {"ldapurl"} |-> Text(1024, 1, {"url"})]
  @@ [f \in {"host"} |-> Text(255, 1, {"host", "word", "dots", "num"})]
  @@ [f \in {"dn", "login_search_root"} |-> Dn(1)]
  @@ [f \in {"scope"} |-> Choice(1, ScopeOptions)]
  @@ [f \in {"conntype"} |-> Choice(1, {"0", "1", "2", "3"})]

SearchAttrs == [f \in {"search_attrs"} |-> Text(1000, 1, {"attrs", "word", "dots", "num", "signed"})]
Filter == [f \in {"filterstr"} |-> Text(1200, 1, Line)]

Searchform ==
  Common @@ SearchAttrs @@ Filter
  @@ [f \in {"search_submit"} |-> Button(6, {"Search"})]
  @@ [f \in {"searchform_mode"} |-> Choice(1, Modes)]
  @@ [f \in {"search_root"} |-> Dn(1)]
  @@ [f \in {"searchform_template"} |-> Text(60, max_searchparams, {"word", "dots", "num", "text"})]
  @@ [f \in {"search_resnumber"} |-> Choice(1, {"0", "10", "20", "50", "100", "200"})]
  @@ [f \in {"search_lastmod"} |-> Choice(1, LastModOptions)]
  @@ [f \in {"search_opattrs"} |-> Check]
  @@ [f \in {"search_mode"} |-> Choice(1, {"all", "any"})]
  @@ [f \in {"search_attr", "search_mr"} |-> Text(100, max_searchparams, Words)]
  @@ [f \in {"search_option"} |-> Choice(max_searchparams, SearchOptions)]
  @@ [f \in {"search_string"} |-> Text(600, max_searchparams, Line)]
  @@ [f \in {"search_output"} |-> Choice(1, Outputs)]

(* Input replaces the Select of the search form. *)
Search ==
  [f \in {"search_resminindex"} |-> Text(10, 1, {"num"})]
  @@ [f \in {"search_resnumber"} |-> Text(3, 1, {"num"})]
  @@ Searchform

Conninfo == Common @@ [f \in {"conninfo_flushcaches"} |-> Flag]

Params ==
  Common
  @@ [f \in {"params_all_controls"} |-> Flag]
  @@ [f \in {"params_enable_control", "params_disable_control"} |-> Text(50, 1, {"dots", "num"})]
  @@ [f \in {"ldap_deref"} |-> Choice(1, {"0", "1", "2", "3"})]

EntryInput ==
  Common
  @@ [f \in {"in_oc"} |-> Text(60, 40, {"word", "dots", "num"})]
  @@ [f \in {"in_ft"} |-> Choice(1, {"Template", "Table", "LDIF", "OC"})]
  @@ [f \in {"in_oft"} |-> Choice(1, {"Template", "Table", "LDIF"})]
  @@ [f \in {"in_mr"} |-> Button(8, {"Template", "Table", "LDIF"})]
  @@ [f \in {"in_at", "in_avi"} |-> AttributeTypes]
  @@ [f \in {"in_av"} |-> Text(600000, input_maxattrs, Kinds)]
  @@ [f \in {"in_ldif"} |-> Text(200000, 1, Kinds)]
  @@ [f \in {"in_ocf"} |-> Choice(1, {"tmpl", "exp"})]

Add ==
  EntryInput
  @@ [f \in {"add_rdn"} |-> Text(255, 1, Line)]
  @@ [f \in {"add_clonedn"} |-> Dn(1)]
  @@ [f \in {"add_template"} |-> Text(60, max_searchparams, Line)]
  @@ [f \in {"add_basedn"} |-> Text(1024, 1, Line)]

Modify ==
  EntryInput
  @@ [f \in {"in_oldattrtypes", "in_roattroids"} |-> AttributeTypes]
  @@ [f \in {"in_assertion"} |-> Text(2000, 1, Line)]

Dds ==
  Common
  @@ [f \in {"dds_renewttlnum"} |-> Text(12, 1, {"num"})]
  @@ [f \in {"dds_renewttlfac"} |-> Choice(1, {"1", "60", "3600", "86400"})]

Bulkmod ==
  Common @@ Filter
  @@ [f \in {"bulkmod_submit"} |-> Button(6, {"Next>>", "<<Back", "Apply", "Cancel"})]
  @@ [f \in {"bulkmod_ctrl"} |-> Choice(3, ControlOptions \ {"treedelete"})]
  @@ [f \in {"bulkmod_modrow"} |-> Button(8, {"Template", "Table", "LDIF"})]
  @@ [f \in {"bulkmod_at"} |-> AttributeTypes]
  @@ [f \in {"bulkmod_op"} |-> Choice(input_maxattrs, {"", "0", "1", "2", "3"})]
  @@ [f \in {"bulkmod_av"} |-> Text(600000, input_maxattrs, Kinds)]
  @@ [f \in {"bulkmod_newsuperior"} |-> Dn(1)]
  @@ [f \in {"bulkmod_cp"} |-> Check]

Delete ==
  Common @@ Filter
  @@ [f \in {"delete_confirm"} |-> Choice(1, {"yes", "no"})]
  @@ [f \in {"delete_ctrl"} |-> Choice(4, ControlOptions)]
  @@ [f \in {"delete_attr"} |-> Text(255, 100, Words)]

Rename ==
  Common
  @@ [f \in {"rename_newrdn"} |-> Text(255, 1, {"dn"})]
  @@ [f \in {"rename_newsuperior", "rename_searchroot"} |-> Dn(1)]
  @@ [f \in {"rename_delold"} |-> Check]
  @@ [f \in {"rename_newsupfilter"} |-> Text(300, 1, Line)]
  @@ [f \in {"rename_supsearchurl"} |-> Text(100, 1, Line)]

Passwd ==
  Common
  @@ [f \in {"passwd_action"} |-> Choice(1, {"passwdextop", "setuserpassword"})]
  @@ [f \in {"passwd_who"} |-> Dn(1)]
  @@ [f \in {"passwd_oldpasswd"} |-> Text(100, 1, Line)]
  @@ [f \in {"passwd_newpasswd"} |-> Text(100, 2, Line)]
  @@ [f \in {"passwd_scheme"} |-> Choice(1, {"", "ssha", "sha512"})]
  @@ [f \in {"passwd_ntpasswordsync", "passwd_settimesync", "passwd_forcechange"} |-> Check]
  @@ [f \in {"passwd_inform"} |-> Choice(1, {"display_url"})]

Read ==
  Common @@ Filter @@ SearchAttrs
  @@ [f \in {"read_nocache"} |-> Flag]
  @@ [f \in {"read_attr"} |-> Text(255, 100, Words)]
  @@ [f \in {"read_attrindex"} |-> Text(255, 1, {"num"})]
  @@ [f \in {"read_attrmimetype"} |-> Text(255, 1, {"mime"})]
  @@ [f \in {"read_output"} |-> Choice(1, {"table", "vcard", "template"})]
  @@ [f \in {"read_expandattr"} |-> Text(1000, 50, {"attrs", "word", "num"})]

Groupadm ==
  Common
  @@ [f \in {"groupadm_searchroot"} |-> Dn(1)]
  @@ [f \in {"groupadm_name"} |-> Text(100, 1, Line)]
  @@ [f \in {"groupadm_add", "groupadm_remove"} |-> Dn(300)]
  @@ [f \in {"groupadm_view"} |-> Choice(1, {"0", "1", "2"})]

Login == Common @@ [f \in {"login_who"} |-> Dn(1)]
Locate == Common @@ [f \in {"locate_name"} |-> Text(500, 1, Line)]
Oid ==
  Common
  @@ [f \in {"oid"} |-> Text(512, 1, {"word", "dots", "attrs", "num"})]
  @@ [f \in {"oid_class"} |-> Choice(1, {"objectClasses", "attributeTypes", "ldapSyntaxes", "matchingRules"})]

(* FORM_CLASS: requests to other commands are not read. *)
FormClass ==
  ("searchform" :> Searchform) @@ ("search" :> Search) @@ ("conninfo" :> Conninfo) @@ ("params" :> Params)
  @@ ("add" :> Add) @@ ("modify" :> Modify) @@ ("dds" :> Dds) @@ ("bulkmod" :> Bulkmod)
  @@ ("delete" :> Delete) @@ ("rename" :> Rename) @@ ("passwd" :> Passwd) @@ ("read" :> Read)
  @@ ("groupadm" :> Groupadm) @@ ("login" :> Login) @@ ("locate" :> Locate) @@ ("oid" :> Oid)
  @@ ("dit" :> Common)

-----------------------------------------------------------------------------
(* Form.get_input_fields() *)

max_content_length ==
  [to \in DOMAIN FormClass |-> MapThenSumSet(LAMBDA f : FormClass[to][f].n * FormClass[to][f].len, DOMAIN FormClass[to])]

(* set_value(); SearchAttrs takes spaces for commas.             *)
ValueError(field, value, count) ==
  IF value.len > field.len THEN "InvalidValueLen"
  ELSE IF value.len > 0 /\ value.kind \notin field.takes /\ value.is \notin field.options
  THEN "InvalidValueFormat"
  ELSE IF count >= field.n THEN "TooManyValues" ELSE ""

Typed(name, value) ==
  IF name = "search_attrs" /\ value.kind = "spaced" THEN [value EXCEPT !.kind = "attrs"] ELSE value

(* One parameter; input has the names received, with their values. *)
Take(fields, limit, got, param) ==
  IF got.error # "" THEN got
  ELSE IF param.name \notin DOMAIN fields THEN [got EXCEPT !.error = "InvalidFieldName"]
  ELSE LET value == Typed(param.name, param.value)
           before == IF param.name \in DOMAIN got.input THEN got.input[param.name] ELSE <<>>
           len == got.len + value.len
           error == IF len > limit THEN "ContentLengthExceeded"
                    ELSE ValueError(fields[param.name], value, Len(before))
       IN [error |-> error, len |-> len,
           input |-> IF error # "" THEN got.input ELSE (param.name :> Append(before, value)) @@ got.input]

get_input_fields(command, params) ==
  LET none == [error |-> "", len |-> 0, input |-> <<>>]
  IN IF command \notin DOMAIN FormClass THEN none
     ELSE FoldLeft(LAMBDA got, param : Take(FormClass[command], max_content_length[command], got, param),
                   none, params)

-----------------------------------------------------------------------------
(* What pages offer: links and forms. *)

Param(name, value) == [name |-> name, value |-> value]
Fixed(name, kind, s) == Param(name, Value(kind, <<s>>, Len(s)))
Word(name, s) == Fixed(name, "word", s)
Num(name, n) == Fixed(name, "num", ToString(n))
Str(name, tokens) == Param(name, Value("text", tokens, Length(tokens)))
DnParam(name, dn) == Param(name, Value("dn", dn, Length(dn)))

(* ldap0.ldapurl: u = [server, dn, scope, filter, attrs]. *)
UrlParam(u) ==
  Param("ldapurl", [Value("url", <<>>, Length(<<"ldap:///?", u.server>> \o u.dn \o u.filter) + 4) EXCEPT !.url = {u}])
HostUrl(server) == UrlParam([server |-> server, dn |-> <<>>, scope |-> "", filter |-> <<>>, attrs |-> <<>>])

(* anchor(), begin_form(); keep has the search that the link continues, again *)
(* the request that is to be made again.                                      *)
Offer(how, to, with) == [how |-> how, to |-> to, with |-> with, keep |-> {}, again |-> {}]
Link(to, with) == Offer("link", to, with)
Form(to, with) == Offer("form", to, with)

(* The name of an attribute: for want of another its OID. *)
Nameless == "1.2.840.113556"
Named(field, attr) == Fixed(field, IF attr = Nameless THEN "dots" ELSE "word", attr)

(* One row of the advanced search form. *)
Row(attr, option, string) ==
  <<Named("search_attr", attr), Fixed("search_option", "text", option), Str("search_string", string)>>
AnyEntry == Str("filterstr", <<"(objectClass=*)">>)
Within(scope) == Num("scope", scope)
=============================================================================
