----------------------------- MODULE Navigation -----------------------------
(***************************************************************************)
(* Requests, the pages that answer them, and the links and forms of the       *)
(* pages, which are the next requests: app/gui.py, the pages of the commands,   *)
(* login.py, referral.py, srvrr.py and the reading of a request in handler.py.   *)
(*                                                                         *)
(* One user of one session clicks; a command may answer with the login form,    *)
(* with a referral or with a list of other hosts.  What a command does to the    *)
(* directory is in its own module.                                             *)
(***************************************************************************)
EXTENDS ValueLinks

CONSTANTS
  Directories,    \* records of ValueLinks, of which d.dn is an entry
  TypedUrls,      \* LDAP URLs typed by the user: [to, url]; url.who with a password, or "none"
  MaxClicks,      \* bound: links followed and forms sent
  MaxTroubles     \* bound: login forms, referrals and host lists

NavigationAssumption == MaxClicks \in Nat /\ MaxTroubles \in Nat /\ Directories # {}

VARIABLES
  pc,       \* "Request", "Command", "Page" or "Refused"
  form,     \* the request: an offer and the typed URL, or {}
  dir,      \* the directory; dir.server is the server of the session or "", dir.who its user
  work,     \* the AppHandler after _get_ldapconn_params()
  report,   \* the page
  past      \* clicks and troubles so far, and what the last offer is to keep

vars == <<pc, form, dir, work, report, past>>

-----------------------------------------------------------------------------
(* The request. *)

NoApp == [to |-> "", dn |-> <<>>, scope |-> "", filter |-> <<>>, attrs |-> <<>>, input |-> <<>>, typed |-> FALSE]

(* get_input_value() *)
Has(w, name) == name \in DOMAIN w.input
Input(w, name, default) == IF Has(w, name) THEN w.input[name][1].is ELSE default
Full(tokens) == IF Length(tokens) = 0 THEN <<>> ELSE tokens
Text1(w, name, default) == LET is == Input(w, name, <<default>>) IN IF is = <<>> THEN "" ELSE is[1]

NoUrl == [server |-> "", dn |-> <<>>, scope |-> "", filter |-> <<>>, attrs |-> <<>>]
ScopeCommand(scope) == CASE scope = "" -> "searchform" [] scope = "0" -> "read" [] OTHER -> "search"

_get_ldapconn_params(input) ==
  LET w == [NoApp EXCEPT !.input = input]
      u == IF form.typed # {} THEN CHOOSE v \in form.typed : TRUE
           ELSE IF Has(w, "ldapurl") THEN CHOOSE v \in input["ldapurl"][1].url : TRUE
           ELSE [NoUrl EXCEPT !.server = Text1(w, "host", "")]
      scope == Text1(w, "scope", u.scope)
      to == IF form.to = "" THEN ScopeCommand(scope) ELSE form.to
  IN [server |-> u.server,
      app |-> [to |-> to, dn |-> Input(w, "dn", u.dn), scope |-> scope, attrs |-> u.attrs, input |-> input,
               filter |-> IF form.typed # {} /\ to \in {"search", "read"} /\ u.filter = <<>>
                          THEN <<"(objectClass=*)">> ELSE u.filter,
               typed |-> form.typed # {}]]

(* The user: a name and password of the request, or as before on the same       *)
(* server.  It is "" after an anonymous bind and None without a bind.            *)
LoginName(d, w, server) ==
  IF form.typed # {} /\ \A u \in form.typed : u.who # "none" THEN (CHOOSE u \in form.typed : TRUE).who
  ELSE IF Has(w, "who") THEN Text1(w, "who", "")
  ELSE IF server \in {"", d.server} THEN d.who ELSE "none"

Request(offer, typed) ==
  [how |-> offer.how, to |-> offer.to, with |-> offer.with, keep |-> offer.keep, again |-> offer.again, typed |-> typed]

-----------------------------------------------------------------------------
(* Fields and what becomes of their values. *)

(* s2d(), for a field of a form that is not seen: tabs are left out.  In the form   *)
(* to delete what a filter finds double spaces become other characters.          *)
s2d(tokens) == SelectSeq(tokens, LAMBDA token : token # Tab)
s2d_nbsp(tokens) == [i \in DOMAIN s2d(tokens) |-> IF s2d(tokens)[i] = Spaces THEN "nbsp" ELSE s2d(tokens)[i]]
HasTab(tokens) == \E i \in DOMAIN tokens : tokens[i] = Tab

(* hidden_field_html(); bytes become "". *)
Hidden(param) ==
  IF param.value.kind = "bytes" THEN Str(param.name, <<>>)
  ELSE [param EXCEPT !.value.is = s2d(@),
                     !.value.len = @ - (Len(param.value.is) - Len(s2d(param.value.is)))]
HiddenFields(params) == [i \in DOMAIN params |-> Hidden(params[i])]

-----------------------------------------------------------------------------
(* What a search, delete or bulkmod request selects. *)

TimeStamp == "20000101000000Z"
LastModified(w, filter) ==
  IF Text1(w, "search_lastmod", "-1") = "-1" THEN filter
  ELSE <<"(&(|(createTimestamp>=", TimeStamp, ")(modifyTimestamp>=", TimeStamp, "))">> \o filter \o <<")">>

RowFilter(attr, option, av) ==
  CASE option = "exists" -> <<"(">> \o attr \o <<"=*)">>
    [] option = "contains" -> <<"(">> \o attr \o <<"=*">> \o av \o <<"*)">>
    [] option = "begins" -> <<"(">> \o attr \o <<"=">> \o av \o <<"*)">>
    [] option = "atmost" -> <<"(">> \o attr \o <<"<=">> \o av \o <<")">>
    [] option = "subtree" -> <<"(">> \o attr \o <<":dnSubtreeMatch:=">> \o av \o <<")">>
    [] OTHER -> <<"(">> \o attr \o <<"=">> \o av \o <<")">>

Rows(w, name) == IF Has(w, name) THEN w.input[name] ELSE <<>>
RowsFit(w) ==
  /\ Len(Rows(w, "search_attr")) = Len(Rows(w, "search_option"))
  /\ Len(Rows(w, "search_attr")) = Len(Rows(w, "search_string"))

(* An item without a value is left out, unless it only asks for the attribute. *)
FilterItems(w) ==
  LET rows == [i \in 1..Len(Rows(w, "search_attr")) |->
                 LET option == Rows(w, "search_option")[i].is[1]
                     av == Rows(w, "search_string")[i]
                 IN IF av.len = 0 /\ option # "exists" THEN <<>>
                    ELSE RowFilter(Rows(w, "search_attr")[i].is, option, av.is)]
      items == <<Input(w, "filterstr", w.filter)>> \o rows
  IN SelectSeq(items, LAMBDA item : Length(item) > 0)
SearchFilter(w) ==
  LET items == FilterItems(w)
  IN IF Len(items) <= 1 THEN FlattenSeq(items)
     ELSE <<IF Text1(w, "search_mode", "all") = "any" THEN "(|" ELSE "(&">> \o FlattenSeq(items) \o <<")">>

SearchScope(w) == IF w.scope = "" THEN "2" ELSE w.scope
SearchRoot(w) == Input(w, "search_root", w.dn)
SearchAttrList(w) == Full(Input(w, "search_attrs", w.attrs))
GivenFilter(w) == Full(Input(w, "filterstr", w.filter))

Selected(server, w) ==
  IF w.to \in {"search", "searchform"}
  THEN [server |-> server, root |-> SearchRoot(w), scope |-> SearchScope(w),
        filter |-> LastModified(w, SearchFilter(w)), attrs |-> SearchAttrList(w)]
  ELSE [server |-> server, root |-> w.dn, scope |-> SearchScope(w),
        filter |-> GivenFilter(w), attrs |-> <<>>]

-----------------------------------------------------------------------------
(* Menus, app/gui.py. *)

Here(w) == <<DnParam("dn", w.dn)>>
ParentDn(dn) == IF dn = <<>> THEN dn ELSE Tail(dn)
Children(dn) ==
  Link("search", <<DnParam("dn", dn), Within(1), Word("searchform_mode", "adv")>> \o Row("objectClass", "exists", <<"">>))
Attribute(name, values) == Str("filterstr", <<"(&(objectClass=", name, ")">> \o values \o <<")">>)

simple_main_menu == {Link(to, <<>>) : to \in {"", "monitor", "locate"}}

(* The links about the audit log, the change log and the connections. *)
LogLinks(d, w) ==
  {Link("search", <<DnParam("dn", log), Attribute(class, <<"(reqDN=">> \o w.dn \o <<")">>), Within(1)>>) :
     class \in {"auditObject", "auditWriteObject", "changeLogEntry"}, log \in {d.audit} \ {<<>>}}
  \union {Link("search", <<DnParam("dn", d.monitor), Within(2),
            Attribute("monitorConnection", <<"(monitorConnectionAuthzDN=">> \o w.dn \o <<")">>)>>) :
            x \in {x \in {1} : d.monitor # <<>>}}

context_menu_single_entry(d, w) ==
  {Link("read", Here(w) \o <<Word("read_output", "table"), Fixed("read_expandattr", "attrs", "*")>>),
   Link("read", Here(w) \o <<Word("read_output", "vcard")>>), Link("dds", Here(w))}
  \union LogLinks(d, w)
  \union IF w.dn = <<>> THEN {} ELSE
     {Link(to, Here(w)) : to \in {"modify", "rename", "delete", "groupadm"}}
     \union {Link("login", <<HostUrl(d.server), DnParam("dn", w.dn), DnParam("login_who", w.dn)>>),
             Link("passwd", Here(w) \o <<DnParam("passwd_who", w.dn)>>),
             Link("add", <<DnParam("dn", ParentDn(w.dn)), DnParam("add_clonedn", w.dn), Word("in_ft", "Template")>>)}

main_menu(d, w) ==
  IF d.server = "" THEN {Link("", <<>>)}
  ELSE {Link(to, Here(w)) : to \in {"searchform", "dit", "add", "conninfo", "params", "login", "oid"}}
       \union {Children(w.dn), Link("read", Here(w) \o <<Num("read_nocache", 1)>>), Link("disconnect", <<>>)}
       \union IF w.dn \in {<<>>, d.context} THEN {} ELSE {Children(ParentDn(w.dn))}

dit_navigation(w) == {Link("read", <<DnParam("dn", SubSeq(w.dn, i, Len(w.dn)))>>) : i \in 1..(Len(w.dn) + 1)}

-----------------------------------------------------------------------------
(* The search form and the search results. *)

Attrs(tokens) == Param("search_attrs", Value("attrs", tokens, Length(tokens)))
Carry(w) == <<DnParam("dn", w.dn), DnParam("search_root", SearchRoot(w)), Str("filterstr", SearchFilter(w)),
              Fixed("scope", "num", SearchScope(w)), Attrs(SearchAttrList(w)),
              Fixed("search_lastmod", "signed", Text1(w, "search_lastmod", "-1"))>>
Keep(offer, selection) == [offer EXCEPT !.keep = {selection}]
KeepAll(d, w, offer) == Keep(offer, Selected(d.server, w))

Index(w) == LET s == Text1(w, "search_resminindex", "0") IN CHOOSE n \in 0..999 : ToString(n) = s
Number(w) == LET s == Text1(w, "search_resnumber", "10") IN CHOOSE n \in 0..999 : ToString(n) = s
Shown(i, n) == <<Num("search_resminindex", i), Num("search_resnumber", n)>>

page_appl_anchor(d, w, i, n) ==
  KeepAll(d, w, Link("search", Carry(w) \o Shown(i, n) \o <<Word("search_output", Text1(w, "search_output", "table"))>>))
PagingLinks(d, w) ==
  LET i == Index(w)  n == Number(w)
  IN {page_appl_anchor(d, w, p[1], p[2]) : p \in {<<0, n>>, <<IF i > n THEN i - n ELSE 0, n>>, <<0, 0>>, <<i + n, n>>}}

Edited_Index(w) == Carry(w) \o <<Word("searchform_mode", "exp"), Num("search_resminindex", Index(w))>>
Edited(w) == Carry(w) \o <<Word("searchform_mode", "exp")>>
EditFilter(d, w) == KeepAll(d, w, Link("searchform", Edited(w)))

negate_filter(filter) ==
  IF filter[1] = "(!" THEN SubSeq(filter, 2, Len(filter) - 1) ELSE <<"(!">> \o filter \o <<")">>
Negate(d, w) ==
  LET negated == [w EXCEPT !.input = ("filterstr" :> <<Value("text", negate_filter(SearchFilter(w)), 0)>>)
                                       @@ [f \in DOMAIN w.input \ {"search_attr", "search_option", "search_string"} |-> w.input[f]]]
  IN KeepAll(d, negated, Link("search", Carry(negated) \o Shown(Index(w), Number(w)) \o <<Word("search_output", "table")>>))

(* list_fields(): the parameters of the request. *)
ListFields(w, ignored) ==
  FoldSet(LAMBDA f, params : params \o [j \in 1..Len(w.input[f]) |-> Param(f, w.input[f][j])],
          <<>>, DOMAIN w.input \ ignored)
ModifySearch(w) ==
  {Link("searchform", Here(w) \o <<Word("searchform_mode", "adv")>> \o ListFields(w, {"dn", "searchform_mode"})) :
     x \in {x \in {1} : Text1(w, "searchform_mode", "exp") \in {"base", "adv"}}}

SelectionFilter_NoTime(w) == SearchFilter(w)
SelectionFilter(w) == LastModified(w, SearchFilter(w))
SelectionLink(d, w, to) ==
  Keep(Link(to, <<DnParam("dn", SearchRoot(w)), Str("filterstr", SelectionFilter(w)), Fixed("scope", "num", SearchScope(w))>>),
       [Selected(d.server, w) EXCEPT !.attrs = <<>>])

Export(d, w) == KeepAll(d, w, Form("search", HiddenFields(Carry(w)) \o <<Num("search_resnumber", 0), Word("search_output", "csv"),
                                                         Word("search_opattrs", "yes")>>))

(* A reference on the other server. *)
Continuations(d, w) ==
  LET u == [server |-> d.other, dn |-> d.context, scope |-> SearchScope(w), filter |-> SearchFilter(w), attrs |-> <<>>]
  IN IF SearchScope(w) = "2" THEN {Link("search", <<UrlParam(u)>>)}
     ELSE {Link("read", <<UrlParam([u EXCEPT !.scope = "0"])>>), Link("search", <<UrlParam([u EXCEPT !.scope = "1"])>>)}

ResultLinks(d, w) ==
  {EditFilter(d, w), Negate(d, w)} \union ModifySearch(w)
EntryLinks(d, w) ==
  PagingLinks(d, w) \union {SelectionLink(d, w, to) : to \in {"delete", "bulkmod"}}
  \union {KeepAll(d, w, Link("search", Carry(w) \o Shown(Index(w), Number(w)) \o <<Word("search_output", "raw")>>)),
          Link("read", <<DnParam("dn", d.dn)>>), Children(d.dn), Export(d, w)}
  \union Continuations(d, w)

(* The links to the other modes carry no scope and filter: those of the       *)
(* function's parameters, not of the request.                                 *)
SearchformLinks(d, w) ==
  LET mode == Text1(w, "searchform_mode", "base")
      start == DnParam("search_root", Input(w, "search_root", d.context))
      since == Text1(w, "search_lastmod", "-1")
      options(t) == <<start, Fixed("scope", "num", SearchScope(w)), Fixed("search_lastmod", "signed", t), Num("search_resnumber", 10),
                   Attrs(Input(w, "search_attrs", <<>>)), Word("searchform_mode", mode),
                   Fixed("searchform_template", "text", "_"), Word("search_output", "table")>>
      rows == Row("cn", "contains", <<"">>) \o Row("uid", "is", <<"x">>)
      send(t, params, submit) == Form("search", Here(w) \o options(t) \o params \o <<submit>>)
      search == Word("search_submit", "Search")
  IN {Link("searchform", Here(w) \o <<Word("searchform_mode", other), start, Str("filterstr", <<"">>), Within(2)>>) :
        other \in Modes \ {mode}}
     \union IF mode = "exp"
            THEN {IF Has(w, "search_root") /\ Has(w, "filterstr")
                  THEN KeepAll(d, w, send(since, <<Str("filterstr", Input(w, "filterstr", <<"">>))>>, search))
                  ELSE send(since, <<AnyEntry>>, search)}
            ELSE {send("600", rows \o <<Word("search_mode", "any")>>, search)}
                 \union {send(since, more, Fixed("search_submit", "signed", "+1")) :
                           more \in {more \in {rows, Row(Nameless, "is", <<"x">>)} : mode = "adv"}}

-----------------------------------------------------------------------------
(* Forms and links of the other pages. *)

ReadLinks(d, w) ==
  {KeepAll(d, w, Link("read", <<Named("read_expandattr", at)>> \o ListFields(w, {}))) :
     at \in {at \in {"member", Nameless} : ~w.typed}}
  \union {Link("delete", Here(w) \o <<Named("delete_attr", at)>>) : at \in {"jpegPhoto", Nameless}}
  \union {Link("read", Here(w) \o <<Named("read_attr", at), Num("read_attrindex", 0),
                                    Fixed("read_attrmimetype", "mime", "application/octet-stream")>>) :
            at \in {"jpegPhoto", Nameless}}
  \union {Form("search", Here(w) \o <<Within(0), AnyEntry, Num("search_resnumber", 0), Attrs(SearchAttrList(w)),
                                      Word("search_output", "ldif1")>>),
          Form("read", <<Num("read_nocache", 1)>> \o Here(w) \o <<Word("read_output", "template"), Attrs(<<"*,", "+">>)>>)}

(* An entry below dn, or the result of a search with a filter. *)
DeleteForm(d, w) ==
  IF Has(w, "filterstr")
  THEN {KeepAll(d, w, Form("delete", Here(w) \o <<Str("filterstr", s2d_nbsp(Input(w, "filterstr", <<>>))), Word("delete_confirm", "yes"),
                                                Fixed("scope", "num", SearchScope(w))>>))}
  ELSE {Form("delete", Here(w) \o <<Within(scope), Word("delete_ctrl", "treedelete"), Word("delete_confirm", answer)>>) :
          scope \in {0, 2}, answer \in {"yes", "no"}}

BulkmodForm(d, w) ==
  {KeepAll(d, w, Form("bulkmod", Here(w) \o <<Hidden(Str("filterstr", Input(w, "filterstr", w.filter))), Fixed("scope", "num", SearchScope(w)),
     Word("bulkmod_at", "description"), Word("bulkmod_op", "0"), Str("bulkmod_av", <<"v">>), DnParam("bulkmod_newsuperior", <<>>),
     Fixed("bulkmod_submit", "text", submit)>>)) : submit \in {"Next>>", "Apply"}}

EntryFields(w, kind) ==
  Here(w) \o <<Word("in_oft", "Template"), Word("in_ft", "Table"), Word("in_oc", "person"),
              Word("in_at", "cn"), Num("in_avi", 1), Param("in_av", Value(kind, <<"v", Tab>>, 2))>>
AddForm(w) ==
  {Form("add", EntryFields(w, kind) \o <<DnParam("add_basedn", w.dn), Str("add_rdn", <<"cn=v">>), Word("in_ocf", "exp")>>) :
     kind \in {"lines", "bytes"}}
  \union {Link("add", Here(w) \o <<Word("in_ocf", mode)>>) : mode \in {"tmpl", "exp"}}
  \union {Link("add", Here(w) \o <<Str("add_template", <<"person">>), Word("in_ft", "Template")>>)}
ModifyForm(w) ==
  {Form("modify", EntryFields(w, kind) \o <<Str("in_assertion", <<"(entryCSN=x)">>), Word("in_oldattrtypes", "cn"),
                                           Fixed("in_roattroids", "dots", "2.5.4.0")>>) : kind \in {"lines", "bytes"}}

RenameForm(d, w) ==
  {Form("rename", Here(w) \o <<Param("rename_newrdn", Value("dn", <<"cn=f">>, 4)), DnParam("rename_newsuperior", ParentDn(w.dn)),
     DnParam("rename_searchroot", d.context), Word("rename_delold", "yes"), Within(1),
     Str("rename_newsupfilter", <<"(objectClass=*)">>), Str("rename_supsearchurl", <<"">>)>>)}

LockAttrs == {"pwdAccountLockedTime", "pwdFailureTime"}
PasswdForm(w) ==
  {Link("passwd", Here(w) \o <<Word("passwd_action", action), DnParam("passwd_who", w.dn)>>) :
     action \in {"passwdextop", "setuserpassword"}}
  \union {Link("delete", Here(w) \o <<Word("delete_ctrl", "relax")>> \o SetToSeq({Word("delete_attr", a) : a \in LockAttrs})),
          Form("passwd", Here(w) \o <<Word("passwd_action", "passwdextop"), DnParam("passwd_who", w.dn),
            Str("passwd_oldpasswd", <<"o">>), Str("passwd_newpasswd", <<"n">>), Str("passwd_newpasswd", <<"n">>),
            Word("passwd_forcechange", "yes"), Word("passwd_inform", "display_url")>>)}

GroupForm(d, w) ==
  {Form("groupadm", Here(w) \o <<DnParam("groupadm_searchroot", d.context)>> \o params) :
     params \in {<<DnParam("groupadm_add", d.dn), DnParam("groupadm_remove", d.context)>>,
                 <<Str("groupadm_name", <<"g">>), Num("groupadm_view", 1)>>}}
  \union {Link("read", <<DnParam("dn", d.dn)>>)}

DdsForm(d, w) ==
  {Form("dds", Here(w) \o <<Num("dds_renewttlnum", 1), Fixed("dds_renewttlfac", "num", "3600")>>)}
  \union context_menu_single_entry(d, w)

(* The link to one's own connections has the scope twice. *)
ConninfoLinks(d, w) ==
  {Link("conninfo", Here(w) \o <<Num("conninfo_flushcaches", 1)>>)}
  \union {Link("read", <<DnParam("dn", log)>>) : log \in {d.audit, d.monitor, d.config} \ {<<>>}}
  \union {Link("search", <<DnParam("dn", d.audit), Within(1),
                          Attribute(log[1], <<"(", log[2], "=">> \o d.dn \o <<")">>)>>) :
            log \in {log \in {<<"auditObject", "reqAuthzID">>, <<"auditWriteObject", "reqAuthzID">>, <<"auditBind", "reqDN">>} :
                      d.audit # <<>>}}
  \union {Link("read", <<DnParam("dn", d.dn)>>), Link("passwd", <<DnParam("dn", d.dn), DnParam("passwd_who", d.dn)>>)}
  \union {Link("search", <<DnParam("dn", d.monitor), Within(2), Within(2),
                          Attribute("monitorConnection", <<"(monitorConnectionAuthzDN=">> \o d.dn \o <<")">>)>>) :
            x \in {x \in {1} : d.monitor # <<>>}}

ParamsLinks(w) ==
  {Link("params", Here(w) \o <<Fixed("params_" \o turn \o "_control", "dots", "2.16.840.1.113730.3.4.2")>>) :
     turn \in {"enable", "disable"}}
  \union {Link("params", Here(w) \o <<Num("params_all_controls", 1)>>), Form("read", Here(w)),
          Form("params", <<Num("ldap_deref", 3)>>)}

DitLinks(d, w) == {Link(to, <<DnParam("dn", dn)>>) : to \in {"dit", "read"}, dn \in {d.context, d.dn, ParentDn(w.dn)}}

SchemaLinks(w) ==
  {schema_anchor(w.dn, "2.5.4.0", "attributeTypes"), Link("oid", Here(w) \o <<Word("oid_class", "objectClasses")>>),
   Link("read", <<DnParam("dn", <<"cn=Subschema">>), Str("filterstr", <<"(objectClass=subschema)">>)>>
                \o SetToSeq({Word("read_attr", a) : a \in {"attributeTypes", "objectClasses", "cn"}})),
   Link("searchform", Advanced(w.dn, Row("objectClass", "is", <<"person">>))),
   Link("searchform", Advanced(w.dn, Row("cn", "exists", <<"">>))),
   Link("searchform", Advanced(w.dn, Row(Nameless, "exists", <<"">>))),
   Form("oid", Here(w) \o <<Word("oid", "cn"), Word("oid_class", "attributeTypes")>>)}

CommandForm(d, w) ==
  CASE w.to = "delete" -> DeleteForm(d, w)
    [] w.to = "bulkmod" -> BulkmodForm(d, w)
    [] w.to = "add" -> AddForm(w)
    [] w.to = "modify" -> ModifyForm(w)
    [] w.to = "rename" -> RenameForm(d, w)
    [] w.to = "passwd" -> PasswdForm(w)
    [] w.to = "groupadm" -> GroupForm(d, w)
    [] w.to = "dds" -> DdsForm(d, w)
    [] w.to = "conninfo" -> ConninfoLinks(d, w)
    [] w.to = "params" -> ParamsLinks(w)
    [] w.to = "dit" -> DitLinks(d, w)
    [] w.to = "oid" -> SchemaLinks(w)
    [] OTHER -> {}

-----------------------------------------------------------------------------
(* Requests made again: the login form, the referral and the list of hosts.   *)

LoginFields == {"who", "login_mech", "login_authzid", "login_authzid_prefix", "login_realm", "login_search_root"}
NotAgain == LoginFields \union {"sid", "delsid", "ldapurl", "conntype", "host", "dn", "scope", "filterstr", "search_attrs", "cred"}
Asked(server, w) ==
  [to |-> w.to, server |-> server, dn |-> w.dn, scope |-> w.scope, filter |-> GivenFilter(w),
   attrs |-> SearchAttrList(w), rest |-> [f \in DOMAIN w.input \ NotAgain |-> w.input[f]]]

If(condition, params) == IF condition THEN params ELSE <<>>
Password == Str("cred", <<"c">>)
LoginInput == <<Str("who", <<"u">>), Password, Word("login_mech", ""), Word("login_authzid_prefix", ""),
                Str("login_authzid", <<"">>), Str("login_realm", <<"">>), DnParam("login_search_root", <<>>)>>
Again(page, asked) == [page |-> page, asked |-> asked]
Uploads(w) == \E f \in DOMAIN w.input : \E i \in DOMAIN w.input[f] : w.input[f][i].kind = "bytes"

LoginHidden_NoScope(w) ==
  LET filter == GivenFilter(w)
  IN If(Length(filter) > 0, <<Str("filterstr", filter)>>)
     \o If("search_attrs" \in DOMAIN FormClass[w.to] /\ Length(SearchAttrList(w)) > 0, <<Attrs(SearchAttrList(w))>>)
LoginHidden(w) ==
  LET filter == GivenFilter(w)
  IN If(w.scope # "", <<Fixed("scope", "num", w.scope)>>)
     \o If(Length(filter) > 0, <<Str("filterstr", filter)>>)
     \o If("search_attrs" \in DOMAIN FormClass[w.to] /\ Length(SearchAttrList(w)) > 0, <<Attrs(SearchAttrList(w))>>)
hidden_input_html(w, ignored) == HiddenFields(ListFields(w, ignored))
LoginForm(d, w, relogin) ==
  [Form(IF w.to = "login" THEN "searchform" ELSE w.to,
     <<HostUrl(d.server), DnParam("dn", w.dn), Word("delsid", "sid"), Num("conntype", 0)>>
     \o LoginInput \o HiddenFields(LoginHidden(w)) \o If(relogin, hidden_input_html(w, NotAgain)))
   EXCEPT !.again = IF relogin /\ w.to # "login" THEN {Again("relogin", Asked(d.server, w))} ELSE {}]

(* The same request at d.other.  A typed URL is not repeated.  An ldapurl of   *)
(* the request leads back when repeated, as the referral form does, and its      *)
(* scope and filter are lost when not.  The fields are those of hidden_fields(),   *)
(* which leaves tabs as they are and cannot write bytes.                         *)
Elsewhere(d, w, page, dn, login, ignored) ==
  [Form(w.to, <<Fixed("host", "host", d.other), DnParam("dn", dn)>> \o login \o ListFields(w, ignored))
   EXCEPT !.again = IF w.typed \/ Has(w, "ldapurl") THEN {}
                    ELSE {Again(page, Asked(d.other, [w EXCEPT !.dn = dn]))}]
ReferralForm(d, w) ==
  Elsewhere(d, w, "referral", d.context, LoginInput, {"sid", "host", "dn", "who", "cred", "login_search_root"})
HostForm(d, w) ==
  Elsewhere(d, w, "hosts", w.dn, <<Str("who", <<"">>), Str("cred", <<"">>)>>, {"ldapurl", "host", "dn", "who", "cred"})

(* A page ends in an error while it is written: the bytes of an upload, and None  *)
(* for the name of the user, cannot be escaped.                                  *)
PageFails(d, w, page) ==
  \/ page \in {"referral", "hosts"} /\ Uploads(w)
  \/ page = "referral" /\ d.who = "none"

-----------------------------------------------------------------------------
(* Actions. *)

ConnectForms(d) ==
  {Form("searchform", <<HostUrl(server)>>) : server \in {d.home, d.other}}
  \union {Form("searchform", <<Num("conntype", 0), Fixed("host", "host", d.home), DnParam("dn", d.context)>>)}

Offers(d, w, page) ==
  CASE page = "connect" -> simple_main_menu \union ConnectForms(d)
    [] page = "error" -> {Link("", <<>>)}
    [] page = "locate" -> {Form("locate", <<Str("locate_name", <<"example.com">>)>>)}
                          \union simple_main_menu \union LDAPUrl(d.context)
    [] page = "searchform" -> main_menu(d, w) \union SearchformLinks(d, w)
    [] page = "empty" -> main_menu(d, w) \union ResultLinks(d, w)
    [] page = "results" -> main_menu(d, w) \union ResultLinks(d, w) \union EntryLinks(d, w)
    [] page = "entry" -> main_menu(d, w) \union context_menu_single_entry(d, w) \union dit_navigation(w)
                         \union Values(d, w.dn) \union ReadLinks(d, w)
    [] page = "form" -> main_menu(d, w) \union CommandForm(d, w)
    [] page = "done" -> main_menu(d, w) \union context_menu_single_entry(d, w)
    [] page = "login" -> {LoginForm(d, w, FALSE)}
    [] page = "relogin" -> main_menu(d, w) \union {LoginForm(d, w, TRUE)}
    [] page = "referral" -> main_menu(d, w) \union {ReferralForm(d, w)}
    [] page = "hosts" -> main_menu(d, w) \union {HostForm(d, w)}
    [] OTHER -> {}     \* a file, the page after Disconnect, or a part of a page

(* The pages a command that succeeds may show. *)
Finishing == {"delete_confirm", "rename_newrdn", "passwd_newpasswd", "in_av", "dds_renewttlnum", "bulkmod_submit"}
Pages(w) ==
  CASE w.to = "searchform" -> {"searchform"}
    [] w.to = "search" ->
         IF Text1(w, "search_submit", "Search") # "Search" THEN {"searchform"}
         ELSE IF ~RowsFit(w) THEN {"error"}
         ELSE IF SearchFilter(w) = <<>> THEN {"searchform"}
         ELSE IF Text1(w, "search_output", "table") \in {"table", "raw"} THEN {"results", "empty"} ELSE {"file"}
    [] w.to = "read" -> IF Has(w, "read_attrindex") \/ Text1(w, "read_output", "") = "vcard" THEN {"file"} ELSE {"entry"}
    [] w.to = "login" -> {"login"}
    [] OTHER -> IF Finishing \intersect DOMAIN w.input # {} THEN {"done"} ELSE {"form"}

Init ==
  /\ \E d \in Directories : dir = [d EXCEPT !.server = "", !.who = "none"]
  /\ pc = "Request"
  /\ form \in {Request(Link(to, <<>>), {}) : to \in {"", "locate"}}
              \union {Request(Link(t.to, <<>>), {t.url}) : t \in TypedUrls}
  /\ work = NoApp
  /\ report = "" /\ past = [clicks |-> 0, troubles |-> 0]

(* run() up to dispatch().  A request without a session and without a server  *)
(* gets the page to connect.                                                  *)
ReadForm ==
  /\ pc = "Request"
  /\ LET got == get_input_fields(form.to, IF form.typed = {} THEN form.with ELSE <<>>)
         parsed == _get_ldapconn_params(got.input)
         server == IF parsed.server = "" THEN dir.server ELSE parsed.server
     IN CASE got.error # "" -> pc' = "Refused" /\ report' = "error" /\ UNCHANGED <<work, dir>>
          [] got.error = "" /\ form.to \in {"monitor", "locate", "disconnect"} \union (IF form.typed = {} THEN {""} ELSE {}) ->
               /\ pc' = "Page" /\ UNCHANGED work
               /\ report' = IF form.to \in {"monitor", "locate"} THEN form.to ELSE IF form.to = "" THEN "connect" ELSE "file"
               /\ dir' = IF form.to = "disconnect" THEN [dir EXCEPT !.server = "", !.who = "none"] ELSE dir
          [] got.error = "" /\ form.to \notin {"monitor", "locate", "disconnect"} /\ (form.to # "" \/ form.typed # {}) ->
               IF server = "" THEN pc' = "Page" /\ report' = "connect" /\ UNCHANGED <<work, dir>>
               ELSE /\ pc' = "Command" /\ work' = parsed.app
                    /\ dir' = [dir EXCEPT !.server = server, !.who = LoginName(dir, parsed.app, parsed.server)]
                    /\ UNCHANGED report
  /\ UNCHANGED <<form, past>>

Answer ==
  /\ pc = "Command" /\ pc' = "Page"
  /\ report' \in Pages(work)
  /\ UNCHANGED <<form, dir, work, past>>

(* The exceptions of dispatch() that end in a form for the same request: no   *)
(* access or a failed bind, a referral, or an entry that DNS says is on another   *)
(* host.  The login command only shows its form.                              *)
Trouble ==
  /\ pc = "Command" /\ work.to # "login" /\ past.troubles < MaxTroubles
  /\ pc' = "Page"
  /\ \E page \in {"relogin", "referral", "hosts"} : report' = IF PageFails(dir, work, page) THEN "failed" ELSE page
  /\ past' = [past EXCEPT !.troubles = @ + 1]
  /\ UNCHANGED <<form, dir, work>>

Click ==
  /\ pc \in {"Page", "Refused"} /\ past.clicks < MaxClicks
  /\ pc' = "Request"
  /\ \E offer \in Offers(dir, work, report) : form' = Request(offer, {})
  /\ past' = [past EXCEPT !.clicks = @ + 1]
  /\ UNCHANGED <<dir, work, report>>

Next == ReadForm \/ Answer \/ Trouble \/ Click
Spec == Init /\ [][Next]_vars

-----------------------------------------------------------------------------
(* Properties. *)

TypeOK ==
  /\ pc \in {"Request", "Command", "Page", "Refused"}
  /\ form.to \in DOMAIN FormClass \union {"", "monitor", "locate", "disconnect"}
  /\ work.to \in DOMAIN FormClass \union {""}
  /\ past.clicks \in 0..MaxClicks /\ past.troubles \in 0..MaxTroubles

Sent(name) == Cardinality({i \in DOMAIN form.with : form.with[i].name = name})

(* Every link and form of a page is accepted by the form class of its         *)
(* command, unless a filter has grown too long for its field.  The other          *)
(* exceptions are what the code gets wrong: the fields for the name of an attribute *)
(* take no OID, a referral after a login sends login_mech twice, the page about the  *)
(* connection has a link with the scope twice, and the login form sends the filter  *)
(* of a typed URL to a command without a field for it.                             *)
OfferedIsAccepted ==
  /\ pc = "Refused" =>
       \/ \E i \in DOMAIN form.with : form.with[i].name \in {"filterstr", "ldapurl"} /\ form.with[i].value.len > 1024
       \/ \E i \in DOMAIN form.with : form.with[i].name \in {"read_attr", "read_expandattr", "delete_attr", "search_attr"}
                                      /\ form.with[i].value.kind = "dots"
       \/ Sent("login_mech") > 1
       \/ work.to = "conninfo" /\ Sent("scope") > 1
       \/ work.typed /\ work.filter # <<>> /\ "filterstr" \notin DOMAIN FormClass[form.to]
  /\ pc = "Page" => report # "error"

(* A link of the result page that goes on with the search (another page,       *)
(* other output, its negation, the export, Delete, Bulk modify) selects in the   *)
(* next request the entries the page is about.  The forms lose the tabs of a      *)
(* filter, and the one that deletes its double spaces.                          *)
LinksKeepSearch ==
  (pc = "Command" /\ form.keep # {}) =>
    \E kept \in form.keep :
      LET now == Selected(dir.server, work) IN
      \/ now = kept
      \/ /\ form.how = "form" /\ [now EXCEPT !.filter = kept.filter] = kept
         /\ HasTab(kept.filter) \/ (form.to = "delete" /\ \E i \in DOMAIN kept.filter : kept.filter[i] = Spaces)

(* The login form, the referral form and the list of hosts make the request   *)
(* again as it was: same command, entry, scope, filter, attributes and input.    *)
(* The login form loses tabs and uploads; the other two are not shown for a        *)
(* request with uploads, nor the referral in a session without a bind.                  *)
LoginKeepsRequest ==
  /\ (pc = "Command" /\ form.again # {}) =>
       \E again \in form.again :
         LET asked == again.asked
             now == Asked(dir.server, work)
             altered(value) == value.kind = "bytes" \/ HasTab(value.is)
         IN \/ now = asked
            \/ /\ again.page = "relogin" /\ [now EXCEPT !.filter = asked.filter, !.rest = asked.rest] = asked
               /\ now.filter = asked.filter \/ HasTab(asked.filter)
               /\ DOMAIN now.rest = DOMAIN asked.rest
               /\ \A f \in DOMAIN asked.rest :
                    /\ DOMAIN now.rest[f] = DOMAIN asked.rest[f]
                    /\ \A i \in DOMAIN asked.rest[f] :
                         altered(asked.rest[f][i]) \/ now.rest[f][i] = asked.rest[f][i]
  /\ (pc = "Page" /\ report = "failed") => Uploads(work) \/ dir.who = "none"
=============================================================================
