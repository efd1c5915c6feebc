----------------------------- MODULE ValueLinks ----------------------------
(***************************************************************************)
(* The links that attribute values offer where an entry is shown: display()   *)
(* and _additional_links() of the syntax classes in schema/syntaxes.py and      *)
(* app/plugins.                                                               *)
(*                                                                         *)
(* d is the directory, dn the entry and av the value, a sequence of tokens.    *)
(* Left out: texts and titles, and how a value is taken apart.                  *)
(***************************************************************************)
EXTENDS WebForms

Advanced(dn, rows) == <<DnParam("dn", dn), Word("searchform_mode", "adv")>> \o rows
MatchAny(params) == params \o <<Word("search_mode", "any")>>
From(d) == <<DnParam("search_root", d.context)>>
SearchFor(d, rows) == Link("search", Advanced(d.context, rows))

-----------------------------------------------------------------------------
(* schema/syntaxes.py *)

Binary(dn, at) ==
  {Link("read", <<DnParam("dn", dn), Named("read_attr", at), Num("read_attrindex", i)>>) : i \in 0..1}

(* ref_attrs: refs has pairs of an attribute and an object class or "". *)
Backlinks(d, dn, av, refs) ==
  {Link("search", Advanced(dn,
      From(d) \o Row("objectClass", IF r[2] = "" THEN "exists" ELSE "is", <<r[2]>>) \o Row(r[1], "is", av))) :
     r \in refs}
DistinguishedName(dn, av) == {Link("read", <<DnParam("dn", av)>>)}
Subordinates(av) == {Link("search", <<DnParam("dn", av), Within(1), AnyEntry>>)}
BindDN(d, dn, av) == {Link("login", <<HostUrl(d.server), DnParam("dn", dn), DnParam("login_who", av)>>)}

ldap_url_anchor(u) ==
  LET to == IF u.scope = "0" THEN "read" ELSE "search"
      scope == IF u.scope \in {"", "0"} THEN "2" ELSE u.scope
  IN IF u.server # "" THEN Link(to, <<UrlParam(u)>>)
     ELSE Link(to, <<DnParam("dn", u.dn), IF u.filter = <<>> THEN AnyEntry ELSE Str("filterstr", u.filter),
                     Fixed("scope", "num", scope)>>)
LDAPUrl(av) ==
  {ldap_url_anchor([server |-> server, dn |-> av, scope |-> scope, filter |-> <<>>, attrs |-> <<>>]) :
     server \in {"", "s2"}, scope \in {"", "0", "1"}}
DynamicValueSelectList(av) == {Link("read", <<DnParam("dn", av)>>)}

(* schema/__init__.py: a name of an attribute, a class, ... in a page. *)
schema_anchor(dn, oid, class) ==
  Link("oid", <<DnParam("dn", dn), Fixed("oid", "dots", oid), Fixed("oid_class", "word", class)>>)

-----------------------------------------------------------------------------
(* app/plugins *)

OtherSID(dn, av) == Link("searchform", Advanced(dn, Row("objectSid", "is", av)))
UUIDReference(dn, av) == Link("searchform", Advanced(dn, Row("apple-generateduid", "is", av)))
DynamicSubtrees(av) ==
  Link("search", <<DnParam("dn", av), DnParam("search_root", av),
                   Str("filterstr", <<"(objectClass=dynamicObject)">>), Word("searchform_mode", "exp")>>)

DHCPConfigStatement(d, av) ==
  {SearchFor(d, MatchAny(Row("dc", "is", av) \o Row("pTRRecord", "begins", av \o <<".">>)
                    \o Row("associatedDomain", "begins", av \o <<".">>)))}
  \union {SearchFor(d, MatchAny(Row("aRecord", "is", av) \o Row("aAAARecord", "is", av) \o reverse)) :
            reverse \in {<<>>, Row("associatedDomain", "is", av \o <<".in-addr.arpa">>)}}

IpHost(d, ip) == SearchFor(d, Row("ipHostNumber", "is", ip))
DhcpHost(d, ip) == SearchFor(d, Row("dhcpStatements", "is", <<"fixed-address ">> \o ip))
ReverseRR(d, ip) == SearchFor(d, Row("associatedDomain", "is", ip \o <<".in-addr.arpa">>))
ARecord(d, ip) == {ReverseRR(d, ip), IpHost(d, ip), DhcpHost(d, ip)}
AAAARecord(d, ip) == {ReverseRR(d, ip)}
AssociatedDomain(d, av) ==
  {SearchFor(d, MatchAny(Row("cNAMERecord", "is", av) \o Row("nSRecord", "is", av) \o Row("pTRRecord", "is", av))),
   SearchFor(d, Row("sOARecord", "exists", <<"">>) \o Row("associatedDomain", "is", av)),
   SearchFor(d, Row("aRecord", "is", av)), IpHost(d, av), DhcpHost(d, av)}

OctetStringGUID(dn, av) ==
  Link("searchform", <<DnParam("dn", dn), Str("filterstr", av), Word("searchform_mode", "exp")>>)
GidNumber(dn, av) ==
  Link("searchform", Advanced(dn, Row("objectClass", "is", <<"posixAccount">>) \o Row("gidNumber", "is", av)))
MemberUID(dn, av) ==
  Link("searchform", <<DnParam("dn", dn), Str("filterstr", <<"(&(objectClass=posixAccount)(uid=">> \o av \o <<"))">>),
                       Word("searchform_mode", "exp")>>)
PwdMaxAge(dn, time) ==
  Link("searchform", Advanced(dn, Row("pwdPolicySubentry", "is", dn) \o Row("pwdChangedTime", "atmost", time)))
PkcX509Issuer(d, av) ==
  Link("search", <<DnParam("dn", d.context),
                   Str("filterstr", <<"(&(objectClass=x509caCertificate)(x509subject=">> \o av \o <<"))">>)>>)

AuditContext(av) ==
  {Link("searchform", <<DnParam("dn", av), Within(1)>>)}
  \union {Link("search", <<DnParam("dn", av), Str("filterstr", <<"(objectClass=", class, ")">>), Within(1)>>) :
            class \in {"auditObject", "auditWriteObject"}}
ReqEntryUUID(d, dn, av) ==
  Link("search", <<DnParam("dn", dn), Str("filterstr", <<"(entryUUID=">> \o av \o <<")">>)>> \o From(d))
ReqSession(d, dn, av) == Link("search", Advanced(dn, From(d) \o Row("reqSession", "is", av)))

(* d.config and d.monitor are <<>> where the server has no such context. *)
ConfigLink(d, class, attr, av) ==
  {Link("search", <<DnParam("dn", d.config), Within(1),
                    Str("filterstr", <<"(&(objectClass=", class, ")(", attr, "=">> \o av \o <<"))">>)>>) :
     x \in {x \in {1} : d.config # <<>>}}
MonitorLink(d, av) ==
  {Link("search", <<DnParam("dn", <<"cn=Databases,", "cn=Monitor">>), Within(1),
                    Str("filterstr", <<"(&(objectClass=monitoredObject)(namingContexts=">> \o av \o <<"))">>)>>) :
     x \in {x \in {1} : d.monitor # <<>>}}
OpenLDAPSpecialBackendSuffix(d) == ConfigLink(d, "olcDatabaseConfig", "olcDatabase", <<"monitor">>)
NamingContexts(d, dn, av) ==
  DistinguishedName(dn, av) \union Subordinates(av) \union {Link("dit", <<DnParam("dn", av)>>)}
  \union ConfigLink(d, "olcDatabaseConfig", "olcSuffix", av) \union MonitorLink(d, av)

-----------------------------------------------------------------------------
(* plugins/aedir.py: the entryDN of an entry of each class. *)

AEEntryDNAEPerson(d, dn) ==
  Backlinks(d, dn, dn, {<<"manager", "">>, <<"aePerson", "aeUser">>, <<"aeOwner", "aeDevice">>})

AEEntryDNAEUser(d, dn) ==
  {Link("searchform", MatchAny(Advanced(dn,
      From(d) \o Row("creatorsName", "is", dn) \o Row("modifiersName", "is", dn))))}
  \union {Link("search", Advanced(d.audit, Row("objectClass", "is", <<"auditObject">>) \o Row("reqAuthzID", "is", dn))) :
            x \in {x \in {1} : d.audit # <<>>}}

AEEntryDNAEHost(d, dn) ==
  Backlinks(d, dn, dn, {<<"aeHost", "aeService">>})
  \union {LET groups == {Tail(dn), d.context}
              matches == FoldSet(LAMBDA g, f : f \o <<"(entryDN:dnSubordinateMatch:=">> \o g \o <<")(aeSrvGroup=">> \o g
                                                 \o <<")">>, <<>>, groups)
          IN Link("search", <<DnParam("dn", dn), DnParam("search_root", d.context), Word("searchform_mode", "exp"),
               Str("filterstr", <<"(&(|(objectClass=aeHost)(objectClass=aeService))(|">> \o matches \o <<"))">>)>>) :
          x \in {x \in {1} : dn # <<>>}}

AEEntryDNAEZone(d, dn) ==
  {Link("search", Advanced(d.audit, Row("objectClass", "is", <<"auditObject">>) \o Row("reqDN", "subtree", dn))) :
     x \in {x \in {1} : d.audit # <<>>}}

AEEntryDNAEMailGroup(d, dn) == Backlinks(d, dn, dn, {<<"memberOf", "">>, <<"aeVisibleGroups", "aeSrvGroup">>})

AEEntryDNAEGroup(d, dn, cn) ==
  Backlinks(d, dn, dn,
    {<<"memberOf", "">>, <<"aeZoneAdmins", "">>, <<"aePasswordAdmins", "">>, <<"aeZoneAuditors", "">>}
    \union ({"aeLoginGroups", "aeLogStoreGroups", "aeSetupGroups", "aeVisibleGroups"} \X {"aeSrvGroup"}))
  \union {Link("search", Advanced(dn, From(d) \o Row("sudoUser", "is", <<"%">> \o cn)))}

AEEntryDNAESrvGroup(d, dn) ==
  Backlinks(d, dn, dn, {<<"aeProxyFor", "aeSrvGroup">>, <<"aeRequires", "aeSrvGroup">>})
  \union {Link("search", <<DnParam("dn", dn), DnParam("search_root", d.context), Word("searchform_mode", "exp"),
            Str("filterstr", <<"(&(|(objectClass=aeHost)(objectClass=aeService))(|(entryDN:dnSubordinateMatch:=">>
                             \o dn \o <<")(aeSrvGroup=">> \o dn \o <<")))">>)>>)}

AECommonNameAETag(d, dn, av) == Link("searchform", Advanced(dn, From(d) \o Row("aeTag", "is", av)))

-----------------------------------------------------------------------------
(* LDAPSyntaxRegistry.get_syntax(): an entry has values of every class. *)

Values(d, dn) ==
  LET av == <<"value">>
  IN Binary(dn, "jpegPhoto") \union Binary(dn, Nameless) \union LDAPUrl(<<>>) \union DynamicValueSelectList(d.context)
     \union BindDN(d, dn, d.context) \union {DynamicSubtrees(d.context)}
     \union {schema_anchor(dn, "2.5.4.0", class) : class \in {"objectClasses", "attributeTypes"}}
     \union {OtherSID(dn, av), UUIDReference(dn, av), OctetStringGUID(dn, av), GidNumber(dn, av), MemberUID(dn, av),
             PwdMaxAge(dn, av), PkcX509Issuer(d, dn), ReqEntryUUID(d, dn, av), ReqSession(d, dn, av),
             AECommonNameAETag(d, dn, av)}
     \union DHCPConfigStatement(d, av) \union ARecord(d, av) \union AAAARecord(d, av) \union AssociatedDomain(d, av)
     \union AuditContext(d.context) \union OpenLDAPSpecialBackendSuffix(d) \union NamingContexts(d, dn, d.context)
     \union AEEntryDNAEPerson(d, dn) \union AEEntryDNAEUser(d, dn) \union AEEntryDNAEHost(d, dn)
     \union AEEntryDNAEZone(d, dn) \union AEEntryDNAEMailGroup(d, dn) \union AEEntryDNAEGroup(d, dn, av)
     \union AEEntryDNAESrvGroup(d, dn)
=============================================================================
