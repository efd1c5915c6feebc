# web2ldap: specifications, model checking and proofs

web2ldap is an LDAP client that runs on a web server. One Python process serves
many users: each has a *web session*, and a web session holds one `LDAPSession`
object with one LDAP connection. The WSGI server runs each request in one of
several threads (`src/etc/uwsgi/*.ini`: one process, ten threads;
`src/start_gunicorn.sh`: one worker, four threads), so

* the session store is shared by all threads, and by the `ExpiryThread`;
* an `LDAPSession` is shared by all requests of its session (two tabs of one
  browser), without any lock;
* the directory behind it is shared with every other LDAP client, and the LDAP
  server can stop at any time.

The only test in the repository, `src/tests/test_simple.py`, starts none of
this. The first group of modules is about exactly those three kinds of sharing;
the second about each command between its form and its report; the third about
what connects one request with the next: links, forms, and values on their way
through a field and back.

Paths below are relative to `src/web2ldap/` unless they start with `src/`.

## 1. Inventory

### 1.1 Components

| Component | State | Operations | Talks to |
|---|---|---|---|
| Web session store: `web/session.py` (`WebSession`), `app/session.py` (`Session`, `ExpiryThread`) | `sessiondict` with two keys per session (data with time stamp, cross-check variables), `_session_lock`, `session_ip_addr`, `remote_ip_sessions`, counters | `new`, `save`, `retrieve`, `rename`, `delete`, `expire` | called by the request handler; `delete` calls `LDAPSession.unbind` |
| Request handler: `app/handler.py` (`AppHandler.run`), pages in `app/login.py`, `app/connect.py`, `app/gui.py`, `app/referral.py`, `app/srvrr.py` | one object per request: `form`, `sid`, `ls`, `dn`, the exception being handled | one request from URL to answer; `_get_session`, `_new_session`, `_del_session`, `_handle_delsid`, `dispatch` | store, `LDAPSession`, every command |
| LDAP session: `ldapsession.py` | `l`, `uri`, `who`, `user_entry`, root DSE attributes, caches of schema, subschema DN and audit context | `open`, `bind`, `unbind`, `init_rootdse`, `modify`, `rename`, `get_sub_schema`, `flush_cache`, ... | LDAP server through ldap0's `ReconnectLDAPObject`, which reconnects and repeats the last bind by itself |
| Delete command: `app/delete.py` | `DeleteLeafs`: counter and two sets; the totals of `delete_entries` | confirm, delete one entry or a subtree | asynchronous searches |
| Asynchronous searches: `ldaputil/asynch.py` | message ID, counters | `start_search`, `process_results` | LDAP server, result handlers (delete, export) |
| Add, modify, rename: `app/add.py`, `app/modify.py`, `app/rename.py`, `app/addmodifyform.py` | the form with the old entry in it | read the form, re-read the entry, make the delta, write | `LDAPSession.modify`, `rename` |
| Bulk modification, group administration: `app/bulkmod.py`, `app/groupadm.py` | hidden fields of a form; counters of successes and errors | modify, move or copy all entries found; one modification per group | LDAP server while the search still runs |
| Password change: `app/passwd.py` | - | password modify operation or hash and modify; anonymous reconnect | `LDAPSession` |
| Search: `app/search.py`, `app/searchform.py` | page limits, referrals met | search, one result page, export, count | asynchronous searches |
| Parameters, connection info: `app/params.py`, `app/conninfo.py` | request controls of the `LDAPSession` | add and remove controls, `flush_cache` | `LDAPSession` |
| Web forms: `web/forms.py`, `app/form.py` | fields with values, bytes read so far | which fields a command has; parse input within limits | request handler |
| Links and pages: `app/gui.py`, `app/login.py`, `app/referral.py`, `app/srvrr.py`, the end of each command | none: the browser keeps it | write links and forms that make the next request | every command |
| Site configuration: `app/cnf.py` | none (read-only) | `get_param`, `set_target_check_dict` | all |
| Schema handling: `app/schema/` | registry of syntax classes | a value to the text of a field, back, checks; computed attributes; viewer | forms and pages |
| Plugins: `app/plugins/` | `minNewValue` of `posixautogen.py`, shared by all sessions | attribute classes of many schemas, computed attributes of AE-DIR, ID allocation | LDAP searches |
| LDAP helpers: `ldaputil/`, `utctime.py`, `msbase.py` | none | SRV lookup, time stamps, names, hashing | all |
| Display: `app/read.py`, `app/dit.py`, `app/entry.py` | none | read-only pages, with links for each kind of value | links |
| Redirects, monitoring: `app/urlredirect.py`, `app/monitor.py`, `app/metrics.py` | none | read-only pages | store (unlocked) |
| WSGI entry: `__main__.py`, `web/wsgi.py` | none | one call per request | request handler |

### 1.2 What is hard, and what must hold

* **Session store.** The dictionaries are read outside of the lock in several
  places (`max_sessions` in `new()`, the keys and values in `expire()`, the
  first look in `delete()`), every session is two keys, and a request saves its
  session at its end, when it may have been deleted long ago. It must be that
  cross-check data never outlives its session, a removed session never comes
  back, a live one leads to a usable connection, limits are kept as far as the
  code can, and nothing that has expired stays for ever.
* **Request handler.** `run()` is a sequence of about thirty points at which it
  returns early or raises, with twelve kinds of exceptions handled at its end,
  some by pages that use the session again. No connection may be left open
  without a session; a command must run on the server its request names; the
  page must not contain the ID of a session the handler removed; a request must
  end although the server keeps stopping.
* **LDAP session.** Who the user is, is kept in three places: the attribute
  `who`, the last bind of the `ReconnectLDAPObject`, and the connection at the
  server. They change one after the other, with a possible failure in between.
  A reconnect must never come back to an identity the session has left.
* **Delete command.** Search results stream in while entries are deleted, and
  are outdated by the command's own deletions, by other clients, by limits. It
  must delete only what was confirmed, and say correctly what it did.
* **Write commands, bulk commands.** Read, compare, write, with another client
  in between; results of a search that change the search; partial failure; a
  write repeated after the answer was lost.
* **Caches and controls of an LDAP session.** Filled, flushed, copied and
  assigned by different threads; a request takes its controls from up to three
  lists that another request is changing.
* **Numbers for new entries.** Searched for by one request and used by a later
  one; the place where the search starts is shared by all sessions and servers.
* **From page to page.** web2ldap keeps almost nothing between two requests. A
  link is written at one of a hundred places and read at another; one that
  carries another scope or filter than the page shows deletes other entries than
  the user has seen; a request interrupted by a login must be made again as it was.
* **Values in forms.** `form_value()` and `sanitize()` are written separately for
  some fifty classes and have to be inverse to each other, or an entry that is
  opened and saved untouched is changed. Computed attributes depend on each other,
  on other entries and on the clock, and are computed again in some order.

`PROJECT.json` lists each hazard with its line and the properties about it.

## 2. The modules

| Module | Models | Checked by |
|---|---|---|
| `SessionRegistry` | what the store promises: an ID is born once, holds data while live, never comes back | as a property of `SessionStore` |
| `SessionStore` | the store, thread by thread, access by access | `MCSessionStore`, four configurations |
| `SessionStoreProofs` | theorems about `SessionStore`; that it implements `SessionRegistry` | tlapm |
| `RequestHandler` | `AppHandler.run()` on top of `SessionRegistry` | `MCRequestHandler`, two configurations |
| `RequestHandlerProofs` | theorems about `RequestHandler` | tlapm |
| `LDAPSession` | one `LDAPSession` shared by threads | `MCLDAPSession`, two configurations |
| `LDAPSessionProofs` | theorems about `LDAPSession` | tlapm |
| `RecursiveDelete` | `w2l_delete`, `delete_entries`, `DeleteLeafs` | `MCRecursiveDelete`, two configurations |
| `RecursiveDeleteProofs` | theorems about `RecursiveDelete` | tlapm |
| `EntryEdit` | `w2l_modify`, `w2l_modifyform`, `LDAPSession.modify` over the requests of one edit | `MCEntryEdit`, two configurations |
| `EntryEditProofs` | theorems about `EntryEdit` | tlapm |
| `BulkModify` | `w2l_bulkmod` from the rows of the form to the counters | `MCCommands` |
| `GroupAdmin` | `w2l_groupadm` | `MCCommands` |
| `EntryNaming` | `w2l_add`, `w2l_rename`, `LDAPSession.rename` | `MCCommands` |
| `PasswordChange` | `w2l_passwd` | `MCCommands` |
| `SearchPages` | `w2l_search`, the writers of files, `LDAPSession.count` | `MCCommands` |
| `SessionCaches` | caches and request controls of an `LDAPSession`, thread by thread | `MCCommands` |
| `SessionCachesProofs` | theorems about `SessionCaches` | tlapm |
| `PosixIds` | `AutogenNumberMixIn`, `AEGIDNumber` | `MCCommands` |
| `PosixIdsProofs` | theorems about `PosixIds` | tlapm |
| `AttributeSyntaxes` | the syntax classes: `form_value`, `sanitize`, `validate` | `MCCommands` |
| `DerivedAttributes` | the classes with `transmute()` | `MCCommands` |
| `ObjectClasses` | the choice of object classes, LDIF templates, which attributes each input form has | `MCCommands` |
| `WebForms` | the fields of every form; `get_input_fields()` | in `Navigation` |
| `ValueLinks` | the links of attribute values | in `Navigation` |
| `Navigation` | requests, pages, and the requests these offer | `MCCommands` |
| `Commands` | one command at a time, as `dispatch()` calls it: `RecursiveDelete` with eight of the others | `MCCommands` |
| `CommandsProofs` | theorems about `Commands` | tlapm |
| `MCInputs` | values, texts and entries for `AttributeSyntaxes`, `DerivedAttributes` and `ObjectClasses` | `MCCommands` |

The composition: `RequestHandler` takes the store by
`Store == INSTANCE SessionRegistry` and calls `Store!Create`, `Store!Fetch`,
`Store!Save`, `Store!Remove`; `SessionStore` is proved to implement the same
`SessionRegistry`. So the handler need not be checked in the product with the
steps of the store. `LDAPSession` is the close view of what `RequestHandler`
knows only as `conn[s]`, the URI a session is connected to. `Navigation` extends
`ValueLinks`, which extends `WebForms`: what a page offers is read by the form of
the next command. `Commands` is the dispatcher of the commands: its initial
states choose `RecursiveDelete` or one of eight other modules (`BulkModify`,
`GroupAdmin`, `EntryNaming`, `PasswordChange`, `SearchPages`, `SessionCaches`,
`PosixIds`, `ObjectClasses`), all for any values of their constants. `MCCommands`
gives it an instance and adds three modules whose tables TLC goes through
(`AttributeSyntaxes`, `DerivedAttributes`, `Navigation`): twelve commands in all.
The variables `step`, `form`, `dir`, `work`, `report`, `past` are those of the module
chosen. The commands do not run at the same time in one behaviour; what one
command does while others run is an action of its own module (`OtherAdds`,
`OtherChanges`, `Elsewhere`, other threads).

Definitions named `X_Word` before a definition `X` are mutants: `X` as a
plausible mistake would have it. Each property was seen to fail with one.

### 2.1 SessionStore

One action is one access of a thread to shared data. A block under
`_session_lock` that writes one key is one step; one that writes two keys is two
steps with `lock` held, as the unlocked readers can run in between. `pc[t]` is
the point thread `t` has reached, `loc[t]` its locals. `sessiondict` of the
code is split in two functions, `sessiondict` and `checkvars`; `LenSessiondict`
is the length of the dictionary, which counts both. `holding` are the threads
with a reference to a set of `remote_ip_sessions`: a set that
`_remove_ip_assoc()` drops meanwhile takes their addition with it.

| Labels | Code |
|---|---|
| `RetLookup`, `RetRead`, `RetCheck` | `WebSession.retrieve` |
| `NewPerIP` ... `NewIPAdd`, `SaveNew` | `Session.new`, `WebSession.new`, `AppHandler._new_session` |
| `RenDelEntry`, `RenDelVars`, `RenIPAddr` | `Session.rename` after `new()` and `save()` |
| `ExpNext` | the loop of `WebSession.expire`, run by the `ExpiryThread` and by every `new()` |
| `DelPeek` ... `DelIPDrop` | `Session.delete`, `WebSession.delete`, `Session._remove_ip_assoc` |
| `Crashed` | a `KeyError` has left the method; `Recover`: the `ExpiryThread` logs it and goes on |

Abstractions: session IDs are model values and an ID is not drawn a second time
(there are 65^12; the code only excludes IDs in use); the environment of a request
is a pair of what is cross-checked and the remote address; a wrong cookie ends
like a failed cross-check; deleting the session in `delsid` is a request of its
own, because to the store it is one more call; the counters for the monitor page
are left out, apart from two the store itself reads.

### 2.2 RequestHandler

`pc[w]` is the stretch of `run()` worker `w` is in and `app[w]` its
`AppHandler`. The labels follow `run()` downwards: `Parse`, `GetSession`,
`UseSession`, `Disconnect`, `Delsid`, `Params`, `ChooseURI`, `DelSession`,
`NewSession`, `SaveNew`, `Open`, `SaveOpen`, `CheckLs`, `Login`, `Bind`,
`RootDSE`, `CheckConn`, `Dispatch`, `Reconnect`, `Redispatch`, `SaveEnd`, then
`Handler` for the except clauses and `Done`. `Escaped` is an exception that
leaves `run()`. Forms are records: the command, whether and how the parameters
are wrong, how a server is named, how credentials are given.

Abstractions: the command itself is one step with every exception it can raise;
`session_paranoid` is 0 as shipped (`src/etc/web2ldap/web2ldapcnf/__init__.py`,
lines 225-229), so no session is renamed here; `MaxSessions` can be raised by any
`new()`; of the DN only whether it is set; SRV lookup is a choice of a server.

### 2.3 LDAPSession

The variables `l`, `uri`, `who` are the attributes; `last` is `_last_bind` of the
`ReconnectLDAPObject`; `link` is the connection at the server with the identity
it is bound as. `Works`, `Connects` and `Connection` say what ldap0 does when an
operation meets a lost connection: connect, repeat `last`, repeat the operation.
`bind()` is eight steps, `open()` three. Passwords are version numbers: a
password kept in `last` is outdated (`Rejected`) when the number has grown.

Abstractions: one URI (what `run()` passes), no TLS flag, no caches, one entry
for a user name found, `modify()` and `rename()` are like any other request.
The login form posts `delsid` and so creates a new session; a second login in
the *same* session comes from the referral form with the same server, or from a
URL with `sid`, `who` and `cred`.

### 2.4 RecursiveDelete

`tree` is the directory, `pending` and `arrived` are results the server has not
sent or the client has not processed; `sub` of a result is its
`hasSubordinates` at the time it was sent. `First` and `Rest` are the searches
of the two loops of `delete_entries()`, `ProcessResult` is
`DeleteLeafs._process_result` with every result code, `LimitExceeded` and
`SearchEnds` are the two ways a search ends. `leafs` and `total` have the
counter and the sets of `DeleteLeafs` and of `delete_entries()`.

Left out: deleting attributes (one modify request), and the pages.

### 2.5 EntryEdit

`form` is all that is kept between two requests, in the hidden and visible
fields of the browser: the values, `in_oldattrtypes` (`oldtypes`), `in_assertion`
(`assertion`), and whether `modifyTimestamp` and `modifiersName` are among the
fields (`stamp`). `entry` at the server has these two as its stamp. A request
runs through `RootDSE` (`run()` reads the root DSE again), `Check`
(`get_entry_input` and the buttons that switch the form), `Reread`
(`read_old_entry` with the filter), `Modify` (delta and `LDAPSession.modify`),
or `Redisplay` (`w2l_modifyform` with the values posted). `ctrl` says whether
`supportedControl` has the assertion control just now; `OtherRootDSE` is another
request of the session in `init_rootdse()`. `seen`, `blurred`, `raced` and
`writes` are history: the entry the edit began with, whether another change got
the same stamp (one author, one second), whether the entry was changed during
the request.

Abstractions: `objectClass` and the RDN are not edited; a control the server
lists it honours (ldap0 marks it critical with OpenLDAP only); rows, read-only
attributes and the relax rules control are left out, and so is an LDIF text
emptied altogether, with which the edit starts again.

### 2.6 BulkModify, GroupAdmin, EntryNaming, PasswordChange

In these `form` is what the browser sends, `dir` the directory, `work` the locals
of the command, `report` what the page says and `past` history for the
properties: what the user confirmed, what the server really did, whether an
answer was lost. Each request to the server is one action with the outcomes done,
refused, and lost (done or not); after a lost answer the command is dispatched
once more, as `run()` does.

`BulkModify` streams results like `RecursiveDelete`: an entry moved below the
base of the search can be found again. The rows go through hidden fields from the
form to the confirmation and back; `ModList` is `get_bulkmod_inputs` with
`sanitize()` and the refusal of invalid values. `GroupAdmin` has groups of several
classes, whose members are named differently, one request each. `EntryNaming`
derives the RDN from the values (`PrepareAdd`), splits and checks it
(`PrepareRename`), and finds the DN to show by the controls the server answers.
`PasswordChange` has both ways to set a password, the attributes that go along, and
the reconnect after a change of the own password, which may fail when the password
is set already (`ReloginFails`). Every dispatch generates a password of its own
(`gen`, `regen`), and the second may find that it cannot read the entry.

### 2.7 SearchPages

Results are numbers, sent one by one; `work` is the result handler with the range
of a page. `Receive` takes one, `ShowAll`, `Exceeded` and `ShowPart` make the
page with its links; `Write` makes a file. Following a link is an action, so `past.seen`
collects what a user sees going from page to page.

### 2.8 SessionCaches, PosixIds

Threads again, and one action per access: the test whether a key is in a cache,
the use of the key, the search, the store; for controls the copy of a list and
its assignment, and the reading of each list when a request is sent. A search is
answered by a result ldap0 has kept (`results`, and `answer` for the schema) or by
the server; what the server sends is kept in a step of its own (`KeepDn`,
`KeepSchema`) and forgotten at any time (`Expires`), as the lifetime is a matter of
seconds. A search finds something, finds nothing without an error, or fails, for the
DN of the subschema (where the root DSE is asked then) and for the schema, which may
not be parsed either. `flush_cache()` is four steps, ldap0's results last
(`FlushResults`). `late` marks values read before a flush, or taken from ldap0's
results during one, and stored after it; `past.denied` says that since the last
flush the server did not answer, or had no subschema, or none that is parsed. In
`PosixIds`, `Loop` and `Step` are the loop over numbers that raises `minNewValue` of
the *class*.

### 2.9 AttributeSyntaxes, DerivedAttributes, ObjectClasses

A value is a notation and a content: `[as |-> "padded", content |-> ...]`. One
behaviour is an attribute of one syntax class: the form is opened, the user
changes at most one field, the browser sends (a text field drops line breaks, a
hidden one tabs), the class sanitizes and validates, and the input is written or
shown again. Numbers, time spans and times are computed (`strptime` on digits,
with fields of one or two digits as Python takes them), as their edges matter;
words are abstract, and so are bytes that are no text: some classes replace them by
a note, `form_value()` of others ends in an error (`FormRaises`), which is that of the
whole page (`FieldsRaise`). A telephone number may have an extension, a year less
than four digits (`YearDigits`, `ShortYear`).

`DerivedAttributes` has the entry as a function from attributes to lists, other
entries with several versions each (`Elsewhere` changes one, or the clock), and
`Transmute`, one call for one attribute, in the order of the form, over and over
while something changes, at most seven passes.

`ObjectClasses` has the form around the values: which classes the form for object
classes offers (`ClassOptions`, with the structure rules the code looks for upwards
in `get_governing_structure_rule`), which LDIF templates (`TemplateList`), and which
attributes the input form has for the classes chosen (`Tables`,
`TemplateOutput`). An attribute is a pair of type and option. `form` is the page in the
browser with its hidden fields; `Choose`, `Switch`, `PickTemplate` and `Save` send it.
`past` is what the page before had, or the entry before it was saved.

### 2.10 WebForms, ValueLinks, Navigation

`FormClass` is every form of `app/form.py`, each field with its length, number of
values and the kinds of text it takes; `get_input_fields` reads a request. A link
is the command and a sequence of parameters (`Link`); `Offers` gives for each page
all it offers. One click is `Click` (choose an offer of the page), `ReadForm`
(read the request; refused if the form does not accept it) and `Answer`, the page
of the command, or `Trouble`: the login form, a referral or a list of hosts, which
offer the interrupted request again. `keep` and `again` in an offer say what the next
request is to select or repeat; they are history.

What a field nobody sees does to its value is modelled: `Hidden` drops tabs and
makes uploads empty, `s2d_nbsp` changes double spaces, so these are tokens of their
own. A page can fail while it is written (`PageFails`): that depends on the request it
repeats and on the user of the session (`dir.who`: a name, `""` after an anonymous bind,
`"none"` without a bind). Attributes are offered by name, and by OID where the schema
has no name for them (`Named`).

Abstractions: a text is a sequence of tokens with a length and a kind; the
contents of the directory are one entry of each kind of link.

## 3. Model checking

### 3.1 Runs

| Run | Instance | Shows |
|---|---|---|
| `store_expiry` | 2 request threads, ExpiryThread, 3 IDs, limit 1, clock to 2 with TTL 1, 3 requests, no renaming | `NoOrphanCheckvars`, `SessionLimitOvershoot`, `UnboundOnlyIfRemoved` |
| `store_rename` | the same threads and IDs, limit 2, renaming, no time | `ImplementsRegistry`, `NoOrphanCheckvars` |
| `store_liveness` | 1 request thread, ExpiryThread, 2 IDs, limit 1, renaming, clock to 4 | `SessionLimit` is exact with one worker; `ExpiredIsRemoved`, `StoreCallReturns` |
| `store_key_error` | as `store_expiry` with 2 IDs | finding: `ExpiryNeverFails` is violated |
| `handler_shared` | 2 workers on shared sessions, 3 IDs, 2 servers, expiry, 3 requests | `NoConnectionLeak`, `ConnectionLostOnlyByRemoval`, `CommandOnNamedServer`, `SupersededRemoved` |
| `handler_one_worker` | 1 worker, every form, 1 allowed server of 2, 3 requests | `PageSidLive`, `ConnectPageEndsSession`, `RequestEnds` |
| `session_identity` | 2 threads, one of which logs in, 2 users, every login, 4 requests, 2 changes outside | `NoForgottenIdentity`, `LoginTakesEffect` |
| `session_relogin` | 1 thread, no change outside | finding: `WhoIsBound` is violated |
| `commands` | twelve commands, one per behaviour (below) | 18 properties (below) |
| `delete_aborts` | scope subtree, no limits, no changes | finding: `DeletesAll` is violated |
| `entry_edit` | 3 attributes (one hidden without login and replaced as a whole, one not editable), 2 identities, 1 change by others, clock to 1, 3 requests | `NoLostUpdate`, `EditedOnly`, `HiddenKept` |
| `entry_lost_update` | the same with one identity | finding: `EditStartsAgain` is violated |

One run of each module also checks its `TypeOK`.

In `commands`:

| Command | Instance | Properties |
|---|---|---|
| delete | 5 entries in 4 levels and one other clients add, every scope, control, filter, refusal, limit; 1 change | `OnlyMatchingRemoved`, `CountIsExact`, `NothingSkipped`, `CommandsEnd` |
| bulk modification | 2 names at 3 places, of which 2 are within the search; one entry refuses; 5 lists of rows | `BulkReport`, `RemovedOnlyIfAsked`, `CommandsEnd` |
| group administration | 3 groups of 3 classes, one frozen; 1 change by others | `GroupReport` |
| add, rename | 2 attribute types, 2 values, 2 superiors, every form; 1 change by others | `NamingReport` |
| password change | 4 schemas, every form | `PasswordReport` |
| search | up to 5 results of which 2 are continuations, limits and page sizes 0, 2, 3; 1 change | `PagesReport` |
| caches, controls | 2 threads, 4 menus of requests, 1 change of the schema, a server that stops | `CachesFresh` |
| POSIX IDs | 2 threads, 3 servers (one with a pool), 3 numbers, 3 requests, 1 change | `IdsUnique` |
| syntax classes | 45 classes, each with values in every notation and at its edges, hidden or not, 3 rounds | `InputKept` |
| computed attributes | 9 object classes, orders of the form and their reverse, 2 rounds, 1 change elsewhere | `DerivedKept` |
| object classes | 6 classes (1 not in the schema), attributes with and without option, 3 entries, 2 LDIF templates, 6 servers (structure rules, `allowedChildClasses`, no restriction) | `InputKept`, `OfferedIsAccepted` |
| pages | every page, 4 typed URLs, 3 clicks, 1 login, referral or list of hosts | `OfferedIsAccepted`, `LinksKeepSearch`, `LoginKeepsRequest` |

Some of these need a word.

* `SessionLimitOvershoot`, `SessionLimit`. `new()` tests `max_sessions` before it
  takes the lock, so `session_limit` is exact only with one request thread. With
  n threads at most n - 1 sessions more are stored; that bound is what the code
  gives, and it is proved.
* `UnboundOnlyIfRemoved` is checked, and proved, without renaming. With `session_paranoid`, a
  request that deletes a session while another renames it leaves the unbound
  `LDAPSession` under the new ID; `run()` then finds `ls.uri` unset
  (`app/handler.py`, line 905), removes the session and shows the landing page.
* `ImplementsRegistry` covers the late `save()`: it stores an entry again, but
  without cross-check variables `retrieve()` refuses it, so to the registry the
  session stays gone. `ExpiredIsRemoved` says that such an entry goes away.
* `NoForgottenIdentity` allows for the users of logins that are under way. With
  two logins at once in one session it does not hold: each can take the answer
  to *Who am I?* for its own. Hence `Loggers`, one thread in the run.
* `NothingSkipped` does not promise that everything refused is counted. In the
  second loop, entries refused while another one below the same entry could be
  deleted are in neither set, and the page does not count them.
* `NoLostUpdate` holds in the two cases the code gives: with the assertion
  control in the request, or without it if the entry does not change between the
  second read and the modification. It excludes changes with the same stamp
  (`blurred`) and forms without a filter; the latter are the finding.
* `EditedOnly` holds without the control too: what is sent is a delta against
  the entry read with the filter, so a change in between loses at most values
  the user has edited.
* `BulkReport`. The counters are exact unless an answer is lost; then they are
  bounds, and those of the second dispatch. No entry is modified twice unless
  entries are moved within the search or the command is sent twice.
* `RemovedOnlyIfAsked` speaks of the step that modifies: where it leaves an attribute
  without values, the page that was confirmed asked for the deletion of all of them,
  or of one that the entry had or that another of the rows had just given it.
* `NamingReport` has two exceptions: a rename to the root without an answered
  control, and a server that answers the pre-read control only.
* `PasswordReport`. The page of success always shows a password that was
  generated. It is set and not shown if an answer is lost (`past.lost`), or if what
  follows the setting of the password fails (`past.cut`): the modification after the
  extended operation, or the reconnect of the session, of which the code catches
  `INAPPROPRIATE_AUTH` only. The hashes are in step unless the second dispatch could not
  read the entry. And the session stays bound with the old password if `who` has
  another notation of the DN.
* `PagesReport`: a link "last" with a negative start is the known exception.
* `CachesFresh`. A thread that was searching while another flushed may store an
  old value after the flush, and so may one that began during the flush, before it had
  come to ldap0's results (`late`); nothing else outlives a flush. The default schema
  is returned only if since the last flush the server did not answer, or had no
  subschema, or none that is parsed. A `KeyError` needs a flush between the test and the
  use of the key. Controls are as
  wanted only if no two requests change them at a time: the code copies, changes
  and assigns without a lock (`past.clean`). A request that is sent while nobody
  changes controls has all that are enabled and meant for it.
* `IdsUnique`: a suggested number can be taken by the time it is used, as the
  code has no lock on it; two clones keep the number of their original.
* `InputKept`, `DerivedKept`, `OfferedIsAccepted` say what the code promises in
  its docstrings and name what it gets wrong (`Lossy`, `KnownRefused`, `ShortYear`,
  `OptionsRaise`, the disjuncts after `Refused`): anything outside of these lists would
  be found. Of
  the conjuncts from `ObjectClasses`, `EntryKept` and `OnlyOptionsLost` except
  attributes with an option; `RuleIsTrue` needs that the server follows X.501, which
  `ObjectClassAssumption` says of the instance.
* `LinksKeepSearch`: forms (Export, Delete, Bulk modify) lose the tabs of a filter, and
  the one that deletes what it finds its double spaces; links keep both.
* `LoginKeepsRequest`: the login form loses tabs and uploads; the referral form and the
  list of hosts keep all they can be shown for, but fail for a request with uploads, and
  the referral form in a session without a bind.
* `RequestEnds`. `run()` dispatches again after `SERVER_DOWN` once; servers may
  stop and start for ever.

### 3.2 Bounds

`MaxTime`, `MaxRequests` and `MaxChanges` bound the clock, the requests and what
happens outside. Session IDs are used up, which bounds the sessions. They are
large enough for: an entry found again after it was moved; a page of results
before, at and after a limit; a control list copied by one thread while another
assigns it; a number free at one server and used at another; a time stamp with
and without seconds, at the end of a day, February and year 9999; a change of
another entry before, between and after the passes of `transmute()`; a login in
the middle of any three clicks; a class taken off an entry and the form
switched and saved afterwards (`MaxToggled`, `MaxPages`); a session created, expired and expired again by a second
thread (clock two past a TTL of 1); two sessions for one place; a session that
one request renames or deletes between any two steps of another; a connection
that is lost, and lost again by the time of the second dispatch; a login after a
login after a change of password; a non-leaf below a non-leaf, with an entry
added below it; an edit that is opened, switched and saved, with a change or a
login before any of its steps and a repetition after it. One value per
attribute is enough there: the properties compare one attribute before and after.
The properties relate at most two threads and one session, or
two entries of one chain. What has a theorem does not depend on a bound: the
theorems hold for every value of these constants.

`CHECK_DEADLOCK FALSE` is in the configurations of `LDAPSession` and `EntryEdit`
because nothing happens any more when the requests are used up. The others have a stuttering or
a further step there.

### 3.3 Fairness

* `SessionStore`: weak fairness of each thread's steps inside the store (the
  lock is held for a bounded number of steps, and Python threads are scheduled),
  and of `StartExpiry` (the `ExpiryThread` wakes up every
  `SESSION_EXPIRY_INTERVAL` seconds). None of requests: nobody has to send any.
* `RequestHandler`: weak fairness of each worker in a request. None of servers.
* `RecursiveDelete`: weak fairness of the command's steps and of `TimeOut`, the
  clock that passes the 90 seconds. None of other clients.
* `BulkModify`: weak fairness of the server's results and of the command's steps.
* The other modules have no liveness property and no fairness.

## 4. Proofs

| Theorem | For every | Property |
|---|---|---|
| `SessionStoreProofs!TypeCorrect` | set of threads, IDs, environments, limits | `TypeOK` |
| `SessionStoreProofs!NoOrphans` | same | `NoOrphanCheckvars` |
| `SessionStoreProofs!OvershootBounded` | same | `SessionLimitOvershoot` |
| `SessionStoreProofs!LimitWithOneWorker` | same, one request thread | `SessionLimit` |
| `SessionStoreProofs!StoreImplementsRegistry` | same | `ImplementsRegistry` |
| `SessionStoreProofs!BoundWhileLive` | same, `session_paranoid` 0 | `UnboundOnlyIfRemoved` |
| `RequestHandlerProofs!TypeCorrect` | workers, IDs, servers, forms, with or without expiry | `TypeOK` |
| `RequestHandlerProofs!ConnectionsInSessions` | same | `NoConnectionLeak` |
| `RequestHandlerProofs!LostOnlyByRemoval` | same | `ConnectionLostOnlyByRemoval` |
| `RequestHandlerProofs!NamedServer` | same | `CommandOnNamedServer` |
| `RequestHandlerProofs!OldSessionRemoved` | same | `SupersededRemoved` |
| `RequestHandlerProofs!LandingPageEndsSession` | same | `ConnectPageEndsSession` |
| `RequestHandlerProofs!PageSidLiveAlone` | same, one worker, no expiry | `PageSidLive` |
| `RecursiveDeleteProofs!TypeCorrect` | tree, filters, refusals, limits, changes | `TypeOK` |
| `RecursiveDeleteProofs!OnlyMatching` | same | `OnlyMatchingRemoved` |
| `RecursiveDeleteProofs!CountCorrect` | same | `CountIsExact` |
| `RecursiveDeleteProofs!NothingLeftBehind` | same | `NothingSkipped` |
| `EntryEditProofs!TypeCorrect` | attributes, values, identities and what they read, changes, requests | `TypeOK` |
| `EntryEditProofs!NothingOverwritten` | same | `NoLostUpdate` |
| `EntryEditProofs!HiddenNotRemoved` | same | `HiddenKept` |
| `EntryEditProofs!UntouchedKept` | same | `EditedOnly` |
| `LDAPSessionProofs!TypeCorrect` | threads, users, logins | `TypeOK` |
| `LDAPSessionProofs!IdentityCorrect` | same, at most one thread that logs in | `NoForgottenIdentity` |
| `LDAPSessionProofs!LoginCorrect` | same | `LoginTakesEffect` |
| `SessionCachesProofs!SchemaNotOlder` | threads, names, controls and their lists, requests | `SchemaSinceFlush`, in `CachesFresh` |
| `SessionCachesProofs!DefaultJustified` | same | `DefaultHasReason`, in `CachesFresh` |
| `SessionCachesProofs!KeyErrorJustified` | same | `KeyErrorOnlyByFlush`, in `CachesFresh` |
| `SessionCachesProofs!ControlsCorrect` | same | `ControlsAsWanted`, in `CachesFresh` |
| `SessionCachesProofs!SentCorrect` | same | `SentAsWanted`, in `CachesFresh` |
| `PosixIdsProofs!NoNumberPassedOver` | threads, servers, numbers, entries others add | `MinPassesUsed`, in `IdsUnique` |
| `PosixIdsProofs!SuggestionFree` | same | `SuggestedIsFree`, in `IdsUnique` |
| `PosixIdsProofs!PoolNumbersUnique` | same | `PoolIdsUnique`, in `IdsUnique` |
| `CommandsProofs!PasswordReported` | schemas, forms, site settings | `PasswordReport` |
| `CommandsProofs!GroupsReported` | groups, their classes, changes by others | `GroupReport` |
| `CommandsProofs!BulkReported` | entries, rows, places, refusals | `BulkReport` |
| `CommandsProofs!RemovalWasAsked` | same | `RemovedOnlyIfAsked` |
| `CommandsProofs!NamesReported` | types, values, superiors, changes by others | `NamingReport` |
| `CommandsProofs!PagesReported` | results, continuations, limits, page sizes, rows of a search form | `PagesReport` |
| `CommandsProofs!CachesStayFresh` | as for `SessionCachesProofs` | `CachesFresh` |
| `CommandsProofs!IdsStayUnique` | as for `PosixIdsProofs` | `IdsUnique` |
| `CommandsProofs!ClassesAreKept` | schema, templates, structure rules, entries, servers, requests | `ClassesKept`, in `InputKept` |

They rest on the named assumptions on constants in the modules, which TLC
evaluates on every instance, and on nothing else. Of these, what has content:
`TreeAssumption` says that `Above` is what it is in a finite tree (an entry is
above itself, the superior of a superior is above, an entry without superior has
only itself above); `CachesAssumption` that controls are on the lists that
`AVAILABLE_BOOLEAN_CONTROLS` has; `PosixAssumption` that there is a server;
`NamingAssumption` that the entries there at first are named by their values, each
DN by one; `BulkAssumption` that an entry can be moved to each of the places, and
that nothing was modified before the command; `ObjectClassAssumption` that the
select fields offer exactly the classes of the schema and that the server follows
X.501 (only `RuleIsTrue` uses the latter). `CommandsAssumption` is the conjunction
of those of the modules composed. Others say that attributes and DNs are pairs.
`CachesFresh` and `IdsUnique` are the conjunctions of the properties above
that the run `commands` checks of one command.

**SessionStore**, in three layers. `TypeOK` alone is not inductive: a thread at
`NewVars` relies on `loc[t].new` being an ID, not `NoId`. `ControlOK` adds what a
thread may rely on at each of its control points (`LocalsOK`). `LockOK` says that
a thread is inside a locked block exactly if it holds the lock, and `VarsOK` in
which of these blocks the two keys of a session may differ; together they give
`NoOrphans`. For the limit, `Overshoot` counts: the cross-check keys plus the
threads that have passed the test and not yet stored. A thread joins the second
group only by the test, which it passes on the length of the dictionary; by
`VarsOK` and `LockOK` that length is at least twice the cross-check keys, less
one for a `delete()` between its two keys, and half an entry does not make room.
Since the one who tests is not yet counted, at most the other threads are
between, hence `Cardinality(Workers) - 1`.

**The refinement.** A session is live while both its keys are in the dictionary
(`Live`). A step of the store is a step of the registry where it writes the second
key of a new session (`Creates`), removes the first of the two of a live one
(`Removes`), saves a live one (`Saves`), or reads under the lock in `retrieve()`
(`Fetches`); all others are stutters, among them a late `save()` of a session that
is gone. What this hangs on is what each thread knows of the data it is about to
write, long after it was read: no two threads know different data of one session
(`Agree`), the dictionary holds these or the placeholder of `new()` (`Stored`), an
ID in use has been issued, but for the one `new()` is storing (`IssuedOK`), and a
locked block that has removed the entry finds it removed (`RemovedOK`). A
`rename()` knows two sessions, the old ID and the new one with the same data.

`BoundWhileLive` adds that without renaming every copy of the data of session `s`
is the `LDAPSession` made for `s` (`OwnDataOK`), so that `delete()` unbinds that of
the session it removes and nobody else's.

**RequestHandler**, in layers again. `TInv`: types, and what the `AppHandler` has
at each label (`WorkerOK`). `StoreInv`: only a live session whose `LDAPSession` was
saved is connected (`ConnOK`); nobody has the ID of a session not yet made
(`BornOK`); until a new session is open only its worker has its ID, as it is on no
page, so that nobody removes it between `_new_session()` and the end of `open()`
(`PrivateOK`). `RequestInv` is about one request: the server it names and the one
`ls` is connected to (`Named`), the session it supersedes (`Superseded`), the one
it asked for (`Asked`), and a connection that is missing (`Lost`). Of what other
workers do a request feels only that sessions are removed, since a session is
connected once, by its maker. `OneInv`, for one worker without expiry (`Mine`): the
session found by `UseSession` is live until the request itself removes it.

**RecursiveDelete.** `ScopeOK` and `AllMatch` in `MatchInv`: everything that is
pending, arrived, or in a set of non-leaf entries, matches the filter and lies
below the base, so a search that starts from any of these finds only such
entries; with scope one level each of them is not the base itself, and as
`Above` is a partial order no search below them returns to it. `CountInv`: the
total plus the counter of the running search is the number of entries removed.
What others remove is not counted, and what was removed is not added again, so
that each deletion grows both by one. In the code this hangs on the totals being
added up at each of the ways a search can end.

`NothingLeftBehind` needs to know that nothing is lost sight of. While the first
search runs, each entry to be deleted is still to come, has arrived, or is below
one of the non-leaf entries kept (`ToCome`); in the second loop each is below an
entry that has still to be searched (`BelowSearched`, `ToSearch`). As the tree has
no gaps (`TreeClosed`), an entry below the one searched means that the search
finds something. The natural argument is an induction over the tree; instead the
proof takes a topmost entry among those left (`Topmost`), which the library's
theorem on minimal elements of a finite set gives.

**LDAPSession.** `NoForgottenIdentity` speaks of the connection; a reconnect
makes it what `last` says, so `ObjectOK` says the same of `last`, unless the
password in it is outdated and the server will refuse it. `ThreadOK` says what
the thread that logs in finds at each step of `bind()`: `last` empty and the
connection anonymous up to the bind request, although any other thread may
reconnect it; then both its user, until `who` is assigned; and if *Who am I?* was
answered with another name than its user's, that the password was changed in
between and no reconnect comes back to it. Each step of the others keeps these
(`PlainIdentity`, `LeaveIdentity`): it can lose or remake the connection, but
`last` is written by the steps of `bind()`, by the anonymous reconnect of
`w2l_passwd` and by `open()` only.

`LoginTakesEffect` is about the same steps seen by the thread that logs in (`Taken`):
after the bind request `last` is its user's; `who` is that user too once it is
assigned, or the bind cannot be repeated any more, which stays so because
passwords only get newer (`RejectedForGood`).

**SessionCaches.** Every property is about two accesses of one thread with those
of others in between, and each has its own invariant over the types. `SchemaInv`
and `DefaultInv`: what a thread has read and not yet stored is not older than the
last flush (has a reason), or the thread was told that it is late, and so is what it
stores. The same has to be known of what ldap0 keeps (`AnswerFresh`,
`ResultsReasoned`), and there it holds only while nobody is flushing: between the
first and the last step of a flush the kept results are still the old ones, but then
whoever is answered by them is late. As the last step empties them, nothing
has to be known of them when the flush is over.
`KeyInv`: a key that a thread has found stays until a flush (`KeysStay`), and a
flush is told to all threads that have found one (`FlushTold`). `CtrlInv`: while no two
requests change controls at a time, one that is half way has set the lists behind
it, those ahead and all other controls are as last wanted, and its copy of a list
is up to date; this last is what two requests at a time break. `SendInv`: each
control that is meant for a request has been taken, or one of its lists is still
ahead.

**PosixIds.** `MinInv`: all numbers below `minNewValue` were in use at some time,
and so were those below the number the loop of a thread has reached, though other
threads raise the class attribute meanwhile. `Fresh`: a thread that is not in
`past.moved` has found all numbers in use from `minNewValue` on, at least, so what
it has not found is free. `PoolInv`: a number drawn from the pool is below the
counter of the pool entry, in the form of one thread only, and not given yet
(`Drawn`); other numbers in a form are those of the entry that is modified or cloned
(`Own`).

**EntryEdit.** The three properties speak of one step, `Modify`, and all that
step has is the form and `old_entry`; `EditInv` says what these tell of the entry
the user has seen. `FilterKept`: the filter is empty or names that entry's stamp,
through every switch of the form. `StampTells`: while the entry has that stamp it
has those values, unless a change was blurred. Together: what `read_old_entry()`
finds with the filter is the entry seen (`ReadAsSeen`). `HiddenKnown` and
`ShownSeen` tie `in_oldattrtypes` and the fields to what was readable at first,
so an attribute that became visible by a login is ignored, and one left alone is
not in the delta. The one assumption with content is that the sets of values are
closed under union and difference.

**Commands.** `dispatch()` calls one command and makes no step of another
(`OneCommand`), so what a command keeps by each of its own steps holds of `Commands`.
For each there is an invariant, in the order below.

*Password change.* `HashesInStep` and the rest speak of the page, several requests
after the decision. `PasswordUnderWay` says which way is taken at each point, and that
from the request to the page the entry has the password this dispatch has made.
`GeneratedIsKnown` follows a generated password from there: it was shown, or it will
be, or an answer was lost or what follows failed, the exceptions in 3.1. A second
dispatch makes another password, so that what the first has set may be replaced, or
stay and never be shown.

*Group administration.* The groups still to be modified have no answer yet, and a
selected group is still to be modified, was answered, or was not found
(`GroupsUnderWay`). A group has all of a member's values or none (`MembersWhole`), so
one request to modify it, done, refused or lost, does not leave a half.

*Bulk modification.* `BulkHits` is the reason why an entry is not modified twice: what
was modified has been sent by the server or is out of the search's reach, an entry
waiting in the queue or in hand was not modified yet, and there is one result for an
entry (`BulkResults`). All of this fails as soon as entries are moved within the search,
hence the condition. `ReportBounds` is inductive together with the outcomes of one
request (`WritesIs`). `BulkConfirmed` says that the rows on their way through the hidden
fields are those confirmed, each as a hidden field keeps it, so `AppliedAsConfirmed`
needs only that such a field changes nothing but tabs (`RowsKept`). For
`RemovedOnlyIfAsked`, `ChangedIs` says what the rows can do with the values of an
attribute: they leave no values that were neither there nor in a row, and none at all
only with a row that deletes. `Modify` may be done twice if the answer is lost;
the second time it starts from what the first has left.

*Add, rename.* `NamingUnderWay`: the DN in the request is made of the values in it, and
the controls asked for are those of its kind. `NothingDoneYet`: unless an answer was
lost the command has not put an entry anywhere before the request is sent, so an error
that is shown means that it was not done.

*Search.* `HandlerCounts` relates four counters of the result handler: results dropped
before the page, the end of the page, what was sent, and the rows. `SearchUnderWay`
keeps the reason why the rest was counted, so that a limit is said when it has cut the
results and no other time. For `PagesCoverAll` the argument goes over a chain of requests:
each page asked for begins after results that were all seen and before the last of
them (`PageToCome`), and so does each page that the links of the one in the
browser lead to (`LinksLead`).

*Caches, numbers.* `SessionCachesProofs` and `PosixIdsProofs` are instantiated
(`Shared`, `Number`). Their specifications are not that of `Commands`: it is shown that
the command begins and goes on as theirs do, so that their theorems hold of each
behaviour that runs this command.

*Object classes.* The attributes a form has are computed by each request from the form
before it, so what one answer drops the next cannot find again. `FormReduced` says
what may be missing after any number of requests: whatever the first form had and this
one has not is an attribute with an option, or one of a type users do not modify,
and the latter `Save` does not delete. So only attributes with an option are lost. That one form keeps this (`FormHas`, `FormShown`)
rests on templates being shown together with hidden fields for the types they do not
have. `ClassesOffered`: every class of the schema is an option of one of the select
fields, whatever its kind, so a class that was chosen can be selected again.

What is only model-checked, and why:

* `RequestEnds`, `CommandsEnd`, `ExpiredIsRemoved`, `StoreCallReturns`: liveness; the
  prover has no rules for fairness and ENABLED here.
* `LinksKeepSearch`, `LoginKeepsRequest` and the part of `OfferedIsAccepted` about pages:
  folds over the parameters of a link and the lengths of texts, whose results for
  every input need an induction over data, which the prover cannot do.
* `RuleIsTrue` and `OfferedSuffices`, the rest of `OfferedIsAccepted`: the structure rule
  is looked for upwards in the tree by a recursive function; induction over data again.
* `DerivedKept`: what is saved is in step only because seven passes of `transmute()` are
  enough for the attributes of each class, in whatever order. That is a count over a
  fixed table of attributes that depend on each other; with the versions
  of the other entries it is data TLC enumerates and no statement for every table holds.
* The part of `InputKept` about `AttributeSyntaxes`: what each class does with a
  value is a table, and there is nothing to generalise beyond the rows TLC goes through.
* `CommandTypes`: the types of the modules proved about are in their
  invariants where these need them; those of the rest say little.

## 5. Findings

1. `web/session.py`, line 295: the expiry loop catches `InvalidSessionId` for a
   session that is gone, but a dictionary raises `KeyError`. The whole run of the
   expiry ends, in `new()` the request too (`store_key_error`). The next run
   removes what is left (`ExpiredIsRemoved`).
2. `ldapsession.py`, line 1231: a second login in one session that fails after
   the anonymous reconnect and before `simple_bind_s()` leaves `who` and
   `user_entry` of the earlier user although requests are anonymous
   (`session_relogin`).
3. `app/delete.py`, line 244: the second loop can search below an entry an
   earlier search of the loop has deleted: the command ends with "No such
   object" before all is deleted (`delete_aborts`).
4. `app/addmodifyform.py`, line 1100: a form that is shown again gets its filter
   from the values posted. A Template or LDIF form does not post the time stamp,
   so the filter becomes `(objectClass=*)`, and the modification overwrites what
   another client has changed since (`entry_lost_update`).

### Observations without a run

In the models, as exceptions the properties name or as outcomes of an action;
lines are of `app/` unless stated.

*Sessions and requests*

* `ErrorExit` raised by `_get_ldapconn_params()` in a connected session, before
  `self.dn` is assigned, is answered by a page that needs the DN, so an exception
  leaves `run()` (`handler.py`, line 1131; `Escaped`).
* The second loop of the recursive delete searches the whole subtree below each
  non-leaf entry, also when the confirmed search had scope one level
  (`delete.py`, line 244), and does not count all entries refused there.
* Two requests that change controls at a time can leave a control on half of its
  lists (`params.py`, line 49).
* A server that answers a rename with the pre-read control only: `KeyError`
  although the entry was renamed (`ldapsession.py`, line 1054).
* After a change of the own password the session reconnects, and only
  `INAPPROPRIATE_AUTH` is caught (`passwd.py`, lines 505-508). If the server is down just
  then, the password is set, a generated one is not shown, and `who` stays although
  requests are anonymous from then on. The second dispatch generates another one.
* `flush_cache()` empties the caches of the session first and ldap0's last
  (`ldapsession.py`, lines 997-1000): a request in between gets the old schema from
  ldap0 and stores it again, for good.
* That no subschema was found is cached for a DN, also when nothing failed
  (`ldapsession.py`, lines 930-939): the default schema is used until a flush.

*Search*

* "Last" leads to a negative start when the server's limit is below the page
  size; a limit equal to the page size makes "No entries found." of page 2; the
  printable page is empty at a limit.
* Search forms for another mode lose scope and filter; "N of M values" loses the DN of a
  typed URL.

*Links and forms*

* The referral form after a login sends `login_mech` twice, the link
  "Connections" of the page on the connection sends `scope` twice: refused.
* An `ldapurl` among the inputs wins over `host`, so that such a referral is not
  followed; the list of hosts drops `ldapurl`, and with it scope and filter.
* The login form sends `filterstr` to commands whose form has no such field.
* Links with an attribute type that has no name are refused: the fields `read_attr`,
  `read_expandattr`, `delete_attr` and `search_attr` take no OID.
* The login form drops tabs from the input it repeats, and makes uploads empty. The
  forms to export, delete and modify what a search has found drop tabs from its filter;
  the one to delete also writes double spaces as no-break spaces (`delete.py`, line 346),
  so that another filter is deleted than was shown.
* The referral form and the list of hosts fail for a request with an upload, as bytes
  cannot be escaped (`web/forms.py`, line 950); the referral form fails in a session
  without a bind, too (`referral.py`, line 90).
* A filter near the limit of 1200 characters makes links that are too long.

*Values in forms* (`schema/syntaxes.py`)

* `Timespan`: 0 is shown as an empty field, so saving removes it; a negative span
  becomes positive.
* `GeneralizedTime`, `UTCTime`: a time without seconds, or with a year of two
  digits, is parsed with the wrong fields (`202012311234Z` is shown as 12:03:04);
  the sign of a time zone is not used (`utctime.py`, line 62); digits typed
  without `Z` are seconds from now, and many of them an uncaught `OverflowError`.
* `Boolean`: for a value in small letters the options are changed while they are
  iterated over (line 2212): `RuntimeError` from Python 3.8 on, when the form or
  the entry is shown.
* `BitArrayInteger`: bits outside of the table are lost, an absent value becomes
  0, text becomes 0. `NullTerminatedDirectoryString`: an absent value becomes a
  null byte, the last byte of an unterminated one is cut off.
* Text that cannot be decoded is replaced by a note (line 422), which is written
  back. For `MultilineText`, `PostalAddress`, `XmlValue`, `JSONValue`,
  `NullTerminatedDirectoryString` (where the last of two bytes of a letter is cut off,
  too) and the local part of `RFC822Address`, the form ends in an error instead; so it
  does for `BitArrayInteger` and a value that is no number, or digits typed that are not
  ASCII and shown again.
* Hidden fields lose tabs, single-line fields line breaks.
* `TelephoneNumber`: with the library an extension is written as ` ext. 12`, which the
  pattern of the class refuses (lines 1529-1553).
* Years before 1000: `strftime()` does not pad them. A time is shown with a short year
  and refused, and read as another year when it is sent once more; dates typed with such a
  year are refused, or stored without zeros.
* `DynamicValueSelectList`: a value found in two entries is offered and refused.
* A domain label that IDNA cannot encode raises an error nobody catches, and so
  does one that begins with `xn--` and cannot be decoded.

*Forms of an entry* (`addmodifyform.py`, `entry.py`)

* An attribute with an option, such as `cn;lang-ja`, whose type is on the HTML
  template: the template shows only the one without, and "hidden fields for
  attributes not displayed" (`entry.py`, line 457) compares OIDs. It has no
  field, so saving the form unchanged deletes it. The tables of the other form
  lose one whose type is not allowed (obsolete, or by `extensibleObject`) and is
  not in the entry without the option (line 415).
* `hidden_input_html()` passes on `in_oc` but not `in_ocf` (line 505): a form for
  object classes answered with the form type "OC" cannot take back the first
  selection, and when adding, that answer shows the LDIF templates, without
  what was entered. Deselecting all classes keeps all.
* The list of LDIF templates ignores `allowedChildClasses`, and is empty where a
  structure rule has no subordinates; the form for classes then offers all. One
  template file that cannot be read makes the page an error.

*Computed attributes* (`plugins/aedir.py`)

* The docstring of `transmute()` (`schema/syntaxes.py`, line 343) says that the
  caller catches `KeyError` and `IndexError`; it does not: a host entry without
  `host`, a mail group with a member without mail.
* `AEStatus`: `['1'][0].decode` of a default that is a string: `AttributeError`
  when `aeNotAfter` has passed and there is no `aeExpiryStatus` (line 2376).
  `AEExpiryStatus` is registered with the OID of `AEStatus` (line 2410).
* `AENotAfter`: another notation of the time: `ValueError` uncaught (line 2281).
* After the seventh pass of `transmute()` nothing is computed again: with two
  changes elsewhere names can be saved that do not fit each other.
* A mail address another entry has as well is refused in a field nobody sees.

## 6. Not modelled

* HTML and layout, templates, texts of pages; `app/tmpl.py`, the viewer's tables,
  vCard, the text of CSV, LDIF and Excel files.
* `ldaputil/oidreg.py`, `etc/` and `docker/`: tables and configuration.
* Plugins that are tables of flags and names, patterns and binary formats
  (`activedirectory.py`, `samba.py`, `opends.py`, `msbase.py`, `x509.py`, ...);
  their links are in `ValueLinks`.
* Monitoring pages (unlocked reads that may fail and be loaded again), start-up,
  logging, TLS options, `app/urlredirect.py`, `app/dds.py`'s one request.
* `app/cnf.py`: a look-up in four dictionaries, fixed at start.
* Aliases of class names, superclasses, what a name form requires (`Possible` is
  given), and the LDIF form as an answer to the form for object classes.
* LDAP servers with more than one URI: `run()` passes one. `session_paranoid` is
  in `SessionStore` only.
