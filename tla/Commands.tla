------------------------------ MODULE Commands ------------------------------
(***************************************************************************)
(* One command of web2ldap, as dispatch() calls it: the delete command of    *)
(* RecursiveDelete, or one of eight others on the directory and on what is    *)
(* known of it.  Their modules have the variables in common, pc being "step"   *)
(* here.                                                                      *)
(***************************************************************************)
EXTENDS RecursiveDelete

CONSTANTS
  BulkDns, Below, BulkStarts, Refuses, BulkRows, Targets,            \* of BulkModify
  Groups, GroupClasses, ByAttr, Unsearched, GroupsAre, Frozen,       \* of GroupAdmin
  Types, NamingValues, Superiors, NamingInitial,                     \* of EntryNaming
  Schemas, Forms, TupleSet,                                          \* of PasswordChange
  MaxResults, References, Limits, PageSizes, SearchRows,             \* of SearchPages
  CacheDns, MethodsOf, Menus, MaxVersion,                            \* of SessionCaches
  IdServers, maxNewValue, Pooled, IdStarts, MaxRequests,             \* of PosixIds
  Threads,                                                           \* of SessionCaches and PosixIds
  ClassSchema, Dit, LdifTemplates, EditedEntries, ClassServers,      \* of ObjectClasses
  MaxToggled, MaxPages,
  MaxRows                                                            \* of BulkModify and SearchPages

VARIABLES command, step, form, dir, work, report, past

others == <<step, form, dir, work, report, past>>
all == <<command, others, vars>>

Bulk == INSTANCE BulkModify WITH pc <- step, Dns <- BulkDns, Starts <- BulkStarts, RowLists <- BulkRows
Group == INSTANCE GroupAdmin WITH pc <- step, Classes <- GroupClasses, ClassesOf <- GroupsAre
Naming == INSTANCE EntryNaming WITH pc <- step, Values <- NamingValues, Initial <- NamingInitial
Password == INSTANCE PasswordChange WITH pc <- step
Search == INSTANCE SearchPages WITH pc <- step, RowLists <- SearchRows
Caches == INSTANCE SessionCaches WITH pc <- step, Dns <- CacheDns
Ids == INSTANCE PosixIds WITH pc <- step, Servers <- IdServers, Starts <- IdStarts
Chosen == INSTANCE ObjectClasses WITH pc <- step,
  Kind <- ClassSchema.kind,
  Order <- ClassSchema.order,
  Allows <- ClassSchema.allows,
  Obsolete <- ClassSchema.obsolete,
  Fixed <- ClassSchema.fixed,
  HtmlTemplate <- ClassSchema.template,
  ContentRule <- ClassSchema.contentRule,
  Rules <- Dit.rules,
  Dns <- Dit.dns,
  NoDn <- Dit.none,
  Superior <- Dit.superior,
  OneRdn <- Dit.oneRdn,
  Possible <- Dit.possible,
  Governing <- Dit.governing,
  Edited <- EditedEntries,
  Directories <- ClassServers,
  MaxClicks <- MaxPages

ASSUME CommandsAssumption ==
  /\ Bulk!BulkAssumption /\ Group!GroupAssumption /\ Naming!NamingAssumption
  /\ Password!PasswordAssumption /\ Search!SearchAssumption
  /\ Caches!CachesAssumption /\ Ids!PosixAssumption /\ Chosen!ObjectClassAssumption

-----------------------------------------------------------------------------
(* dispatch() *)

(* The variables of RecursiveDelete while another command runs. *)
NoDelete ==
  /\ tree = Initial /\ job = (CHOOSE j \in Jobs : TRUE) /\ late = FALSE /\ changes = 0 /\ pc = "Canceled"
  /\ dn = Base /\ round = "First" /\ pending = {} /\ arrived = {} /\ sent = 0
  /\ leafs = NoLeafs /\ total = NoLeafs /\ removed = {}

DispatchInit ==
  \/ /\ command = "delete" /\ Init
     /\ step = "" /\ form = "" /\ dir = "" /\ work = "" /\ report = "" /\ past = ""
  \/ NoDelete /\ \/ command = "bulkmod" /\ Bulk!Init
                 \/ command = "groupadm" /\ Group!Init
                 \/ command = "add" /\ Naming!Init         \* and "rename"
                 \/ command = "passwd" /\ Password!Init
                 \/ command = "search" /\ Search!Init
                 \/ command = "read" /\ Caches!Init        \* any request that uses the caches
                 \/ command = "addform" /\ Ids!Init
                 \/ command = "in_oc" /\ Chosen!Init      \* "add" and "modify"

DeleteNext == command = "delete" /\ Next /\ UNCHANGED <<command, others>>
BulkNext == command = "bulkmod" /\ Bulk!Next /\ UNCHANGED <<command, vars>>
GroupNext == command = "groupadm" /\ Group!Next /\ UNCHANGED <<command, vars>>
NamingNext == command = "add" /\ Naming!Next /\ UNCHANGED <<command, vars>>
PasswordNext == command = "passwd" /\ Password!Next /\ UNCHANGED <<command, vars>>
SearchNext == command = "search" /\ Search!Next /\ UNCHANGED <<command, vars>>
CachesNext == command = "read" /\ Caches!Next /\ UNCHANGED <<command, vars>>
IdsNext == command = "addform" /\ Ids!Next /\ UNCHANGED <<command, vars>>
ChosenNext == command = "in_oc" /\ Chosen!Next /\ UNCHANGED <<command, vars>>

DispatchNext ==
  \/ DeleteNext \/ BulkNext \/ GroupNext \/ NamingNext
  \/ PasswordNext \/ SearchNext \/ CachesNext \/ IdsNext \/ ChosenNext

(* As in FairSpec of the two modules. *)
DeleteFairness ==
  /\ WF_all(command = "delete" /\ DeleteStep /\ UNCHANGED <<command, others>>)
  /\ WF_all(command = "delete" /\ TimeOut /\ UNCHANGED <<command, others>>)
BulkFairness ==
  /\ WF_all(command = "bulkmod" /\ Bulk!Server /\ UNCHANGED <<command, vars>>)
  /\ WF_all(command = "bulkmod" /\ Bulk!Command /\ UNCHANGED <<command, vars>>)

DispatchSpec == DispatchInit /\ [][DispatchNext]_all /\ DeleteFairness /\ BulkFairness

-----------------------------------------------------------------------------
(* Properties: those of RecursiveDelete as they are, those of the other       *)
(* modules each for its command.                                              *)

(* Every variable of the command has its type. *)
DispatchTypes ==
  /\ TypeOK
  /\ command = "bulkmod" => Bulk!TypeOK
  /\ command = "groupadm" => Group!TypeOK
  /\ command = "add" => Naming!TypeOK
  /\ command = "passwd" => Password!TypeOK
  /\ command = "search" => Search!TypeOK
  /\ command = "read" => Caches!TypeOK
  /\ command = "addform" => Ids!TypeOK
  /\ command = "in_oc" => Chosen!TypeOK

(* bulkmod: its counters never claim more than the server has done, no entry *)
(* is modified twice because the command itself has moved or changed it, and   *)
(* what is applied is what was confirmed.                                     *)
BulkReport == command = "bulkmod" => Bulk!ReportBounds /\ Bulk!TouchedOnce /\ Bulk!AppliedAsConfirmed

(* bulkmod removes all values only where that was asked for. *)
RemovedOnlyIfAsked == [][command = "bulkmod" => Bulk!RemovalAsked]_all

(* delete and bulkmod end: the one although entries are refused and searches *)
(* exceed limits, the other although it adds entries to the search it works on. *)
CommandsEnd ==
  /\ DeleteEnds
  /\ (command = "bulkmod" /\ step = "Results") ~> (command = "bulkmod" /\ step \in {"Report", "Done"})

(* groupadm names each group on one side, truly, and leaves none with half a *)
(* member.                                                                    *)
GroupReport == command = "groupadm" => Group!GroupsNamed /\ Group!NoHalfMember

(* add and rename name an entry by its values, show the DN at which the      *)
(* entry is, and no error for what was done.                                  *)
NamingReport ==
  command = "add" => Naming!NamedByValues /\ Naming!PageNamesEntry /\ Naming!ErrorMeansUnchanged

(* passwd sets both hashes or none, shows a generated password that was set, *)
(* and leaves no session bound with a password that was changed.              *)
PasswordReport ==
  command = "passwd" => Password!HashesInStep /\ Password!GeneratedIsShown /\ Password!SuccessEndsLogin

(* search counts the rows it shows, shows every result to the user who       *)
(* follows the links to the end, says when a limit has cut the results,        *)
(* accepts its own links and ends a file with its last result.                 *)
PagesReport ==
  command = "search" =>
    /\ Search!RowsAsCounted /\ Search!PagesCoverAll /\ Search!LimitIsSaid
    /\ Search!LinksAccepted /\ Search!FileEnds

(* A flush of the caches forgets the schema, the default schema is used only *)
(* after a request has failed, a key is missing in a cache only because of a   *)
(* flush, and a request is sent with the controls enabled for it.             *)
CachesFresh ==
  command = "read" =>
    /\ Caches!SchemaSinceFlush /\ Caches!DefaultHasReason /\ Caches!KeyErrorOnlyByFlush
    /\ Caches!ControlsAsWanted /\ Caches!SentAsWanted

(* A number that is suggested is free, no free number is passed over, and a  *)
(* pool gives no number twice.                                                *)
IdsUnique == command = "addform" => Ids!SuggestedIsFree /\ Ids!MinPassesUsed /\ Ids!PoolIdsUnique

(* The object classes are those that were chosen, and for no choice is an    *)
(* attribute of the entry lost, but for some with an option.                  *)
ClassesKept ==
  command = "in_oc" => Chosen!ClassesAsChosen /\ Chosen!EntryKept /\ Chosen!OnlyOptionsLost
=============================================================================
