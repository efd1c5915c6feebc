SPECIFICATION CommandSpec
CONSTANTS
  root = root
  base = base
  ou = ou
  user = user
  leaf = leaf
  new = new
  NoEntry = NoEntry
  Entries <- MCEntries
  Parent <- MCParent
  Above <- MCAbove
  Base = base
  Initial <- MCInitial
  Scopes = {"base", "onelevel", "subtree"}
  Controls = {TRUE, FALSE}
  Filters <- AnyFilter
  Refusals <- AnyRefusal
  Attributes = {TRUE, FALSE}
  SizeLimits = {2, 9}
  MaxChanges = 1
  BulkDns <- MCBulkDns
  Below = {"base", "in"}
  BulkStarts <- MCBulkStarts
  Refuses <- MCRefuses
  BulkRows <- MCBulkRows
  Targets = {"in", "out"}
  Groups = {"g1", "g2", "g3"}
  GroupClasses = {"groupOfNames", "posixGroup", "org"}
  ByAttr = {"posixGroup"}
  Unsearched = {"org"}
  GroupsAre <- MCGroupsAre
  Frozen = {"g1"}
  Types = {"cn", "ou"}
  NamingValues = {"x", "y"}
  Superiors = {"p", "q"}
  NamingInitial <- MCNamed
  Schemas <- MCSchemas
  Forms <- MCForms
  TupleSet = FALSE
  MaxResults = 5
  References = {1, 3}
  Limits = {0, 2, 3}
  PageSizes = {0, 2, 3}
  SearchRows <- MCSearchRows
  CacheDns = {"d1", "d2"}
  MethodsOf <- MCMethodsOf
  Menus <- MCMenus
  MaxVersion = 1
  IdServers = {"s1", "s2", "p"}
  maxNewValue = 3
  Pooled = {"p"}
  IdStarts <- MCIdStarts
  MaxRequests = 3
  Threads = {"t1", "t2"}
  MaxRows = 2
  ClassSchema <- MCClassSchema
  Dit <- MCDit
  LdifTemplates <- LdifExamples
  EditedEntries <- EditedExamples
  ClassServers <- Servers
  MaxToggled = 1
  MaxPages = 5
INVARIANTS CommandTypes OnlyMatchingRemoved CountIsExact NothingSkipped
  BulkReport GroupReport NamingReport PasswordReport PagesReport CachesFresh IdsUnique
  InputKept DerivedKept
  OfferedIsAccepted LinksKeepSearch LoginKeepsRequest
PROPERTIES CommandsEnd RemovedOnlyIfAsked
CHECK_DEADLOCK FALSE
