SPECIFICATION Spec
CONSTANTS
  root = root
  base = base
  ou = ou
  user = user
  leaf = leaf
  new = new
  NoEntry = NoEntry
  Entries <- MCEntries
  Parent <- MCParent
  Above <- MCAbove
  Base = base
  Initial <- MCInitial
  Scopes = {"subtree"}
  Controls = {FALSE}
  Filters <- NoFilter
  Refusals <- NoRefusal
  Attributes = {TRUE}
  SizeLimits = {9}
  MaxChanges = 0
INVARIANT DeletesAll
