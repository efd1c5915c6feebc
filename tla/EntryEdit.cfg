SPECIFICATION Spec
CONSTANTS
  mail = mail
  note = note
  photo = photo
  anon = anon
  admin = admin
  v1 = v1
  NoStamp = NoStamp
  Attrs <- MCAttrs
  Binary = {photo}
  Replaced = {note}
  Contents <- MCContents
  Initial <- MCInitial
  Identities = {anon, admin}
  Readable <- MCReadable
  MaxTime = 1
  MaxChanges = 1
  MaxSubmits = 3
PROPERTIES NoLostUpdate EditedOnly HiddenKept
CHECK_DEADLOCK FALSE
