SPECIFICATION Spec
CONSTANTS
  mail = mail
  note = note
  photo = photo
  anon = anon
  admin = admin
  v1 = v1
  NoStamp = NoStamp
  Attrs <- MCAttrs
  Binary = {photo}
  Replaced = {note}
  Contents <- MCContents
  Initial <- MCInitial
  Identities = {admin}
  Readable <- MCReadable
  MaxTime = 1
  MaxChanges = 1
  MaxSubmits = 3
PROPERTY EditStartsAgain
CHECK_DEADLOCK FALSE
