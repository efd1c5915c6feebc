SPECIFICATION Spec
CONSTANTS
  ldap1 = ldap1
  ldap2 = ldap2
  NoId = NoId
  NoURI = NoURI
  Created = Created
  Workers = {w1, w2}
  SessionIds = {s1, s2, s3}
  URIs <- MCURIs
  DefaultURI = ldap2
  Allowed = {ldap1, ldap2}
  Forms <- MCSharedForms
  Expiry = TRUE
  MaxRequests = 3
SYMMETRY Symmetry
INVARIANTS NoConnectionLeak ConnectionLostOnlyByRemoval CommandOnNamedServer SupersededRemoved
