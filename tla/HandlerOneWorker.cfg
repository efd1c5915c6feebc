SPECIFICATION FairSpec
CONSTANTS
  ldap1 = ldap1
  ldap2 = ldap2
  NoId = NoId
  NoURI = NoURI
  Created = Created
  Workers = {w1}
  SessionIds = {s1, s2, s3}
  URIs <- MCURIs
  DefaultURI = ldap2
  Allowed = {ldap1}
  Forms <- MCForms
  Expiry = FALSE
  MaxRequests = 3
INVARIANTS TypeOK PageSidLive ConnectPageEndsSession
PROPERTY RequestEnds
