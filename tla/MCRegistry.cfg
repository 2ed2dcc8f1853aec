SPECIFICATION RegistrySpec
CONSTANTS
  r1 = r1
  r2 = r2
  a = a
  b = b
  c = c
  z = z
  Requests <- MCRequests
  Bodies <- MCBodies
  Versions <- MCVersions
  NoDocument = NoDocument
INVARIANTS RegistryTypeOK PublishedHasOrder OrderRespectsDependencies RefusedForAReason
PROPERTIES RequestsAreAnswered
CHECK_DEADLOCK FALSE
