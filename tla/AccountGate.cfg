SPECIFICATION FairSpec
CONSTANTS
  Handlers = {h1}
  Probe = probe
  Consents = {c1}
  MAX_REFUSED_RUN = 2
  CONSENT_TTL = 1
  MaxNow = 1
  MaxGrants = 2
  MaxTurns = 1
  MaxFaults = 2
  Free = free
  None = none
INVARIANTS CredentialStands ConsentHolds
PROPERTIES ProbeResumes
CHECK_DEADLOCK FALSE
