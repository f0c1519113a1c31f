SPECIFICATION FairSpec
CONSTANTS
  Passwords = {p1, p2}
  LegacyPassword = p1
  NoPassword = none
  Torn = torn
  MaxWrites = 2
  MaxUploads = 3
INVARIANTS TypeOK AcceptedIsKnown EnrolmentStaysClosed MarkIsEarned OnlyConfirmedRuns
PROPERTY BadUpdateIsLeft
