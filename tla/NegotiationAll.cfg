CONSTANTS
  Options <- ThreeClients
  MaxChatter = 1
SPECIFICATION FairSpec
CHECK_DEADLOCK FALSE
INVARIANTS TypeOK CredentialsNeedTls FeaturesAreFresh DoneIsAgreed ParserSurvives
PROPERTY NegotiationEnds
