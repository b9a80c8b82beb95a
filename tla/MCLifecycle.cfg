SPECIFICATION FairSpec
CONSTANTS
  n1 = n1  n2 = n2
  Nobody = Nobody
  Nodes <- TwoNodes
  MaxPolls = 2
INVARIANTS
  TypeOK
  EndedTells
PROPERTIES
  
  ServerEnds
  ConnectedServes
  MasterEndsWhole
