SPECIFICATION Spec
CONSTANTS
  Project <- MCProject
  RoleOrder <- MCRoleOrder
  Ref <- MCRef
  NameOrder <- MCNameOrder
  PoolOrder <- MCPoolOrder
  MaxLength <- MCMaxLength
  Worlds <- MCWorlds
  Req = {r1, r2}
  MaxClassChainDepth = 2
  None = None
  lon = lon
  par = par
  net = net
INVARIANTS
  TypeOK
  OffersAgree
  RootRangesApart
  AncestryAgrees
  SharedAsDeclared
  
  ClassUseAuthorised
CHECK_DEADLOCK FALSE
