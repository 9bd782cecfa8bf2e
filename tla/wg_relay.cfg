SPECIFICATION Spec
CONSTANTS
  Names <- MCNames
  Endpoints = {1, 2, 3, 4, 5}
  V6 = {4}
  Addresses = {1, 2, 4, 5}
  AddrOf <- MCAddrOf
  NoEp = 0
  PartnerOf <- MCPartnerOf
  IdxOf <- MCIdxOf
  kCandidateTimeout = 1
  kRelearnCooldown = 1
  kRetryForwardGap = 1
  kStrikePolicy <- MCPolicy
  Envs <- MCEnvs
INVARIANTS
  TypeOK
  LinksArePairs
  XdpFollowsLinks
  RosterIsCurrent
PROPERTIES
  RelearnsOwner
  SlotIsFreed
  RoamerIsRelearned
