SPECIFICATION ServerSpec
CONSTANTS
  Labels <- MCLabels
  Configs <- MCConfigs
  Hellos <- MCHellos
  Capabilities <- MCCapabilities
  MaxLabels = 4
  k1 = k1
  k2 = k2
  odd = odd
  Keys = {k1, k2, odd}
  KeySize <- MCKeySize
  Slots = 2
  EntropySize = 2
  MaxAllocs = 3
  MaxConfigs = 3
  Capacity = 6
  Suites = {"aes128", "chacha"}
  Routes = {"read", "write"}
  MaxSecrets = 7
  MaxGeneration = 2
SYMMETRY Sym
INVARIANTS
  OwnEndpoint
  ParametersAgreed
  RefusedForCause
  EveryRouteServes
  BuffersOwnedOnce
  FreedIsWiped
  SignsWithOwnKey
  HandlesResolveToOwn
  RoutesResolveToCurrent
  NothingStranded
CHECK_DEADLOCK FALSE
