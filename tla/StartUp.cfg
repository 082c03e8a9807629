CONSTANTS
  podA = podA podB = podB t1 = t1 t2 = t2 hotDefault = hotDefault hotTwo = hotTwo
  r1 = r1 r2 = r2 eth = eth usdt = usdt
  None = None Nobody = Nobody
  Tasks = {t1, t2}
  Pods = {podA, podB}
  Boots = {podA, podB}
  Requests = {r1, r2}
  Scenes <- Scenes1
  PodOf <- PodOf1
  Natives = {eth}
  Tokens = {usdt}
  Wanted = usdt
  Names = {hotDefault, hotTwo}
  Default = hotDefault
  TypeOf <- TypeOf1
  Types = {"hot"}
  MaxMishaps = 1
  Stimuli = {"provider_fails", "backend_fails", "redis_away", "drop"}
SPECIFICATION FairSpec
INVARIANTS OneRefresher RegistryComplete OnePrimary WalletBacked
PROPERTIES RefreshGoesOn PrimaryAtBoot CleanImport
CHECK_DEADLOCK FALSE
