CONSTANTS
  web = web
  db = db
  hmi = hmi
  out = out
  ins = ins
  ana = ana
  rsp = rsp
  Hosts = {web, db, hmi}
  FirstHost = web
  Segments = {"dmz", "lan"}
  SegmentOf <- MCSegmentOf
  ReachableFrom <- MCReachableFrom
  Exposed = {web}
  Vulnerable = {web, db}
  Wazuh = {web}
  Edr = {web, hmi}
  Mfa = {db}
  Patched = {db}
  LowValue = {web}
  Critical = {hmi}
  Attackers = {out, ins}
  Insiders = {ins}
  Defenders = {ana, rsp}
  Timesteps = 3
  Runs = 2
  Concurrency = 2
  AttackPlays <- MCAttackPlays
  DefensePlays <- MCDefensePlays
  Length = 4
  LeaderAttacks <- MCLeaderAttacks
  Jitter = TRUE
SPECIFICATION MCSpec
INVARIANTS
  KillChain
  OneStory
  ReportConsistent
  OwnStory
  ContainmentCarriesOver
PROPERTIES
  ContainmentHolds
