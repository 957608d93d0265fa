CONSTANTS
  web = web
  db = db
  hmi = hmi
  out = out
  ins = ins
  ana = ana
  rsp = rsp
  Hosts = {web, db, hmi}
  FirstHost = web
  Segments = {"dmz", "lan"}
  SegmentOf <- MCSegmentOf
  ReachableFrom <- MCReachableFrom
  Exposed = {web}
  Vulnerable = {web, db}
  Wazuh = {web}
  Edr = {web, hmi}
  Mfa = {db}
  Patched = {db}
  LowValue = {web}
  Critical = {hmi}
  Attackers = {ins}
  Insiders = {ins}
  Defenders = {ana, rsp}
  Timesteps = 2
  Runs = 1
  Concurrency = 2
  AttackPlays <- MCAttackPlays
  DefensePlays <- MCDefensePlays
SPECIFICATION FairSpec
PROPERTY EscalationsHeard
