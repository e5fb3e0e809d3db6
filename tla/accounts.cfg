SPECIFICATION SumSpec
CONSTANTS
  Handlers = {h1, h2}
  Sids = {s1, s2, s3}
  Pair = {s1, s2}
  AdminRole = AdminRole
  ViewerRole = ViewerRole
  Alice = Alice
  Bob = Bob
  Carol = Carol
  Users = {Alice, Bob, Carol}
  SsoUsers = {Bob, Carol}
  Roles = {AdminRole, ViewerRole}
  Recovery = {OneCode}
  Kinds = {"page", "api", "mfa", "sso", "visit", "confirm", "cancel"}
  MfaRoles = {AdminRole}
  SessionCap <- OnePerRole
  MaxFailed = 2
  LockFor = 1
  IdleFor = 0
  AbsoluteFor = 1
  MaxClock = 2
  MaxCrash = 1
  MaxGen = 4
  MaxAdmin = 1
  None = None
  Never = Never
  Owners = {Alice}
  Clients = {"c"}
  Ttl <- OneUnit
  MaxExpiries = {None, 1}
  ReqTime = 1
  MaxTime = 1
  MaxChanges = 1
  Names = {Alice, Bob}
  Invites = {"i"}
  Subjects = {"s", "t"}
  NameOf <- SameName
  EmailOf <- SameAddress
  MaxAccounts = 2
  MaxDeaths = 1
  MaxDelete = 1
  GroupNames = {"n", "o"}
  Name = "n"
  MaxOutside = 1
  Workers = {"old", "new"}
  Conns = {"c1", "c3"}
  WorkerOf <- OnePool
  TablesOf <- Builds
  Orgs = {"o", "p"}
  NoOrg = "none"
  Superuser = FALSE
  MaxDepth = 1
CHECK_DEADLOCK FALSE
SYMMETRY Symmetry
INVARIANTS SessionsBounded GuessBudget CodesOnce ClientTokensDie AccountsSettle DirectoryHolds TenantsHold
PROPERTIES MfaHolds
