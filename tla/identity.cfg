CONSTANTS
    Requests = {r1, r2}
    Ids = {i1, i2}
    Challenges = {j1}
    MailCodes = {m1}
    MaxStep = 2
    MaxGen = 2
    MaxAsked = 2
    MaxDisturbed = 1
    UserLimit = 1
    ChalLimit = 1
    MaxNumber = 2
    MaxLetterSteps = 8
    People = {p1, p2, p3}
    Founder = p1
    MaxUsers = 2
    MaxPending = 2
    MaxMemberSteps = 8
    Browsers = {"a", "b"}
    Tabs <- SomeTabs
    BrowserOf <- TheirBrowser
    Visitors = {"bob", "cyd"}
    Deactivated = {}
    WithMfa = {"cyd"}
    SignInActions = {"email_change", "pat_mint"}
    MaxRounds = 2
    MaxOpened = 1
    Rows = {g1, g2}
    Clients = {k1}
    MaxLive = 1
    MaxSerial = 3
    MaxClock = 2
    MaxGrantsAsked = 5
CHECK_DEADLOCK FALSE
SPECIFICATION Spec
SYMMETRY Symmetry
INVARIANTS MfaSafe MailSafe MembersSafe SignInSafe GrantsSafe
PROPERTIES StepsAndScopesOrdered
