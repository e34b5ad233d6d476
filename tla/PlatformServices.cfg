SPECIFICATION PlatformSpec
CONSTANTS
    Runs = {r1, r2}
    Slots = {s1}
    Replicas = {p1, p2}
    NoSlot = noslot
    NoHost = nohost
    StaleAfter = 3
    Timely = TRUE
    MaxFaults = 0
    MaxCrashes = 1
    Topics = {t1, t2}
    Quiet = {t2}
    NoTopic = notopic
    NoCenter = nocenter
    Notifiers = {n1, n2}
    Recipients = {z1}
    MaxCenterEdits = 1
    MaxNotifyFaults = 1
    MaxTests = 1
    Evaluators = {v1, v2}
    NoEvaluator = noevaluator
    NoAlert = noalert
    Windows = 2
    MaxRedisFaults = 1
    MaxQueryFaults = 1
    MaxEarlyExpiries = 1
    MaxEvaluatorCrashes = 1
    Commits = {1, 2, 3}
    DateOf <- SomeDates
    ShaOf <- SomeShas
    Legacy = {1, 2}
    NoDate = nodate
    NoCommit = nocommit
    Reporters = {q1, q2}
    MaxReports = 2
    MaxLookupFaults = 1
    Chatters = {u1, u2}
    Chats = {c1, c2}
    ChatRequests = {k1, k2}
    NoChatter = nochatter
    NoRequest = norequest
    NoChat = nochat
    MaxChatRuns = 2
    ChatTtl = 1
    ReplayRetention = 1
    ApprovalTimeout = 1
    MaxChats = 1
    MaxAgentSteps = 2
    MaxChatTime = 2
    MaxTools = 1
    Tabs = {b1, b2}
    NoPair = nopair
    ReplayWindow = 2
    MaxPairs = 3
    MaxLostReplies = 1
    Clients = {x1, x2}
    Digits = {d1, d2}
    MaxMisses = 1
    MaxCodes = 2
SYMMETRY Symmetry
INVARIANT PlatformTypeOK
INVARIANT TimelyRunsAreUndisturbed
INVARIANT PushesAreAccounted
INVARIANT AnnouncementsAreWarranted
 
INVARIANT SessionsHoldTogether
 
INVARIANT ApprovedOnly
INVARIANT ChatsAreExclusive
PROPERTY CenterEditsSurvive
PROPERTY RepeatsAreReplayed
CHECK_DEADLOCK FALSE
