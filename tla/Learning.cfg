SPECIFICATION LearningSpec
CONSTANTS
    Requests = {c1, c2}
    Values = {v1, v2}
    Others = {w1, w2}
    Marks = {m1, m2}
    BookIds = {v1, v2}
    ChapterIds = {w1, w2}
    CustomIds = {m1, m2}
    Orders = {m1, m2}
    Same = Same
    BookCalls = {c1, c2}
    BadgeIds = {v1, v2}
    RuleIds = {w1, w2}
    Rewards = {0, 1}
    Thresholds = {2}
    Scores = {1}
    NoScore = NoScore
    EventCalls = {c1, c2}
    Emails <- MCEmails
    StaffKinds = {"ADMIN", "SUPPORTER"}
    SuperAdmin = SuperAdmin
    Bases = {"rahul", "rahul1"}
    NameOf <- MCNameOf
    MaxName = 2
    ProfileCalls = {c1, c2}
    MailCalls = {c1, c2}
    Window = 4
    Bucket = 2
    MaxDelay = 2
    Horizon = 12
SYMMETRY Symmetry
INVARIANTS
    ChangesAreAudited
    ChapterOrdersDiffer
    WalletIsWhatWasAwarded
    ProfilesAreWhole
    OnlyRacesClash
    EveryCodeIsMailed
PROPERTIES
    AwardsAreComplete
CHECK_DEADLOCK FALSE
