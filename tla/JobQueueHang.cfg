SPECIFICATION HangSpec
CONSTANTS
    row = row
    mail = mail
    s1 = s1
    s2 = s2
    nojob = nojob
    noslot = noslot
    Jobs = {row, mail}
    MailJobs = {mail}
    Slots = {s1, s2}
    NoJob = nojob
    NoSlot = noslot
    Attempts = 2
    MaxStalled = 1
    MaxAdds = 1
    MaxCrashes = 0
    MaxLockLosses = 0
CHECK_DEADLOCK FALSE
PROPERTIES HungSlotIsFreed
