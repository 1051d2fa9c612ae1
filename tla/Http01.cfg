SPECIFICATION FairSpec
CONSTANTS
    Addresses = {open4, open6, closed4, closed6}
    V4 = {open4, closed4}
    Blocked = {closed4, closed6}
    NoAddress = NoAddress
    MaxAnswer = 3
    MaxRetries = 3
    Timeout = 1
INVARIANTS
    ContactsChecked
    ValidatedIsProved
    ReportsLastAttempt
PROPERTIES
    EndsUnlessFed
