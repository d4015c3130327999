SPECIFICATION FairSpec
CONSTANTS
    Mailbox = {m1, m2}
    Poller = {p1, p2}
    Nobody = Nobody
    None = None
    MaxMail = 2
    Batch = 2
    Changes = 2
    Faults = 1
INVARIANTS
  LinkHolds
PROPERTIES
  MailIsIngested
