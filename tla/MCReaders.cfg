SPECIFICATION MCSpec
CHECK_DEADLOCK FALSE
CONSTANTS
    Reading = {"threading", "triage", "extraction", "analytics", "providers"}
    Threads = {"t1", "t2"}
    Subjects = {"s0", "s1", "s2"}
    Short = {"s0"}
    Alike <- MCAlike
    Senders = {0, 1, 2}
    Entries <- MCEntries
    MaxCases = 2
    MaxComms = 2
    MaxMoves = 1
    Letters <- MCLetters
    Words = {"abuse", "bulk", "copyright", "the", "disclaimer"}
    Stops = {"the"}
    Excluded = {"disclaimer"}
    MaxText = 2
    Weight <- MCWeight
    Addresses <- MCAddresses
    Mails <- MCMails
    Sites = {"a", "b", "b.", "img"}
    Hashes = {"h1", "h2", "h3", "h4"}
    Skipped = {"img"}
    PathHashes <- MCPathHashes
    Escaped = {"h2", "h3", "h4"}
    ShortBlock = 2
    Texts <- MCTexts
    Statuses = {"new", "resolved"}
    Kinds = {"spam", "abuse"}
    Sources = {"email"}
    Reasons = {"scan"}
    OpenStatuses = {"new"}
    Ages = {0, 5, 60}
    Never = 100
    MaxRows = 2
    MaxChanges = 2
    Requests <- MCRequests
    Custom <- MCCustom
    MaxChurn = 3
    Parcels <- MCParcels
INVARIANTS
    MatchIsGrounded
    TypeIsOrderFree
    MailIsReadWhole
    CountsAgree
    DetectedIsFirst
