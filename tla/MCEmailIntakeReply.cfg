SPECIFICATION Spec
CONSTANTS
    a = a
    y = y
    x = x
    r1 = r1
    r2 = r2
    h1 = h1
    h2 = h2
    None = None
    Mails = {a, x, y}
    Reporters = {r1, r2}
    Hashes = {h1, h2}
    Kind <- MCKind
    From <- MCFrom
    TextHashes <- MCTextHashes
    UrlHashes <- MCUrlHashes
    Limits <- ReplyLimits
INVARIANTS
    RepliesAreStored
