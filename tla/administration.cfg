\* Two administration requests and a webhook request on one table.
CONSTANTS
    None = None
    Invalid = Invalid
    owner = owner
    first = first
    second = second
    s1 = s1
    s2 = s2
    MasterKey <- MCMasterKey
    AdminToken <- MCAdminToken
    MaxSegment = 2
    MaxSecret = 2
    KeyLength = 32
    MinTokenLength = 32
    NonceLength = 12
    TagLength = 16
    DigestLength = 32
    Admins = {a1, a2}
    Handlers = {h1}
    RawNames <- MCRawNames
    RawSecrets <- MCRawSecrets
    Headers <- MCHeaders
    Signatures <- MCSignatures
    MaxId = 2
    MaxRequests = 4
    Modulus = 4
    Payloads <- MCPayloads
    Databases <- MCDatabases
    ForeignBoxes <- MCForeignBoxes
SPECIFICATION Spec
SYMMETRY Exchange
INVARIANTS RowsAsTold GaugeConserved NothingInherited
