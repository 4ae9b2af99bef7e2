\* Money: what create_drop, add_keys, claims, their callbacks and delete_keys
\* charge, hand out and refund.
SPECIFICATION Spec
CONSTANTS
    alice = alice
    bob = bob
    owner = owner
    keypom = keypom
    pk1 = pk1
    pk2 = pk2
    usdc = usdc
    tickets = tickets
    OneYocto = 0
    YoctoPerNear = 0
    U128Max = 100
    Accounts = {alice, bob}
    ContractOwner = owner
    KeypomAccount = keypom
    PublicKeys = {pk1, pk2}
    DropIds = {"d1", "d2"}
    FtContracts = {}
    NftContracts = {}
    NftTokens = {}
    ReceiptIds = {"r1", "r2"}
    SigningPks = {"s1"}
    SigningAdmins = {}
    RootAccount = "testnet"
    DropBytes = 2
    KeyBytes = 2
    PkBytes = 1
    NftBytes = 1
    MetadataBytes = 0
    MaxVault = 14
    MaxKeyId = 2
    MaxTime = 0
    Shapes <- NearShapes
    Funders = {alice}
    KeyOwners <- OnlyNone
    KeyBatches = {1, 2}
    Deposits = {0, 7}
    KeepChoices = {TRUE, FALSE}
    Batches = {}
    FcArgsChoices <- FcArgs
    FtAmounts = {}
    MaxFt = 0
    Receivers = {}
    ApprovalIds = {}
    Approvers = {}
    MaxApprovals = 0
    FullShare = 1
    Prices = {}
    MaxLenPayouts = {}
    KeepEmptyChoices = {TRUE, FALSE}
    Withdrawals <- NoOptions
    MetadataChoices = {}
    OnSuccessChoices = {}
    Freezable = FALSE
    FeeChoices = {}
    UserFees = {}
    Roots = {}
    SigningAdminChoices = {}
    SigningPkChoices = {}
SYMMETRY Symmetry
INVARIANTS TypeOK IndexConsistency ClaimCallbackFindsKey NearBacked CallsAsConfigured
CHECK_DEADLOCK FALSE
