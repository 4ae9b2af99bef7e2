\* Fees, batches and metadata: what the contract's owner and its funders put in
\* and take out.
SPECIFICATION Spec
CONSTANTS
    alice = alice
    bob = bob
    owner = owner
    keypom = keypom
    pk1 = pk1
    pk2 = pk2
    usdc = usdc
    tickets = tickets
    OneYocto = 0
    YoctoPerNear = 0
    U128Max = 100
    Accounts = {alice}
    ContractOwner = owner
    KeypomAccount = keypom
    PublicKeys = {pk1}
    DropIds = {"d1", "d2"}
    FtContracts = {}
    NftContracts = {}
    NftTokens = {}
    ReceiptIds = {"r1", "r2"}
    SigningPks = {"s1"}
    SigningAdmins = {}
    RootAccount = "testnet"
    DropBytes = 1
    KeyBytes = 1
    PkBytes = 1
    NftBytes = 1
    MetadataBytes = 1
    MaxVault = 4
    MaxKeyId = 1
    MaxTime = 0
    Shapes <- PlainShapes
    Funders = {alice}
    KeyOwners <- OnlyNone
    KeyBatches = {1}
    Deposits = {0, 2}
    KeepChoices = {TRUE}
    Batches <- DropBatches
    FcArgsChoices = {}
    FtAmounts = {}
    MaxFt = 0
    Receivers = {}
    ApprovalIds = {}
    Approvers = {}
    MaxApprovals = 0
    FullShare = 1
    Prices = {}
    MaxLenPayouts = {}
    KeepEmptyChoices = {TRUE}
    Withdrawals <- OnlyNone
    MetadataChoices <- NoneOrOne
    OnSuccessChoices <- NoneOrOne
    Freezable = FALSE
    FeeChoices <- NoneOrOne
    UserFees = {0}
    Roots = {"near"}
    SigningAdminChoices = {}
    SigningPkChoices = {}
INVARIANTS TypeOK NearBacked
PROPERTY FeesKept
CHECK_DEADLOCK FALSE
