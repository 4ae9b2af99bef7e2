\* A use of two assets: the callback awaits the last one only.
SPECIFICATION Spec
CONSTANTS
    alice = alice
    bob = bob
    owner = owner
    keypom = keypom
    pk1 = pk1
    pk2 = pk2
    usdc = usdc
    tickets = tickets
    OneYocto = 0
    YoctoPerNear = 0
    U128Max = 100
    Accounts = {alice}
    ContractOwner = owner
    KeypomAccount = keypom
    PublicKeys = {pk1, pk2}
    DropIds = {"d1"}
    FtContracts = {usdc}
    NftContracts = {}
    NftTokens = {}
    ReceiptIds = {"r1", "r2"}
    SigningPks = {"s1"}
    SigningAdmins = {}
    RootAccount = "testnet"
    DropBytes = 0
    KeyBytes = 0
    PkBytes = 0
    NftBytes = 1
    MetadataBytes = 0
    MaxVault = 2
    MaxKeyId = 2
    MaxTime = 0
    Shapes <- FtAndNearShapes
    Funders = {alice}
    KeyOwners <- OnlyNone
    KeyBatches = {1}
    Deposits = {0, 1}
    KeepChoices = {TRUE}
    Batches = {}
    FcArgsChoices = {}
    FtAmounts = {1}
    MaxFt = 2
    Receivers = {}
    ApprovalIds = {}
    Approvers = {}
    MaxApprovals = 0
    FullShare = 1
    Prices = {}
    MaxLenPayouts = {}
    KeepEmptyChoices = {FALSE}
    Withdrawals <- OnlyNone
    MetadataChoices = {}
    OnSuccessChoices = {}
    Freezable = FALSE
    FeeChoices = {}
    UserFees = {}
    Roots = {}
    SigningAdminChoices = {}
    SigningPkChoices = {}
INVARIANT FtNotLost
CHECK_DEADLOCK FALSE
