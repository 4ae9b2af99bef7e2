\* Progress: what claiming a key's last use leads to, and the ledger of keys.
SPECIFICATION FairSpec
CONSTANTS
    alice = alice
    bob = bob
    owner = owner
    keypom = keypom
    pk1 = pk1
    pk2 = pk2
    usdc = usdc
    tickets = tickets
    OneYocto = 0
    YoctoPerNear = 0
    U128Max = 100
    Accounts = {alice}
    ContractOwner = owner
    KeypomAccount = keypom
    PublicKeys = {pk1, pk2}
    DropIds = {"d1"}
    FtContracts = {usdc}
    NftContracts = {}
    NftTokens = {}
    ReceiptIds = {"r1", "r2"}
    SigningPks = {"s1"}
    SigningAdmins = {}
    RootAccount = "testnet"
    DropBytes = 0
    KeyBytes = 0
    PkBytes = 0
    NftBytes = 1
    MetadataBytes = 0
    MaxVault = 1
    MaxKeyId = 2
    MaxTime = 0
    Shapes <- ClaimShapes
    Funders = {alice}
    KeyOwners <- NoneOrAlice
    KeyBatches = {1}
    Deposits = {0, 1}
    KeepChoices = {TRUE}
    Batches = {}
    FcArgsChoices = {}
    FtAmounts = {1}
    MaxFt = 1
    Receivers <- NoneOrAlice
    ApprovalIds <- OnlyNone
    Approvers = {}
    MaxApprovals = 0
    FullShare = 1
    Prices = {}
    MaxLenPayouts = {}
    KeepEmptyChoices = {FALSE}
    Withdrawals <- OnlyNone
    MetadataChoices = {}
    OnSuccessChoices = {}
    Freezable = TRUE
    FeeChoices = {}
    UserFees = {}
    Roots = {}
    SigningAdminChoices = {alice}
    SigningPkChoices <- ContractKeys
PROPERTIES DepletedKeyRemoved EmptyDropRemoved ImplementsLedger
CHECK_DEADLOCK FALSE
