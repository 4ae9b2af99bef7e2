\* Keys with several uses: transfers, approvals, intervals and throttles.
SPECIFICATION Spec
CONSTANTS
    alice = alice
    bob = bob
    owner = owner
    keypom = keypom
    pk1 = pk1
    pk2 = pk2
    usdc = usdc
    tickets = tickets
    OneYocto = 0
    YoctoPerNear = 0
    U128Max = 100
    Accounts = {alice, bob}
    ContractOwner = owner
    KeypomAccount = keypom
    PublicKeys = {pk1, pk2}
    DropIds = {"d1"}
    FtContracts = {}
    NftContracts = {}
    NftTokens = {}
    ReceiptIds = {"r1", "r2"}
    SigningPks = {"s1"}
    SigningAdmins = {}
    RootAccount = "testnet"
    DropBytes = 0
    KeyBytes = 0
    PkBytes = 0
    NftBytes = 1
    MetadataBytes = 0
    MaxVault = 3
    MaxKeyId = 2
    MaxTime = 3
    Shapes <- KeyShapes
    Funders = {alice}
    KeyOwners <- NoneOrBob
    KeyBatches = {1}
    Deposits = {0, 3}
    KeepChoices = {TRUE}
    Batches = {}
    FcArgsChoices = {}
    FtAmounts = {}
    MaxFt = 0
    Receivers <- NoneOrAnyone
    ApprovalIds <- AnyApproval
    Approvers = {alice, bob}
    MaxApprovals = 2
    FullShare = 4
    Prices = {5, 40}
    MaxLenPayouts <- OnlyNone
    KeepEmptyChoices = {TRUE}
    Withdrawals <- NoOptions
    MetadataChoices = {}
    OnSuccessChoices = {}
    Freezable = FALSE
    FeeChoices = {}
    UserFees = {}
    Roots = {}
    SigningAdminChoices = {}
    SigningPkChoices = {}
SYMMETRY Symmetry
INVARIANTS IndexConsistency EnumerationsAgree ClaimsWithinInterval PayoutsAddUp NearBacked NonceCountsSignatures
PROPERTY ApprovalsAreTheOwners
CHECK_DEADLOCK FALSE
