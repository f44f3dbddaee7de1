CONSTANTS
    AddressLen <- MCAddressLen
    PK_LEN_25519 = 32
    ADDRESS_MAX_LENGTH = 66
    ED25519_SIGNATURE_SIZE = 64
    IO_APDU_BUFFER_SIZE = 260
SPECIFICATION Spec
INVARIANTS
    KeysTypeOK
    SecretsWiped
    AnswerIsWhole
    FailureLeavesNothing
    LengthIsOfThisAddress
PROPERTY ImplementsKeyService
