CONSTANTS
    h0 = h0
    h1 = h1
    x = x
    y = y
    Word <- MCWord
    Payload <- MCPayload
    Command <- MCCommand
    HDPATH_0_DEFAULT = h0
    HDPATH_1_DEFAULT = h1
    ADDR_RESPONSE_LEN = 94
    RAM_BUFFER_SIZE = 1
    FLASH_BUFFER_SIZE = 3
    UINT16_RANGE = 4
SPECIFICATION Spec
INVARIANTS
    TypeOK
    IInv
    UploadAgreed
    QuestionFitsCommand
    SignedAsUploaded
    OneSignaturePerUpload
    ReviewedIsSigned
    AddressAsAsked
    KeyUseStaysInApp
PROPERTIES
    ImplementsService
    KeepsProtocol
