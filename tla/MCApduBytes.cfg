CONSTANTS
    RxLen <- MCRxLen
    Header <- MCHeader
    AddressLen <- MCAddressLen
    SdkException <- MCSdkException
    IO_APDU_BUFFER_SIZE = 260
    UINT32_RANGE = 1000000
SPECIFICATION Spec
INVARIANTS
    BytesTypeOK
    AnswerIsOwn
    TakesOnlyReceived
    AddressTerminated
    StatusWordTells
PROPERTY KeepsProtocol
