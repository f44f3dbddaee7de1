CONSTANTS
    a = a
    b = b
    Word <- MCWord
    Payload <- MCPayload
    RAM_BUFFER_SIZE = 3
    FLASH_BUFFER_SIZE = 6
SPECIFICATION TxSpec
INVARIANT TxTypeOK
PROPERTY ImplementsLog
