SPECIFICATION FormatsSpec
CONSTANTS
    ByteValues = 8
    BitsPerByte = 3
    Marker = 4
    BlockSize = 5
    LengthSize = 2
    Alphabet <- TwoBytes
    MaxBytes = 11
    Values <- Anything
    Perishable <- Samples
    Words <- SmallWords
    MaxReason = 2
    MaxPayload = 40
    MaxDamage = 2
INVARIANTS
    CodecsAgree
    OneSpellingEach
    DigestOfMessage
CHECK_DEADLOCK FALSE
