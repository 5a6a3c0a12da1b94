CONSTANTS
    NonceParts = 3
    SignatureChunks = 3
    ByteValues = 4
    NonceIds = {0, 1}
    Payloads = {zero, a}
    ZeroPayload = zero
    NoSignature = NoSignature
    KeyStates = {"no_partition", "no_key", "key"}
SPECIFICATION DocSpec
INVARIANT FullNonceRead
