SPECIFICATION Spec
CONSTANTS
    Configs <- MCConfigs
    Addressings <- MCAddressings
    Parameters <- MCParameters
    MaxParameters = 4
    Answers <- MCAnswers
    ServerPDUs = {64, 239, 240, 480, 65535}
    Payloads <- MCPayloads
INVARIANTS
    NegotiatedPDUIsUsable
    TPDUIsAgreed
    ConformingPeerIsAccepted
    PeerIsTheAddressedOne
CHECK_DEADLOCK FALSE
