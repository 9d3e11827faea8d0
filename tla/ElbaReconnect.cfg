SPECIFICATION Spec
CONSTANTS
    Payloads <- MCPayloads
    MaxFrames = 2
INVARIANTS PacketsMade
