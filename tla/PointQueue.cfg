SPECIFICATION MCSpec
CONSTANTS
    Threads = {t1, t2, t3}
    Messages = {m1, m2}
    NoMessage = NoMessage
    NoThread = NoThread
    MaxQueueSize = 3
    Payloads <- MCPayloads
    MaxFrames = 2
INVARIANTS QueueInv FramesInOrder RestIsShort TimeAnswered
PROPERTY FifoSpec
