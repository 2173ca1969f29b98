CONSTANTS
    client = client
    server = server
    A = client
    B = server
    Holding = {server}
    SendSize = 2
    RecSize = 2
    AckSize = 2
    SendAckMax = 1
    AckRetransmit = 2
    MaxPackets <- MCMaxPackets
    MaxInFlight <- MCMaxInFlight
SPECIFICATION FairSpec
INVARIANTS TypeOK PurgedIsReceived NeverRefused NoReceiveDeadlock
PROPERTIES ImplementsFifo Drained
