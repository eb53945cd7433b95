SPECIFICATION Spec
CONSTANTS
    Traffic <- MCTraffic
    MaxPackets <- MCMaxPackets
    None = None
    Packets <- MCPackets
    Dissectors <- MCDissectors
    MaxDepth = 6
    DnsMessages <- MCDns
    MaxHops = 3
    MaxJumps = 3
    Segments <- MCSegments
    SessionStreams = {1, 2, 3, 4, 5, 6, 7}
    Announcements <- MCAnn
    HandshakeSegments <- MCHs
    HandshakeStreams = {1, 2, 3, 4, 5, 6, 7}
INVARIANTS
    LayersTile TriedOnceInOrder ConflictsAreRebinds
    AnswersItsQuery NamesFollowTheChain
    CredentialsAreSent MailHasItsEnvelope TransferOfItsSession
    LeasesAndHostNames HandshakesStayApart
CHECK_DEADLOCK FALSE
