CONSTANTS
  c1 = c1
  c2 = c2
  c3 = c3
  Conn = {c1, c2, c3}
  NoConn = NoConn
  Fds <- TwoFds
  AUTOCONNECT = TRUE
  AUTORECONNECT = TRUE
  INTERNE = FALSE
  SELECTSEC = 1
  SENDPING = 0
  TimeoutLeft <- EitherTimeout
  ConfFiles <- FullConf
  ServerLines <- PingLines
  UserWords <- AwayWords
  NetCap = 2
  EarlyState = TRUE
SPECIFICATION Spec
SYMMETRY Symmetric
INVARIANTS TypeOK WatchedAreOpen HandshakeInOrder OwnChallenge ResidueDrained
PROPERTIES ProtocolSpec
