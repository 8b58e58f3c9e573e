CONSTANTS
  c1 = c1
  c2 = c2
  Conn = {c1, c2}
  NoConn = NoConn
  Fds <- OneFd
  AUTOCONNECT = FALSE
  AUTORECONNECT = TRUE
  INTERNE = FALSE
  SELECTSEC = 1
  SENDPING = 0
  TimeoutLeft <- EitherTimeout
  ConfFiles <- AnyConf
  ServerLines <- TellingLines
  UserWords <- AwayWord
  NetCap = 1
  EarlyState = TRUE
SPECIFICATION LiveSpec
PROPERTIES LossNoticed ConsoleServed HandshakeEnds
INVARIANT PresenceTold
