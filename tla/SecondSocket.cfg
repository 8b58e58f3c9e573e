CONSTANTS
  c1 = c1
  c2 = c2
  c3 = c3
  Conn = {c1, c2, c3}
  NoConn = NoConn
  Fds <- TwoFds
  AUTOCONNECT = TRUE
  AUTORECONNECT = TRUE
  INTERNE = FALSE
  SELECTSEC = 1
  SENDPING = 1
  TimeoutLeft <- EitherTimeout
  ConfFiles <- FullConf
  ServerLines <- NoLines
  UserWords <- AwayWord
  NetCap = 1
  EarlyState = TRUE
SPECIFICATION Spec
INVARIANTS OnlyOneConnection
