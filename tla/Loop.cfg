CONSTANTS
  Fds <- TwoFds
  Hand = 9
  Letter = {"a"}
  NL = "newline"
  Nscrc <- Files
  TAILLE_READ = 2
  AUTORECONNECT = TRUE
  SELECTSEC = 2
  SENDPING = 3
  KEPT = TRUE
  None = None
  MaxAhead = 3
  MaxUnseen = 2
SPECIFICATION Spec
INVARIANTS TypeOK StaticsAgree PingDue
PROPERTIES LinesSpec WatchSpec
