SPECIFICATION DetectorSpec
CONSTANTS
  BUFFER_SIZE = 3
  MaxBytes = 6
  Char = {"a", "b"}
  m_magic_string <- MCMagicString
  m_login_pattern <- MCLoginPattern
  m_remote_cmd = TRUE
  MaxText = 5
INVARIANT TypeOK
INVARIANT HandshakeDetected
INVARIANT CommandSentOnce
PROPERTY ImplementsFifo
PROPERTY Drains
CHECK_DEADLOCK FALSE
