CONSTANTS
  auth_info = {"none", "password"}
  PasswordFits = TRUE
  MessageLen = 2
  MaxMessages = 4
SPECIFICATION Spec
CHECK_DEADLOCK FALSE
INVARIANTS
  HandshakeAgrees
  UserCanRely
