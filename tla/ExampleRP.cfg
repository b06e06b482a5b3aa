SPECIFICATION Spec
CONSTANTS
  Aliases = {"a", "b"}
  EnvAlias = "b"
  Modules = {"m1", "m2"}
  EncryptedModules = {"m2"}
  Traffic <- MCTraffic
  Handlers = {h1, h2}
  MaxLogins = 2
  MaxClients = 2
  None = None
INVARIANTS
  TypeOK
  LoginKept
  OneClientPerModule
PROPERTIES
  RequestsReturn
CHECK_DEADLOCK FALSE
