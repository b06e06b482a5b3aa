SPECIFICATION Spec
CONSTANTS
  Logins = {1, 2}
  Codes = {1, 2}
  Browsers = {b1, b2}
  NoBrowser = NoBrowser
  Handlers = {h1, h2}
  Configs <- AllConfigs
INVARIANT TypeOK
INVARIANT OneResult
INVARIANT ResultBelongsToLogin
INVARIANT NoForeignCodeSpent
\* ends once every login and callback is over
CHECK_DEADLOCK FALSE
