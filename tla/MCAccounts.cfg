CONSTANTS
  c1 = c1
  c2 = c2
  alice = alice
  bobby = bobby
  pass = pass
  other = other
  Blank = Blank
  Clients = {c1, c2}
  Usernames = {alice, bobby, Blank}
  Passwords = {pass, other}
  NoToken = NoToken
  Failed = Failed
  NotHashed = NotHashed
  NameLength <- Lengths
  AlphaNum = {alice, bobby}
  InitialUsers <- NoUsers
  FirstWord <- NoSpaces
  Expiry = 1
  MaxTime = 0
  MaxTyped <- Registering
SPECIFICATION Spec
SYMMETRY Alike
INVARIANTS
  OneAccount
PROPERTIES
  KeepsPromises
CHECK_DEADLOCK FALSE
