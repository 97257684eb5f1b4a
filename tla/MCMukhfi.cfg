CONSTANTS
  c1 = c1
  c2 = c2
  alice = alice
  bobby = bobby
  pass = pass
  other = other
  Blank = Blank
  Clients = {c1, c2}
  Usernames = {alice, Blank}
  Passwords = {pass}
  NoToken = NoToken
  Failed = Failed
  NotHashed = NotHashed
  NameLength <- Lengths
  AlphaNum = {alice}
  InitialUsers <- OneUser
  FirstWord <- NoSpaces
  Expiry = 1
  MaxTime = 0
  MaxTyped <- Talking
SPECIFICATION Spec
INVARIANTS
  SystemTypeOK
  AnsweredInOrder
  SpeakersLoggedIn
  
PROPERTIES
  KeepsPromises
CHECK_DEADLOCK FALSE
