CONSTANTS
  c1 = c1
  c2 = c2
  alice = alice
  bobby = bobby
  pass = pass
  other = other
  Blank = Blank
  Clients = {c1, c2}
  Usernames = {alice, bobby, Blank}
  Passwords = {pass}
  NoToken = NoToken
  Failed = Failed
  NotHashed = NotHashed
  NameLength <- Lengths
  AlphaNum = {alice}
  InitialUsers <- OneUser
  FirstWord <- TwoWords
  Expiry = 1
  MaxTime = 1
  MaxTyped <- Answering
SPECIFICATION FairSpec
INVARIANTS
  
  ConversesLoggedIn
PROPERTIES
  
  
  QuitNoticed
  EndNoticed
CHECK_DEADLOCK FALSE
