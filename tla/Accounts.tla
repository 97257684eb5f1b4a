------------------------------ MODULE Accounts ------------------------------
(***************************************************************************)
(* RegistrationLogin and HelperFunctions (server/include/db_regLogin.h and *)
(* db_regLoginHelper.h): the accounts in the users collection of the       *)
(* MongoDB database, and what a registration or a login attempt can come   *)
(* to. Each is one call on the server's main thread, the only one that     *)
(* writes the collection, so it is one step here; every query in it may    *)
(* throw. A password is the SHA-256 hash the client sends.                 *)
(***************************************************************************)
EXTENDS Protocol

CONSTANTS NameLength,  \* the length of each username
          AlphaNum,    \* those that match ^[A-Za-z0-9]+$
          NotHashed,   \* a password that is not the hash of anything
          InitialUsers \* the accounts left by earlier runs of the server

Documents == [username : Usernames, password : Passwords]
Document(u, p) == [username |-> u, password |-> p]

ASSUME AccountsAssumption ==
  /\ NameLength \in [Usernames -> Nat] /\ NameLength[Blank] = 0
  /\ AlphaNum \subseteq Usernames
  /\ NotHashed \notin Passwords
  /\ InitialUsers \in Seq(Documents)

VARIABLE users \* the documents of the collection

\* RegistrationLoginCodes: each is a bit, so | of two different ones is +.
Success                   == 1
UsernameLong              == 2
UsernameShort             == 4
UsernameInvalidCharacters == 8
PasswordNotHashed         == 32
UserDoesNotExist          == 64
UserAlreadyExists         == 128
PasswordNoMatchFound      == 256
DatabaseError             == 512

ValidateUsername(u) ==
  CASE NameLength[u] > 20  -> UsernameLong
    [] NameLength[u] <= 4  -> UsernameShort
    [] NameLength[u] \in 5..20 /\ u \notin AlphaNum -> UsernameInvalidCharacters
    [] OTHER -> Success

ValidatePassword(p) == IF p \in Passwords THEN Success ELSE PasswordNotHashed

Acceptable(u, p) == ValidateUsername(u) = Success /\ ValidatePassword(p) = Success

\* The two codes together: of an acceptable half it holds the Success bit.
Rejection(u, p) == ValidateUsername(u) + ValidatePassword(p)

Registered(u) == \E i \in DOMAIN users : users[i].username = u

\* Mutant: the second query of LoginUser asks for the password only.
MatchesPassword(u, p) == \E i \in DOMAIN users : u \in Usernames /\ users[i].password = p

Matches(u, p) == \E i \in DOMAIN users : users[i] = Document(u, p)

\* The code LoginUser returns when it is not a token, or Success for one.
LoginUser(u, p) ==
  IF ~Acceptable(u, p) THEN {Rejection(u, p)}
  ELSE {DatabaseError} \cup
       {CASE Matches(u, p)  -> Success
          [] Registered(u) /\ ~Matches(u, p) -> PasswordNoMatchFound
          [] OTHER -> UserAlreadyExists}

\* Mutant: insert without looking for the username first.
RegisterUserUnasked(u, p) ==
  IF ~Acceptable(u, p) THEN {[code |-> Rejection(u, p), users |-> users]}
  ELSE {[code |-> DatabaseError, users |-> users],
        [code |-> Success, users |-> Append(users, Document(u, p))]}

\* What RegisterUser returns and leaves in the collection. An insert that
\* throws may have been carried out (the reply of the database was lost).
RegisterUser(u, p) ==
  IF ~Acceptable(u, p) THEN {[code |-> Rejection(u, p), users |-> users]}
  ELSE {[code |-> DatabaseError, users |-> users]} \cup
       IF Registered(u) THEN {[code |-> UserAlreadyExists, users |-> users]}
       ELSE LET added == Append(users, Document(u, p))
            IN  {[code |-> c, users |-> added] : c \in {Success, DatabaseError}}
=============================================================================
