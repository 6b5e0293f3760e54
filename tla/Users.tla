-------------------------------- MODULE Users --------------------------------
(***************************************************************************)
(* The users of the orchestrator: the in-memory provider that keeps them   *)
(* and writes them to a file, the HTTP handlers that change them, and the  *)
(* command line client with its stored token, through which operators sign *)
(* in and call the handlers.                                               *)
(*                                                                         *)
(* The provider's calls are atomic (its mutex); a handler that changes a   *)
(* field reads the user by one call and writes all of it back by another.  *)
(*                                                                         *)
(* Abstracted: a password's hash is the password; a token is the user and  *)
(* the role it was made for, and it may expire at any time; display names. *)
(*                                                                         *)
(* Init, Next and their like bear the users' name, and Create, Update and  *)
(* Delete too, so that one module can extend this one and those of other   *)
(* services.                                                               *)
(***************************************************************************)
EXTENDS Naturals, FiniteSets

CONSTANTS
  UserNames,
  Admin,         \* the one of the administrator that the configuration names
  Passwords,
  AdminPassword, \* the configured password of Admin
  Operators,     \* each with a command line client
  Nobody,        \* no user, no password
  MaxRequests,   \* bound on the commands that the operators run
  MaxFailures,   \* bound on the writes of the file that fail
  MaxServerStarts \* bound on the restarts of the server

\* What is assumed of the constants.
ASSUME UserAssumption ==
  /\ Admin \in UserNames /\ AdminPassword \in Passwords
  /\ Nobody \notin UserNames \cup Passwords
  /\ {MaxRequests, MaxFailures, MaxServerStarts} \subseteq Nat

VARIABLES
  users,     \* the users in memory
  userFile,  \* the users in the file
  call,      \* per operator: the request that the server works on
  ctl,       \* per operator: what the running command and its file hold
  requests, failures, serverStarts,
  unsaved,   \* history: the last write failed
  lastSet,   \* history: per user the password set last
  chosen     \* history: the users who have changed their password themselves

userVars == <<users, userFile, call, ctl, requests, failures, serverStarts, unsaved, lastSet,
              chosen>>

Account == [role : {"none", "user", "admin"}, enabled : BOOLEAN, mustChange : BOOLEAN,
            hash : Passwords \cup {Nobody}]
NoUser == [role |-> "none", enabled |-> FALSE, mustChange |-> FALSE, hash |-> Nobody]
Token == [sub : UserNames \cup {Nobody}, role : {"none", "user", "admin"}]
NoToken == [sub |-> Nobody, role |-> "none"]

ForAdmin == {"create", "remove", "disable", "setPassword", "setRole"}
ForAll == {"setName", "changePassword"}
Ops == ForAdmin \cup ForAll \cup {"login"}

UserCall == [op : Ops \cup {"none"}, user : UserNames \cup {Nobody}, old : Passwords \cup {Nobody},
         new : Passwords \cup {Nobody}, role : {"none", "user", "admin"}, token : Token,
         phase : {"sent", "read"}, copy : Account]
NoCall == [op |-> "none", user |-> Nobody, old |-> Nobody, new |-> Nobody, role |-> "none",
           token |-> NoToken, phase |-> "sent", copy |-> NoUser]

UserTypeOK ==
  /\ users \in [UserNames -> Account]
  /\ userFile \in [UserNames -> Account]
  /\ call \in [Operators -> UserCall]
  /\ ctl \in [Operators -> [cred : Token, fresh : Token]]
  /\ requests \in 0 .. MaxRequests
  /\ failures \in 0 .. MaxFailures
  /\ serverStarts \in 0 .. MaxServerStarts
  /\ unsaved \in BOOLEAN
  /\ lastSet \in [UserNames -> Passwords \cup {Nobody}]
  /\ chosen \subseteq UserNames

AdminAccount == [role |-> "admin", enabled |-> TRUE, mustChange |-> FALSE, hash |-> AdminPassword]

-----------------------------------------------------------------------------
(* The provider *)

Forgotten(changed) == users' = changed /\ UNCHANGED <<userFile, failures, unsaved>>

\* The file is replaced by renaming a complete one; an error is ignored.
persist(changed) ==
  /\ users' = changed
  /\ \/ /\ userFile' = changed
        /\ unsaved' = FALSE
        /\ UNCHANGED failures
     \/ /\ failures < MaxFailures
        /\ failures' = failures + 1
        /\ unsaved' = TRUE
        /\ UNCHANGED userFile

\* A user of the same name is replaced, and has no password any more.
CreateUser(u, role) ==
  /\ persist([users EXCEPT ![u] = [role |-> role, enabled |-> TRUE, mustChange |-> TRUE,
                                   hash |-> Nobody]])
  /\ lastSet' = [lastSet EXCEPT ![u] = Nobody]
  /\ chosen' = chosen \ {u}

AsGiven(u, account) == persist([users EXCEPT ![u] = account]) /\ UNCHANGED <<lastSet, chosen>>

\* Everything is taken from the given account but the password.
UpdateUser(u, account) ==
  /\ persist([users EXCEPT ![u] = [account EXCEPT !.hash = users[u].hash]])
  /\ UNCHANGED <<lastSet, chosen>>

DeleteUser(u) ==
  /\ persist([users EXCEPT ![u] = NoUser])
  /\ lastSet' = [lastSet EXCEPT ![u] = Nobody]
  /\ chosen' = chosen \ {u}

SetPassword(u, password) ==
  /\ persist([users EXCEPT ![u].hash = password, ![u].mustChange = FALSE])
  /\ lastSet' = [lastSet EXCEPT ![u] = password]

VerifyPassword(u, password) == users[u] # NoUser /\ users[u].hash = password

MayLogin(u, password) == users[u].enabled /\ VerifyPassword(u, password)

Unchanged == UNCHANGED <<users, userFile, failures, unsaved, lastSet, chosen>>

-----------------------------------------------------------------------------
(* The handlers *)

WorkingOn(c, op, phase) ==
  /\ call[c].op = op
  /\ call[c].phase = phase
  /\ UNCHANGED <<requests, serverStarts>>

\* auth and adminOnly let the request through to its handler.
Allowed(c) ==
  /\ call[c].token # NoToken
  /\ call[c].op \in ForAdmin => call[c].token.role = "admin"

Serving(c, op) == WorkingOn(c, op, "sent") /\ Allowed(c)

\* The answer ends the command.
Answered(c) ==
  /\ call' = [call EXCEPT ![c] = NoCall]
  /\ ctl' = [ctl EXCEPT ![c].fresh = NoToken]

\* The token has expired, the role does not suffice, or there is no such user.
Refused(c) ==
  /\ call[c].op # "none"
  /\ call[c].phase = "sent"
  /\ Answered(c)
  /\ Unchanged
  /\ UNCHANGED <<requests, serverStarts>>

handleUserCreate(c) ==
  Serving(c, "create") /\ CreateUser(call[c].user, call[c].role) /\ Answered(c)

handleUserRemove(c) == Serving(c, "remove") /\ DeleteUser(call[c].user) /\ Answered(c)

handleUserSetPassword(c) ==
  /\ Serving(c, "setPassword")
  /\ users[call[c].user] # NoUser
  /\ SetPassword(call[c].user, call[c].new)
  /\ Answered(c)
  /\ chosen' = chosen \ {call[c].user}

\* Get, before what is to be changed of the copy.
ReadUser(c, op) ==
  /\ Serving(c, op)
  /\ users[call[c].user] # NoUser
  /\ call' = [call EXCEPT ![c].phase = "read", ![c].copy = users[call[c].user]]
  /\ Unchanged
  /\ UNCHANGED ctl

\* Update: an error if the user is gone by now.
WriteUser(c, op, account) ==
  /\ WorkingOn(c, op, "read")
  /\ IF users[call[c].user] = NoUser THEN Unchanged ELSE UpdateUser(call[c].user, account)
  /\ Answered(c)

handleUserDisable(c) ==
  \/ ReadUser(c, "disable")
  \/ WriteUser(c, "disable", [call[c].copy EXCEPT !.enabled = FALSE])

handleUserSetRole(c) ==
  \/ ReadUser(c, "setRole")
  \/ WriteUser(c, "setRole", [call[c].copy EXCEPT !.role = call[c].role])

handleProfileSetName(c) ==
  \/ ReadUser(c, "setName")
  \/ WriteUser(c, "setName", call[c].copy)

\* The old password is checked by one call of the provider, the new one set by another.
VerifyOld(c) ==
  /\ Serving(c, "changePassword")
  /\ VerifyPassword(call[c].user, call[c].old)
  /\ call' = [call EXCEPT ![c].phase = "read"]
  /\ Unchanged
  /\ UNCHANGED ctl

\* A login that demanded the change is complete now: its token is stored.
SetNew(c) ==
  /\ WorkingOn(c, "changePassword", "read")
  /\ IF users[call[c].user] = NoUser THEN Unchanged
     ELSE SetPassword(call[c].user, call[c].new) /\ chosen' = chosen \cup {call[c].user}
  /\ call' = [call EXCEPT ![c] = NoCall]
  /\ ctl' = [ctl EXCEPT ![c].fresh = NoToken,
                        ![c].cred = IF ctl[c].fresh = NoToken \/ users[call[c].user] = NoUser
                                    THEN @ ELSE ctl[c].fresh]

handleProfileSetPassword(c) == VerifyOld(c) \/ SetNew(c)

-----------------------------------------------------------------------------
(* The command line client *)

Sent(op, u, old, new, role, token) ==
  [op |-> op, user |-> u, old |-> old, new |-> new, role |-> role, token |-> token,
   phase |-> "sent", copy |-> NoUser]

Run(c, request) ==
  /\ call[c] = NoCall
  /\ requests < MaxRequests
  /\ requests' = requests + 1
  /\ call' = [call EXCEPT ![c] = request]
  /\ Unchanged
  /\ UNCHANGED <<ctl, serverStarts>>

UserCommand(c) ==
  \E u \in UserNames, op \in ForAdmin :
     \/ op \in {"remove", "disable"} /\ Run(c, Sent(op, u, Nobody, Nobody, "none", ctl[c].cred))
     \/ /\ op \in {"create", "setRole"}
        /\ \E role \in {"user", "admin"} : Run(c, Sent(op, u, Nobody, Nobody, role, ctl[c].cred))
     \/ /\ op = "setPassword"
        /\ \E p \in Passwords : Run(c, Sent(op, u, Nobody, p, "none", ctl[c].cred))

ProfileCommand(c) ==
  LET self == ctl[c].cred.sub
  IN /\ self # Nobody
     /\ \/ Run(c, Sent("setName", self, Nobody, Nobody, "none", ctl[c].cred))
        \/ \E p, q \in Passwords :
              Run(c, Sent("changePassword", self, p, q, "none", ctl[c].cred))

LoginCommand(c) ==
  \E u \in UserNames, p \in Passwords : Run(c, Sent("login", u, p, Nobody, "none", NoToken))

\* The server's answer to a login, and what the command does with it.  A password that must
\* be changed is changed with the token that the command has read when it was started.
handleLogin(c) ==
  LET u == call[c].user
      token == [sub |-> u, role |-> users[u].role]
  IN /\ WorkingOn(c, "login", "sent")
     /\ MayLogin(u, call[c].old)
     /\ IF users[u].mustChange
        THEN /\ \E q \in Passwords :
                   call' = [call EXCEPT ![c] = Sent("changePassword", ctl[c].cred.sub,
                                                    call[c].old, q, "none", ctl[c].cred)]
             /\ ctl' = [ctl EXCEPT ![c].fresh = token]
        ELSE call' = [call EXCEPT ![c] = NoCall] /\ ctl' = [ctl EXCEPT ![c].cred = token]
     /\ Unchanged

-----------------------------------------------------------------------------
\* The process ends, with all its requests, and is started again.
ServerRestarts ==
  LET found == IF userFile[Admin] = NoUser THEN [userFile EXCEPT ![Admin] = AdminAccount]
               ELSE userFile
  IN /\ serverStarts < MaxServerStarts
     /\ serverStarts' = serverStarts + 1
     /\ users' = found
     /\ userFile' = found
     /\ unsaved' = FALSE
     /\ lastSet' = IF unsaved THEN [u \in UserNames |-> found[u].hash]
                   ELSE [lastSet EXCEPT ![Admin] =
                           IF userFile[Admin] = NoUser THEN AdminPassword ELSE @]
     /\ call' = [c \in Operators |-> NoCall]
     /\ ctl' = [c \in Operators |-> [ctl[c] EXCEPT !.fresh = NoToken]]
     /\ UNCHANGED <<requests, failures, chosen>>

\* One client is signed in as the administrator.
UserInit ==
  /\ users = [u \in UserNames |-> IF u = Admin THEN AdminAccount ELSE NoUser]
  /\ userFile = users
  /\ call = [c \in Operators |-> NoCall]
  /\ \E signedIn \in Operators :
        ctl = [c \in Operators |->
                 [cred |-> IF c = signedIn THEN [sub |-> Admin, role |-> "admin"] ELSE NoToken,
                  fresh |-> NoToken]]
  /\ requests = 0 /\ failures = 0 /\ serverStarts = 0
  /\ unsaved = FALSE
  /\ lastSet = [u \in UserNames |-> users[u].hash]
  /\ chosen = {Admin}

UserNext ==
  \/ \E c \in Operators :
        \/ UserCommand(c) \/ ProfileCommand(c) \/ LoginCommand(c)
        \/ handleLogin(c) \/ handleUserCreate(c) \/ handleUserRemove(c)
        \/ handleUserSetPassword(c) \/ handleUserDisable(c) \/ handleUserSetRole(c)
        \/ handleProfileSetName(c) \/ handleProfileSetPassword(c) \/ Refused(c)
  \/ ServerRestarts

UserSpec == UserInit /\ [][UserNext]_userVars
-----------------------------------------------------------------------------
(* Properties *)

AllKept == \A u \in UserNames : users[u] # NoUser => users'[u] = users[u]

\* A user's password is the one set last: no handler that writes back an account it has read
\* before puts an older one back (UpdateUser, handleUserSetRole, handleUserDisable). A restart
\* brings back every user as the last answered request left it, unless a write of the file
\* had failed (persist, loadFromDisk).
UsersAreKept ==
  /\ [](\A u \in UserNames : users[u].hash = lastSet[u])
  /\ [][serverStarts' # serverStarts /\ ~unsaved => AllKept]_userVars

\* "On first login (via baobotctl login or the web UI), the user is required to change their
\* password" (PRODUCT.md): who is signed in has chosen the password themselves.
FirstLoginChangesPassword == \A c \in Operators : ctl[c].cred.sub \in chosen \cup {Nobody}
=============================================================================
