------------------------------ MODULE AdminAuth ------------------------------
(***************************************************************************)
(* AdminAuthService (src/src/auth/admin-auth.service.ts): the start of a   *)
(* server creates the administrator from admin_pass.txt, which it writes   *)
(* itself when there is none; a login compares a password with the hash of *)
(* the row; a change of password compares, hashes and saves.  The handlers *)
(* are those of src/src/admin/admin.controller.ts.                         *)
(*                                                                         *)
(* A hash stands for its password (bcrypt.compare is equality), and the    *)
(* row of admin_users, of which username is unique, for that hash; a login *)
(* under another name is one with a wrong password.  The handlers suspend  *)
(* in bcrypt and at every statement; existsSync, readFileSync and          *)
(* writeFileSync do not, but several servers may share STORAGE_DIR and a   *)
(* server may be killed between two system calls.                          *)
(***************************************************************************)
CONSTANTS
  Servers,         \* processes started on one STORAGE_DIR
  Calls,           \* logins and changes of password
  Generated,       \* passwords crypto.randomBytes draws
  Chosen,          \* passwords the administrator may put into admin_pass.txt
  Replacements,    \* passwords the administrator may change to
  IgnoresUndefined,  \* whether findOne drops a condition { id: undefined }
  Empty,           \* the content of a file without any
  NoValue

Initial == Generated \cup Chosen
Passwords == Initial \cup Replacements

ASSUME ContentsAssumption == Empty # NoValue /\ {Empty, NoValue} \cap Passwords = {}
ASSUME KindsAssumption == Initial \cap Replacements = {} /\ Generated \cap Chosen = {}
ASSUME LookupAssumption == IgnoresUndefined \in BOOLEAN

VARIABLES
  boot,       \* where each server is: onModuleInit, running, or not there
  password,   \* the local variable of onModuleInit
  file,       \* the content of admin_pass.txt, NoValue if there is no file
  account,    \* the passwordHash of the row, NoValue if there is no row
  session,    \* whether the browser has a cookie from a login
  pc,         \* where each call is
  at,         \* the server that handles it
  presented,  \* the password it presents
  new,        \* the password to change to, NoValue for a login
  seen        \* the passwordHash of the entity its findOne returned

bootVars == <<boot, password, file>>
inputs   == <<at, presented, new>>
callVars == <<session, pc, inputs, seen>>
vars == <<bootVars, account, callVars>>

Starting == {"file", "open", "write", "hash"}
Open     == {"compare", "hash"}
Answered == {"accepted", "changed", "refused", "rejected", "error"}

TypeOK ==
  /\ boot \in [Servers -> {"down", "failed", "running"} \cup Starting]
  /\ password \in [Servers -> Initial \cup {NoValue}]
  /\ file \in Initial \cup {Empty, NoValue}
  /\ account \in Passwords \cup {NoValue}
  /\ session \in BOOLEAN
  /\ pc \in [Calls -> {"idle", "lost"} \cup Open \cup Answered]
  /\ at \in [Calls -> Servers \cup {NoValue}]
  /\ presented \in [Calls -> Passwords \cup {NoValue}]
  /\ new \in [Calls -> Replacements \cup {NoValue}]
  /\ seen \in [Calls -> Passwords \cup {NoValue}]

Init ==
  /\ boot = [s \in Servers |-> "down"]
  /\ password = [s \in Servers |-> NoValue]
  /\ file \in Chosen \cup {NoValue}
  /\ account = NoValue
  /\ session = FALSE
  /\ pc = [c \in Calls |-> "idle"]
  /\ at = [c \in Calls |-> NoValue]
  /\ presented = [c \in Calls |-> NoValue]
  /\ new = [c \in Calls |-> NoValue]
  /\ seen = [c \in Calls |-> NoValue]

-------------------------------------------------------------------------------
(* onModuleInit *)

Boot(s, stage) == boot' = [boot EXCEPT ![s] = stage]

Stopped(s) == boot[s] \in {"down", "failed"}

(* adminRepo.count() finds the row.                                        *)
CountOne(s) ==
  /\ Stopped(s)
  /\ account # NoValue
  /\ Boot(s, "running")
  /\ UNCHANGED <<password, file, account, callVars>>

(* Mutant: the account is created whether or not there is one.             *)
CountIgnored(s) ==
  /\ Stopped(s)
  /\ Boot(s, "file")
  /\ UNCHANGED <<password, file, account, callVars>>

CountNone(s) ==
  /\ Stopped(s)
  /\ account = NoValue
  /\ Boot(s, "file")
  /\ UNCHANGED <<password, file, account, callVars>>

(* Mutant: the content is not looked at.                                   *)
ReadAny(s) ==
  /\ boot[s] = "file"
  /\ file # NoValue
  /\ password' = [password EXCEPT ![s] = file]
  /\ Boot(s, "hash")
  /\ UNCHANGED <<file, account, callVars>>

ReadFile(s) ==
  /\ boot[s] = "file"
  /\ file \in Initial
  /\ password' = [password EXCEPT ![s] = file]
  /\ Boot(s, "hash")
  /\ UNCHANGED <<file, account, callVars>>

(* Logged as an error; the server runs without an administrator.           *)
FileIsEmpty(s) ==
  /\ boot[s] = "file"
  /\ file = Empty
  /\ Boot(s, "running")
  /\ UNCHANGED <<password, file, account, callVars>>

DrawPassword(s) ==
  /\ boot[s] = "file"
  /\ file = NoValue
  /\ \E p \in Generated : password' = [password EXCEPT ![s] = p]
  /\ Boot(s, "open")
  /\ UNCHANGED <<file, account, callVars>>

(* writeFileSync opens the file, empty, whoever may have written to it     *)
(* since existsSync, ...                                                   *)
OpenFile(s) ==
  /\ boot[s] = "open"
  /\ file' = Empty
  /\ Boot(s, "write")
  /\ UNCHANGED <<password, account, callVars>>

(* ... and then writes.                                                    *)
WriteFile(s) ==
  /\ boot[s] = "write"
  /\ file' = password[s]
  /\ Boot(s, "hash")
  /\ UNCHANGED <<password, account, callVars>>

(* Mutant: the row is written whether or not there is one.                 *)
SaveAnyway(s) ==
  /\ boot[s] = "hash"
  /\ account' = password[s]
  /\ Boot(s, "running")
  /\ UNCHANGED <<password, file, callVars>>

(* bcrypt.hash, then adminRepo.save.                                       *)
SaveAdmin(s) ==
  /\ boot[s] = "hash"
  /\ account = NoValue
  /\ account' = password[s]
  /\ Boot(s, "running")
  /\ UNCHANGED <<password, file, callVars>>

(* Mutant: the rejected INSERT ends nothing.                               *)
StartHangs(s) ==
  /\ boot[s] = "hash"
  /\ account # NoValue
  /\ UNCHANGED vars

(* The unique username: another server was first.                          *)
SaveConflicts(s) ==
  /\ boot[s] = "hash"
  /\ account # NoValue
  /\ Boot(s, "failed")
  /\ UNCHANGED <<password, file, account, callVars>>

(* Mutant: the exception is caught, and the server goes on.                *)
StartGoesOn(s) ==
  /\ boot[s] \in Starting
  /\ Boot(s, "running")
  /\ UNCHANGED <<password, file, account, callVars>>

(* A statement is rejected, or the file cannot be read, opened or written: *)
(* the exception ends the start.                                           *)
StartFails(s) ==
  /\ boot[s] \in Starting
  /\ Boot(s, "failed")
  /\ UNCHANGED <<password, file, account, callVars>>

(* The process stops or is killed; its calls are cut off.                  *)
Stop(s) ==
  /\ ~Stopped(s)
  /\ Boot(s, "down")
  /\ password' = [password EXCEPT ![s] = NoValue]
  /\ pc' = [c \in Calls |-> IF at[c] = s /\ pc[c] \in Open THEN "lost" ELSE pc[c]]
  /\ UNCHANGED <<file, account, session, inputs, seen>>

-------------------------------------------------------------------------------
(* The administrator and the file, while no server is starting.            *)

PutFile ==
  /\ \A s \in Servers : boot[s] \notin Starting
  /\ file' \in Chosen
  /\ UNCHANGED <<boot, password, account, callVars>>

RemoveFile ==
  /\ \A s \in Servers : boot[s] \notin Starting
  /\ file # NoValue
  /\ file' = NoValue
  /\ UNCHANGED <<boot, password, account, callVars>>

-------------------------------------------------------------------------------
(* validateAdmin and changePassword *)

Goto(c, where) == pc' = [pc EXCEPT ![c] = where]

(* A call comes in, with what its form says.                               *)
Arrive(c, s, p, n) ==
  /\ pc[c] = "idle"
  /\ boot[s] = "running"
  /\ at' = [at EXCEPT ![c] = s]
  /\ presented' = [presented EXCEPT ![c] = p]
  /\ new' = [new EXCEPT ![c] = n]

(* findOne returns the row.                                                *)
Select(c) ==
  /\ account # NoValue
  /\ seen' = [seen EXCEPT ![c] = account]
  /\ Goto(c, "compare")

(* There is no row.                                                        *)
SelectNothing(c) ==
  /\ account = NoValue
  /\ Goto(c, "refused")
  /\ UNCHANGED seen

Login(c, s, p) ==
  /\ Arrive(c, s, p, NoValue)
  /\ Select(c) \/ SelectNothing(c)
  /\ UNCHANGED <<bootVars, account, session>>

(* user.id of a JwtPayload is undefined: findOne has no condition left, or *)
(* rejects it, and the page shows the exception.                           *)
ChangePassword(c, s, p, n) ==
  /\ session
  /\ Arrive(c, s, p, n)
  /\ IF IgnoresUndefined THEN Select(c) \/ SelectNothing(c)
                         ELSE Goto(c, "rejected") /\ UNCHANGED seen
  /\ UNCHANGED <<bootVars, account, session>>

(* newPassword is not confirmPassword, or the database rejects findOne.    *)
CallFails(c, s, p, n) ==
  /\ session \/ n = NoValue
  /\ Arrive(c, s, p, n)
  /\ Goto(c, "error")
  /\ UNCHANGED <<bootVars, account, session, seen>>

(* Mutant: the comparison is with the row as it is now, not with the       *)
(* entity that was read.                                                   *)
CompareAgain(c) == presented[c] = account

Compare(c) == presented[c] = seen[c]

(* generateToken: the browser gets its cookie.                             *)
AcceptLogin(c) ==
  /\ pc[c] = "compare"
  /\ new[c] = NoValue
  /\ Compare(c)
  /\ Goto(c, "accepted")
  /\ session' = TRUE
  /\ UNCHANGED <<bootVars, account, inputs, seen>>

AcceptOldPassword(c) ==
  /\ pc[c] = "compare"
  /\ new[c] # NoValue
  /\ Compare(c)
  /\ Goto(c, "hash")
  /\ UNCHANGED <<bootVars, account, session, inputs, seen>>

(* Mutant: nobody answers.                                                 *)
RefuseSilently(c) ==
  /\ pc[c] = "compare"
  /\ ~Compare(c)
  /\ UNCHANGED vars

RefusePassword(c) ==
  /\ pc[c] = "compare"
  /\ ~Compare(c)
  /\ Goto(c, "refused")
  /\ UNCHANGED <<bootVars, account, session, inputs, seen>>

(* bcrypt.hash, then the save of the entity, whatever the row holds now.   *)
SaveNewPassword(c) ==
  /\ pc[c] = "hash"
  /\ account' = new[c]
  /\ Goto(c, "changed")
  /\ UNCHANGED <<bootVars, session, inputs, seen>>

(* The save is rejected.                                                   *)
SaveFails(c) ==
  /\ pc[c] = "hash"
  /\ Goto(c, "error")
  /\ UNCHANGED <<bootVars, account, session, inputs, seen>>

(* The cookie is cleared or is eight hours old.                            *)
Logout ==
  /\ session
  /\ session' = FALSE
  /\ UNCHANGED <<bootVars, account, pc, inputs, seen>>

-------------------------------------------------------------------------------
StartUp(s) ==
  \/ CountOne(s) \/ CountNone(s)
  \/ ReadFile(s) \/ FileIsEmpty(s) \/ DrawPassword(s) \/ OpenFile(s) \/ WriteFile(s)
  \/ SaveAdmin(s) \/ SaveConflicts(s)

Submit(c, s, p) ==
  \/ Login(c, s, p)
  \/ \E n \in Replacements : ChangePassword(c, s, p, n)
  \/ \E n \in Replacements \cup {NoValue} : CallFails(c, s, p, n)

Handle(c) ==
  \/ AcceptLogin(c) \/ AcceptOldPassword(c) \/ RefusePassword(c) \/ SaveNewPassword(c)

Next ==
  \/ \E s \in Servers : StartUp(s) \/ StartFails(s) \/ Stop(s)
  \/ PutFile \/ RemoveFile \/ Logout
  \/ \E c \in Calls : \/ \E s \in Servers, p \in Passwords : Submit(c, s, p)
                      \/ Handle(c) \/ SaveFails(c)

Spec == Init /\ [][Next]_vars

(* A server that is starting goes on, and so does every handler: bcrypt    *)
(* and the driver answer.  Nothing has to fail, stop or be started.        *)
FairSpec ==
  /\ Spec
  /\ \A s \in Servers : WF_vars(boot[s] \in Starting /\ StartUp(s))
  /\ \A c \in Calls : WF_vars(Handle(c))

-------------------------------------------------------------------------------
(* Properties *)

(* The log line of onModuleInit sends the administrator to admin_pass.txt: *)
(* as long as the account has its first password and nobody has replaced   *)
(* or removed the file, the file says what it is, although the start may   *)
(* have been cut off anywhere and begun again.  For one server: of two     *)
(* that start together one may overwrite the file of the other.            *)
InitialPasswordOnFile ==
  account \in Initial /\ file \in Generated \cup {Empty} => file = account

(* A change that was answered with success stays: neither a restart with   *)
(* the old file nor a server that was starting meanwhile brings a first    *)
(* password back, only another change replaces the new one.                *)
ChangeIsKept ==
  (\E c \in Calls : pc[c] = "changed") =>
    \E c \in Calls : pc[c] = "changed" /\ account = new[c]

(* What a call was told before its comparison ends: whether the password   *)
(* it read is the one it presents.                                         *)
AnswerOf(c) ==
  CASE pc[c] \in {"idle", "rejected"} \/ (pc[c] = "error" /\ seen[c] = NoValue) -> "none"
    [] pc[c] = "accepted" -> "right"
    [] pc[c] = "refused"  -> "wrong"
    [] pc[c] = "changed"  -> "changed"
    [] OTHER -> IF presented[c] = seen[c] THEN "right" ELSE "wrong"

Told(c) == AnswerOf(c) # "none"

Account == INSTANCE AdminAccount WITH
  presented <- [c \in Calls |-> IF Told(c) THEN presented[c] ELSE NoValue],
  new       <- [c \in Calls |-> IF Told(c) THEN new[c] ELSE NoValue],
  answer    <- [c \in Calls |-> AnswerOf(c)]

(* The SELECT, the comparison that takes its time and the save behave as   *)
(* an account that decides at once: a login or change is accepted exactly  *)
(* if it presented the password in force when it read the row, only a call *)
(* so accepted replaces the password, and a start replaces nobody's.       *)
ImplementsAccount == Account!Spec

(* Every start ends, with the server running or its process over, however  *)
(* many servers want to create the administrator.                          *)
EveryStartEnds == \A s \in Servers : boot[s] \in Starting ~> boot[s] \notin Starting

(* Every login and change is answered or cut off.                          *)
EveryCallEnds == \A c \in Calls : pc[c] \in Open ~> pc[c] \notin Open

(* admin-user.entity.ts:10: an administrator is created automatically at   *)
(* the start: a server that runs has one.                                  *)
AccountAfterStart == \A s \in Servers : boot[s] = "running" => account # NoValue

(* Once there is an account there is one for good, and the start of a      *)
(* server ends without one only if it has found an empty admin_pass.txt:   *)
(* no other failure on the way lets it run with nobody to log in.          *)
AccountUnlessFileEmpty ==
  [][/\ account # NoValue => account' # NoValue
     /\ \A s \in Servers : boot[s] # "running" /\ boot'[s] = "running" =>
                            account' # NoValue \/ file = Empty]_vars

(* admin-auth.service.ts:110: a change is refused if the old password is   *)
(* wrong; what is refused without a comparison cannot have been right.     *)
RefusedOnlyIfWrong ==
  [][\A c \in Calls : pc[c] = "idle" /\ pc'[c] \in {"refused", "rejected"}
                        => presented'[c] # account]_vars

-------------------------------------------------------------------------------
(* The invariant behind them *)

StartsHavePasswords ==
  \A s \in Servers : boot[s] \in {"open", "write", "hash"} => password[s] \in Initial

(* What each stage of a call has established, and nothing takes back.      *)
CallsHaveRead ==
  \A c \in Calls :
    /\ pc[c] = "idle" => seen[c] = NoValue
    /\ pc[c] \in Open \cup {"accepted", "changed", "lost"} =>
         presented[c] \in Passwords /\ seen[c] \in Passwords
    /\ pc[c] \in {"hash", "accepted", "changed"} => presented[c] = seen[c]
    /\ pc[c] \in {"hash", "changed"} => new[c] \in Replacements

Inductive == TypeOK /\ StartsHavePasswords /\ CallsHaveRead /\ ChangeIsKept

(* With one server: while it starts there is neither an account nor a call *)
(* that could change it, and the file holds what it is about to save.      *)
StartsAlone ==
  /\ \A c \in Calls : pc[c] \in Open => at[c] \in Servers /\ boot[at[c]] = "running"
  /\ \A s \in Servers :
       /\ boot[s] \in Starting => account = NoValue
       /\ boot[s] \in {"open", "write"} => password[s] \in Generated
       /\ boot[s] = "hash" => file = password[s]

AloneInductive == Inductive /\ StartsAlone /\ InitialPasswordOnFile
===============================================================================
