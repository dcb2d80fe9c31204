--------------------------- MODULE AdminAuthProofs ---------------------------
(***************************************************************************)
(* Theorems about AdminAuth, for every set of servers, calls and           *)
(* passwords.  Those about the file are for one server, as the code is     *)
(* run; those about the account for any number.                            *)
(***************************************************************************)
EXTENDS AdminAuth, TLAPS

(* No password is taken for the absence of one, or for an empty file.      *)
LEMMA Contents ==
  /\ NoValue \notin Passwords /\ Empty \notin Passwords /\ Empty # NoValue
  /\ NoValue \notin Initial /\ Empty \notin Initial /\ NoValue \notin Replacements
  /\ Initial \subseteq Passwords /\ Replacements \subseteq Passwords
  /\ Generated \subseteq Initial /\ Chosen \subseteq Initial
BY ContentsAssumption DEF Passwords, Initial

-------------------------------------------------------------------------------
(* The invariant for any number of servers *)

(* Nothing has happened at the start.                                      *)
LEMMA InitInductive == Init => Inductive
BY Contents DEF Init, Inductive, TypeOK, StartsHavePasswords, CallsHaveRead, ChangeIsKept,
                Open

(* The stages of a start that leave the account alone.                     *)
LEMMA StartStep ==
  ASSUME Inductive, NEW s \in Servers,
         \/ CountOne(s) \/ CountNone(s) \/ ReadFile(s) \/ FileIsEmpty(s)
         \/ DrawPassword(s) \/ OpenFile(s) \/ WriteFile(s) \/ SaveConflicts(s)
         \/ StartFails(s)
  PROVE  Inductive'
<1>1. CallsHaveRead' /\ ChangeIsKept'
  BY DEF Inductive, CallsHaveRead, ChangeIsKept, CountOne, CountNone, ReadFile, FileIsEmpty,
         DrawPassword, OpenFile, WriteFile, SaveConflicts, StartFails, callVars, inputs
<1>2. UNCHANGED <<account, session, pc, at, presented, new, seen>>
  BY DEF CountOne, CountNone, ReadFile, FileIsEmpty, DrawPassword, OpenFile, WriteFile,
         SaveConflicts, StartFails, callVars, inputs
<1>3. CASE CountOne(s) \/ CountNone(s) \/ FileIsEmpty(s) \/ SaveConflicts(s) \/ StartFails(s)
  <2>1. TypeOK' /\ StartsHavePasswords'
    BY <1>2, <1>3 DEF Inductive, TypeOK, StartsHavePasswords, CountOne, CountNone, FileIsEmpty,
                      SaveConflicts, StartFails, Boot, Starting
  <2> QED
    BY <1>1, <2>1 DEF Inductive
<1>4. CASE ReadFile(s) \/ DrawPassword(s)
  <2>1. TypeOK' /\ StartsHavePasswords'
    BY <1>2, <1>4, Contents DEF Inductive, TypeOK, StartsHavePasswords, ReadFile, DrawPassword,
                                Boot, Starting
  <2> QED
    BY <1>1, <2>1 DEF Inductive
<1>5. CASE OpenFile(s) \/ WriteFile(s)
  <2>1. TypeOK' /\ StartsHavePasswords'
    BY <1>2, <1>5, Contents DEF Inductive, TypeOK, StartsHavePasswords, OpenFile, WriteFile,
                                Boot, Starting
  <2> QED
    BY <1>1, <2>1 DEF Inductive
<1> QED
  BY <1>3, <1>4, <1>5

(* The row is written only while there is none, so after no change.        *)
LEMMA SaveAdminStep ==
  ASSUME Inductive, NEW s \in Servers, SaveAdmin(s)
  PROVE  Inductive'
<1>1. TypeOK' /\ StartsHavePasswords'
  BY Contents DEF Inductive, TypeOK, StartsHavePasswords, SaveAdmin, Boot, callVars, inputs
<1>2. CallsHaveRead'
  BY DEF Inductive, CallsHaveRead, SaveAdmin, callVars, inputs
<1>3. \A c \in Calls : pc[c] # "changed"
  BY Contents DEF Inductive, ChangeIsKept, CallsHaveRead, SaveAdmin
<1>4. ChangeIsKept'
  BY <1>3 DEF ChangeIsKept, SaveAdmin, callVars, inputs
<1> QED
  BY <1>1, <1>2, <1>4 DEF Inductive

(* A process that stops, the administrator's hand on the file, a logout.   *)
LEMMA OutsideStep ==
  ASSUME Inductive, (\E s \in Servers : Stop(s)) \/ PutFile \/ RemoveFile \/ Logout
  PROVE  Inductive'
<1>1. CASE \E s \in Servers : Stop(s)
  <2> PICK s \in Servers : Stop(s)
    BY <1>1
  <2>1. TypeOK' /\ StartsHavePasswords'
    BY DEF Inductive, TypeOK, StartsHavePasswords, Stop, Boot, Open, inputs
  <2>2. CallsHaveRead'
    BY DEF Inductive, TypeOK, CallsHaveRead, Stop, Open, inputs
  <2>3. ChangeIsKept'
    BY DEF Inductive, TypeOK, ChangeIsKept, Stop, Open, inputs
  <2> QED
    BY <2>1, <2>2, <2>3 DEF Inductive
<1>2. CASE PutFile \/ RemoveFile \/ Logout
  BY <1>2, Contents DEF Inductive, TypeOK, StartsHavePasswords, CallsHaveRead, ChangeIsKept,
       PutFile, RemoveFile, Logout, bootVars, callVars, inputs
<1> QED
  BY <1>1, <1>2

(* A call that comes in has read the row, or has its answer.               *)
LEMMA SubmitStep ==
  ASSUME Inductive, NEW c \in Calls, NEW s \in Servers, NEW p \in Passwords, Submit(c, s, p)
  PROVE  Inductive'
<1>1. PICK n \in Replacements \cup {NoValue} :
        /\ Arrive(c, s, p, n)
        /\ UNCHANGED <<bootVars, account, session>>
        /\ \/ account # NoValue /\ Goto(c, "compare") /\ seen' = [seen EXCEPT ![c] = account]
           \/ Goto(c, "refused") /\ UNCHANGED seen
           \/ Goto(c, "rejected") /\ UNCHANGED seen
           \/ Goto(c, "error") /\ UNCHANGED seen
  BY DEF Submit, Login, ChangePassword, CallFails, Select, SelectNothing
<1>2. TypeOK'
  BY <1>1 DEF Inductive, TypeOK, Arrive, Goto, bootVars, Open, Answered
<1>3. StartsHavePasswords'
  BY <1>1 DEF Inductive, StartsHavePasswords, bootVars
<1>4. CallsHaveRead'
  BY <1>1 DEF Inductive, TypeOK, CallsHaveRead, Arrive, Goto, Open
<1>5. ChangeIsKept'
  BY <1>1 DEF Inductive, TypeOK, ChangeIsKept, Arrive, Goto
<1> QED
  BY <1>2, <1>3, <1>4, <1>5 DEF Inductive

(* The comparison decides what the entity that was read says.              *)
LEMMA CompareStep ==
  ASSUME Inductive, NEW c \in Calls,
         AcceptLogin(c) \/ AcceptOldPassword(c) \/ RefusePassword(c) \/ SaveFails(c)
  PROVE  Inductive'
<1>1. TypeOK' /\ StartsHavePasswords'
  BY DEF Inductive, TypeOK, StartsHavePasswords, AcceptLogin, AcceptOldPassword, RefusePassword,
         SaveFails, Goto, bootVars, inputs, Open, Answered
<1>2. CallsHaveRead'
  BY DEF Inductive, TypeOK, CallsHaveRead, AcceptLogin, AcceptOldPassword, RefusePassword,
         SaveFails, Goto, Compare, inputs, Open
<1>3. ChangeIsKept'
  BY DEF Inductive, TypeOK, ChangeIsKept, AcceptLogin, AcceptOldPassword, RefusePassword,
         SaveFails, Goto, inputs
<1> QED
  BY <1>1, <1>2, <1>3 DEF Inductive

(* The last save is the one that stays.                                    *)
LEMMA SaveNewPasswordStep ==
  ASSUME Inductive, NEW c \in Calls, SaveNewPassword(c)
  PROVE  Inductive'
<1>1. new[c] \in Replacements
  BY DEF Inductive, CallsHaveRead, SaveNewPassword
<1>2. TypeOK' /\ StartsHavePasswords'
  BY <1>1, Contents DEF Inductive, TypeOK, StartsHavePasswords, SaveNewPassword, Goto, bootVars,
                        inputs, Answered
<1>3. CallsHaveRead' /\ ChangeIsKept'
  BY DEF Inductive, TypeOK, CallsHaveRead, ChangeIsKept, SaveNewPassword, Goto, inputs, Open
<1> QED
  BY <1>2, <1>3 DEF Inductive

(* Every step keeps the invariant.                                         *)
LEMMA StepInductive == Inductive /\ [Next]_vars => Inductive'
<1> SUFFICES ASSUME Inductive, [Next]_vars PROVE Inductive'
  OBVIOUS
<1>1. CASE UNCHANGED vars
  BY <1>1 DEF Inductive, TypeOK, StartsHavePasswords, CallsHaveRead, ChangeIsKept, vars,
              bootVars, callVars, inputs
<1>2. ASSUME NEW s \in Servers, StartUp(s) \/ StartFails(s) PROVE Inductive'
  BY <1>2, StartStep, SaveAdminStep DEF StartUp
<1>3. ASSUME NEW c \in Calls, Handle(c) \/ SaveFails(c) PROVE Inductive'
  BY <1>3, CompareStep, SaveNewPasswordStep DEF Handle
<1> QED
  BY <1>1, <1>2, <1>3, SubmitStep, OutsideStep DEF Next

(* The stages of starts and calls agree with the account in every          *)
(* reachable state.                                                        *)
THEOREM InductiveInvariant == Spec => []Inductive
BY InitInductive, StepInductive, PTL DEF Spec

(* The variables of starts, calls and the file keep their types.           *)
THEOREM TypeCorrect == Spec => []TypeOK
<1>1. Inductive => TypeOK
  BY DEF Inductive
<1> QED
  BY <1>1, InductiveInvariant, PTL

(* No restart and no server that starts late undoes a change of password.  *)
THEOREM ChangesAreKept == Spec => []ChangeIsKept
<1>1. Inductive => ChangeIsKept
  BY DEF Inductive
<1> QED
  BY <1>1, InductiveInvariant, PTL

-------------------------------------------------------------------------------
(* One server *)

(* Nobody starts at the beginning, and there is no account.                *)
LEMMA InitAlone == Init => AloneInductive
BY InitInductive, Contents
   DEF Init, AloneInductive, StartsAlone, InitialPasswordOnFile, Open, Starting

(* With one server, the stages of its start leave the account alone until  *)
(* it is created, from the password that is on the file.                   *)
LEMMA StartAlone ==
  ASSUME \A s, t \in Servers : s = t, AloneInductive,
         NEW s \in Servers, StartUp(s) \/ StartFails(s)
  PROVE  StartsAlone' /\ InitialPasswordOnFile'
<1> USE DEF AloneInductive
<1>1. UNCHANGED <<pc, at>>
  BY DEF StartUp, StartFails, CountOne, CountNone, ReadFile, FileIsEmpty, DrawPassword, OpenFile,
         WriteFile, SaveAdmin, SaveConflicts, callVars, inputs
<1>2. CASE CountOne(s) \/ CountNone(s) \/ ReadFile(s) \/ FileIsEmpty(s) \/ DrawPassword(s)
  BY <1>1, <1>2, Contents
     DEF Inductive, TypeOK, StartsAlone, InitialPasswordOnFile, CountOne, CountNone, ReadFile,
         FileIsEmpty, DrawPassword, Boot, Stopped, Starting
<1>3. CASE OpenFile(s) \/ WriteFile(s)
  BY <1>1, <1>3, Contents
     DEF Inductive, TypeOK, StartsAlone, InitialPasswordOnFile, OpenFile, WriteFile, Boot, Starting
<1>4. CASE SaveAdmin(s) \/ SaveConflicts(s) \/ StartFails(s)
  BY <1>1, <1>4, Contents
     DEF Inductive, TypeOK, StartsAlone, InitialPasswordOnFile, SaveAdmin, SaveConflicts,
         StartFails, Boot, Starting
<1> QED
  BY <1>2, <1>3, <1>4 DEF StartUp

(* A call runs on a server that has started, so nobody is starting.        *)
LEMMA CallAlone ==
  ASSUME \A s, t \in Servers : s = t, AloneInductive, NEW c \in Calls,
         \/ \E s \in Servers, p \in Passwords : Submit(c, s, p)
         \/ Handle(c) \/ SaveFails(c)
  PROVE  StartsAlone' /\ InitialPasswordOnFile'
<1> USE DEF AloneInductive
<1>1. UNCHANGED bootVars
  BY DEF Submit, Login, ChangePassword, CallFails, Handle, AcceptLogin, AcceptOldPassword,
         RefusePassword, SaveNewPassword, SaveFails
<1>2. ASSUME NEW s \in Servers, NEW p \in Passwords, Submit(c, s, p)
      PROVE  StartsAlone' /\ InitialPasswordOnFile'
  <2>1. PICK n \in Replacements \cup {NoValue} : Arrive(c, s, p, n) /\ UNCHANGED account
    BY <1>2 DEF Submit, Login, ChangePassword, CallFails
  <2>2. \A d \in Calls : d # c => pc'[d] = pc[d]
    BY <1>2 DEF Submit, Login, ChangePassword, CallFails, Select, SelectNothing, Goto,
               Inductive, TypeOK
  <2> QED
    BY <1>1, <2>1, <2>2 DEF StartsAlone, InitialPasswordOnFile, Arrive, bootVars, Inductive, TypeOK
<1>3. CASE AcceptLogin(c) \/ AcceptOldPassword(c) \/ RefusePassword(c) \/ SaveFails(c)
  BY <1>1, <1>3 DEF StartsAlone, InitialPasswordOnFile, AcceptLogin, AcceptOldPassword,
       RefusePassword, SaveFails, Goto, bootVars, inputs, Inductive, TypeOK, Open
<1>4. CASE SaveNewPassword(c)
  <2>1. new[c] \in Replacements /\ new[c] \notin Initial
    BY <1>4, KindsAssumption DEF Inductive, CallsHaveRead, SaveNewPassword
  <2>2. \A s \in Servers : boot[s] \notin Starting
    BY <1>4 DEF StartsAlone, SaveNewPassword, Open, Starting
  <2> QED
    BY <1>1, <1>4, <2>1, <2>2 DEF StartsAlone, InitialPasswordOnFile, SaveNewPassword, Goto,
         bootVars, inputs, Inductive, TypeOK, Open, Starting
<1> QED
  BY <1>2, <1>3, <1>4 DEF Handle

(* The administrator leaves a file that the server has not written, or     *)
(* none, and only while it is not starting.                                *)
LEMMA OutsideAlone ==
  ASSUME \A s, t \in Servers : s = t, AloneInductive,
         (\E s \in Servers : Stop(s)) \/ PutFile \/ RemoveFile \/ Logout
  PROVE  StartsAlone' /\ InitialPasswordOnFile'
<1> USE DEF AloneInductive
<1>1. CASE \E s \in Servers : Stop(s)
  BY <1>1 DEF StartsAlone, InitialPasswordOnFile, Stop, Boot, Stopped, inputs, Inductive, TypeOK,
              Open, Starting
<1>2. CASE PutFile \/ RemoveFile
  BY <1>2, Contents, KindsAssumption
     DEF StartsAlone, InitialPasswordOnFile, PutFile, RemoveFile, callVars, inputs, Starting
<1>3. CASE Logout
  BY <1>3 DEF StartsAlone, InitialPasswordOnFile, Logout, bootVars, inputs
<1> QED
  BY <1>1, <1>2, <1>3

(* With one server, every step keeps file and account in agreement.        *)
LEMMA StepAlone ==
  ASSUME \A s, t \in Servers : s = t
  PROVE  AloneInductive /\ [Next]_vars => AloneInductive'
<1> SUFFICES ASSUME AloneInductive, [Next]_vars PROVE AloneInductive'
  OBVIOUS
<1>1. Inductive'
  BY StepInductive DEF AloneInductive
<1>2. CASE UNCHANGED vars
  BY <1>1, <1>2 DEF AloneInductive, StartsAlone, InitialPasswordOnFile, vars, bootVars, callVars,
                    inputs
<1>3. ASSUME NEW s \in Servers, StartUp(s) \/ StartFails(s) PROVE AloneInductive'
  BY <1>1, <1>3, StartAlone DEF AloneInductive
<1>4. ASSUME NEW c \in Calls,
             \/ \E s \in Servers, p \in Passwords : Submit(c, s, p)
             \/ Handle(c) \/ SaveFails(c)
      PROVE  AloneInductive'
  BY <1>1, <1>4, CallAlone DEF AloneInductive
<1>5. CASE (\E s \in Servers : Stop(s)) \/ PutFile \/ RemoveFile \/ Logout
  BY <1>1, <1>5, OutsideAlone DEF AloneInductive
<1> QED
  BY <1>2, <1>3, <1>4, <1>5 DEF Next

(* However often the start of the only server is cut off, the password it  *)
(* wrote to admin_pass.txt is the one the account is created with.         *)
THEOREM FileOpensAccount ==
  ASSUME \A s, t \in Servers : s = t
  PROVE  Spec => []InitialPasswordOnFile
<1>1. AloneInductive /\ [Next]_vars => AloneInductive'
  BY StepAlone
<1>2. AloneInductive => InitialPasswordOnFile
  BY DEF AloneInductive
<1> QED
  BY <1>1, <1>2, InitAlone, PTL DEF Spec

(* The stages of the only start agree with the file and the account.       *)
THEOREM AloneInvariant ==
  ASSUME \A s, t \in Servers : s = t
  PROVE  Spec => []AloneInductive
<1>1. AloneInductive /\ [Next]_vars => AloneInductive'
  BY StepAlone
<1> QED
  BY <1>1, InitAlone, PTL DEF Spec

-------------------------------------------------------------------------------
(* What the account allows in a single step *)

(* An account comes to stay, and an empty file is the only way to run      *)
(* without one, whatever else a start or another server runs into.         *)
THEOREM RunsWithAccount == Spec => AccountUnlessFileEmpty
<1> DEFINE Step == /\ account # NoValue => account' # NoValue
                   /\ \A s \in Servers : boot[s] # "running" /\ boot'[s] = "running" =>
                                          account' # NoValue \/ file = Empty
<1>1. ASSUME Inductive, [Next]_vars PROVE Step
  <2>1. CASE UNCHANGED vars
    BY <2>1 DEF vars, bootVars
  <2>2. ASSUME NEW s \in Servers, StartUp(s) \/ StartFails(s) PROVE Step
    <3>1. CASE SaveAdmin(s)
      BY <1>1, <3>1, Contents DEF SaveAdmin, Boot, Inductive, TypeOK, StartsHavePasswords
    <3>2. CASE CountOne(s) \/ FileIsEmpty(s)
      BY <1>1, <3>2 DEF CountOne, FileIsEmpty, Boot, Inductive, TypeOK
    <3>3. CASE StartFails(s) \/ SaveConflicts(s) \/ CountNone(s)
      BY <1>1, <3>3 DEF StartFails, SaveConflicts, CountNone, Boot, Inductive, TypeOK
    <3>4. CASE ReadFile(s) \/ DrawPassword(s) \/ OpenFile(s) \/ WriteFile(s)
      BY <1>1, <3>4 DEF ReadFile, DrawPassword, OpenFile, WriteFile, Boot, Inductive, TypeOK
    <3> QED
      BY <2>2, <3>1, <3>2, <3>3, <3>4 DEF StartUp
  <2>3. ASSUME NEW c \in Calls,
               \/ \E s \in Servers, p \in Passwords : Submit(c, s, p)
               \/ Handle(c) \/ SaveFails(c)
        PROVE  Step
    <3>1. UNCHANGED boot
      BY <2>3 DEF Submit, Login, ChangePassword, CallFails, Handle, AcceptLogin,
           AcceptOldPassword, RefusePassword, SaveNewPassword, SaveFails, bootVars
    <3>2. CASE SaveNewPassword(c)
      BY <1>1, <3>1, <3>2, Contents DEF SaveNewPassword, Inductive, CallsHaveRead
    <3>3. CASE UNCHANGED account
      BY <3>1, <3>3
    <3> QED
      BY <2>3, <3>2, <3>3 DEF Submit, Login, ChangePassword, CallFails, Handle, AcceptLogin,
           AcceptOldPassword, RefusePassword, SaveFails
  <2>4. CASE (\E s \in Servers : Stop(s)) \/ PutFile \/ RemoveFile \/ Logout
    BY <1>1, <2>4 DEF Stop, Boot, PutFile, RemoveFile, Logout, bootVars, Inductive, TypeOK
  <2> QED
    BY <1>1, <2>1, <2>2, <2>3, <2>4 DEF Next
<1>2. Inductive /\ [Next]_vars => [Step]_vars
  BY <1>1
<1> QED
  BY <1>2, InductiveInvariant, PTL DEF Spec, AccountUnlessFileEmpty

-------------------------------------------------------------------------------
(* The account decides at once *)

(* A step that leaves the account and the calls alone, or only ends the    *)
(* wait of a call, is none of the abstract account.                        *)
LEMMA SameAnswers ==
  ASSUME UNCHANGED <<account, presented, new>>, \A c \in Calls : AnswerOf(c)' = AnswerOf(c)
  PROVE  UNCHANGED Account!vars
BY DEF Account!vars, Told

(* What a start does is a creation of the account or nothing.              *)
LEMMA StartRefines ==
  ASSUME Inductive, NEW s \in Servers, StartUp(s) \/ StartFails(s)
  PROVE  [Account!Next]_Account!vars
<1>1. UNCHANGED <<presented, new, pc, seen>>
  BY DEF StartUp, StartFails, CountOne, CountNone, ReadFile, FileIsEmpty, DrawPassword, OpenFile,
         WriteFile, SaveAdmin, SaveConflicts, callVars, inputs
<1>2. \A c \in Calls : AnswerOf(c)' = AnswerOf(c)
  BY <1>1 DEF AnswerOf
<1>3. CASE SaveAdmin(s)
  <2>1. account = NoValue /\ account' \in Passwords
    BY <1>3, Contents DEF Inductive, StartsHavePasswords, SaveAdmin
  <2>2. Account!Create
    BY <1>1, <1>2, <2>1 DEF Account!Create, Told
  <2> QED
    BY <2>2 DEF Account!Next
<1>4. CASE UNCHANGED account
  BY <1>1, <1>2, <1>4, SameAnswers
<1> QED
  BY <1>3, <1>4 DEF StartUp, StartFails, CountOne, CountNone, ReadFile, FileIsEmpty, DrawPassword,
       OpenFile, WriteFile, SaveConflicts

(* A call that reads the row is checked there and then.                    *)
LEMMA SubmitRefines ==
  ASSUME Inductive,
         NEW c \in Calls, NEW s \in Servers, NEW p \in Passwords, Submit(c, s, p)
  PROVE  [Account!Next]_Account!vars
<1>1. PICK n \in Replacements \cup {NoValue} :
        /\ Arrive(c, s, p, n) /\ UNCHANGED account
        /\ \/ Select(c) \/ SelectNothing(c)
           \/ Goto(c, "rejected") /\ UNCHANGED seen
           \/ Goto(c, "error") /\ UNCHANGED seen
  BY DEF Submit, Login, ChangePassword, CallFails
<1>2. /\ pc[c] = "idle" /\ seen[c] = NoValue /\ c \in DOMAIN pc
      /\ AnswerOf(c) = "none" /\ p # NoValue
  BY <1>1, Contents DEF Inductive, TypeOK, CallsHaveRead, Arrive, AnswerOf
<1>3. presented' = [presented EXCEPT ![c] = p] /\ new' = [new EXCEPT ![c] = n]
  BY <1>1 DEF Arrive
<1>4. \A d \in Calls \ {c} : /\ AnswerOf(d)' = AnswerOf(d)
                             /\ presented'[d] = presented[d] /\ new'[d] = new[d]
  BY <1>1, <1>3 DEF AnswerOf, Inductive, TypeOK, Select, SelectNothing, Goto
<1>5. CASE (Goto(c, "rejected") \/ Goto(c, "error")) /\ UNCHANGED seen
  <2>1. AnswerOf(c)' = "none"
    BY <1>2, <1>5 DEF AnswerOf, Goto, Inductive, TypeOK
  <2> QED
    BY <1>1, <1>2, <1>4, <2>1 DEF Account!vars, Told
<1>6. CASE Select(c) \/ SelectNothing(c)
  <2>1. AnswerOf(c)' = IF account = p THEN "right" ELSE "wrong"
    BY <1>2, <1>3, <1>6 DEF AnswerOf, Select, SelectNothing, Goto, Inductive, TypeOK
  <2>2. presented'[c] = p /\ new'[c] = n
    BY <1>3 DEF Inductive, TypeOK
  <2>3. Account!Check(c, p, n)
    BY <1>1, <1>2, <1>4, <2>1, <2>2 DEF Account!Check, Told
  <2>4. n \in Passwords \cup {NoValue}
    BY Contents
  <2> QED
    BY <2>3, <2>4 DEF Account!Next
<1> QED
  BY <1>1, <1>5, <1>6

(* The comparison only tells what was decided; the save is the change.     *)
LEMMA HandleRefines ==
  ASSUME Inductive, NEW c \in Calls, Handle(c) \/ SaveFails(c)
  PROVE  [Account!Next]_Account!vars
<1>1. UNCHANGED <<presented, new, seen>>
  BY DEF Handle, AcceptLogin, AcceptOldPassword, RefusePassword, SaveNewPassword, SaveFails, inputs
<1>2. \A d \in Calls \ {c} : AnswerOf(d)' = AnswerOf(d)
  BY <1>1 DEF AnswerOf, Inductive, TypeOK, Handle, AcceptLogin, AcceptOldPassword,
              RefusePassword, SaveNewPassword, SaveFails, Goto
<1>3. CASE AcceptLogin(c) \/ AcceptOldPassword(c) \/ RefusePassword(c) \/ SaveFails(c)
  <2>1. seen[c] # NoValue
    BY <1>3, Contents DEF AcceptLogin, AcceptOldPassword, RefusePassword, SaveFails,
         Inductive, CallsHaveRead, Open
  <2>2. AnswerOf(c)' = AnswerOf(c) /\ UNCHANGED account
    BY <1>1, <1>3, <2>1 DEF AnswerOf, AcceptLogin, AcceptOldPassword, RefusePassword, SaveFails,
         Goto, Compare, Inductive, TypeOK, CallsHaveRead
  <2> QED
    BY <1>1, <1>2, <2>2, SameAnswers
<1>4. CASE SaveNewPassword(c)
  <2>1. AnswerOf(c) = "right" /\ AnswerOf(c)' = "changed" /\ new[c] # NoValue
    BY <1>1, <1>4, Contents DEF AnswerOf, SaveNewPassword, Goto, Inductive, TypeOK, CallsHaveRead
  <2>2. Account!Change(c)
    BY <1>1, <1>2, <1>4, <2>1 DEF Account!Change, Told, SaveNewPassword
  <2> QED
    BY <2>2 DEF Account!Next
<1> QED
  BY <1>3, <1>4 DEF Handle

(* A call that is cut off keeps what it was told.                          *)
LEMMA OutsideRefines ==
  ASSUME Inductive, (\E s \in Servers : Stop(s)) \/ PutFile \/ RemoveFile \/ Logout
  PROVE  UNCHANGED Account!vars
<1>1. UNCHANGED <<account, presented, new, seen>>
  BY DEF Stop, PutFile, RemoveFile, Logout, callVars, bootVars, inputs
<1>2. \A c \in Calls : AnswerOf(c)' = AnswerOf(c)
  BY <1>1 DEF AnswerOf, Inductive, TypeOK, CallsHaveRead, Stop, PutFile, RemoveFile, Logout,
              callVars, inputs, Open
<1> QED
  BY <1>1, <1>2, SameAnswers

(* Logins and changes, slow comparisons, restarts and any number of        *)
(* servers behave as the account that decides at once, whatever findOne    *)
(* does with an undefined id.                                              *)
THEOREM RefinesAccount == Spec => ImplementsAccount
<1>1. Init => Account!Init
  BY DEF Init, Account!Init, AnswerOf, Told
<1>2. Inductive /\ [Next]_vars => [Account!Next]_Account!vars
  <2> SUFFICES ASSUME Inductive, [Next]_vars PROVE [Account!Next]_Account!vars
    OBVIOUS
  <2>1. CASE UNCHANGED vars
    <3>1. UNCHANGED <<account, presented, new, pc, seen>>
      BY <2>1 DEF vars, callVars, inputs
    <3>2. \A c \in Calls : AnswerOf(c)' = AnswerOf(c)
      BY <3>1 DEF AnswerOf
    <3> QED
      BY <3>1, <3>2, SameAnswers
  <2> QED
    BY <2>1, StartRefines, SubmitRefines, HandleRefines, OutsideRefines DEF Next
<1> QED
  BY <1>1, <1>2, InductiveInvariant, PTL DEF Spec, ImplementsAccount, Account!Spec
===============================================================================
