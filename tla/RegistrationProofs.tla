------------------------- MODULE RegistrationProofs -------------------------
(***************************************************************************)
(* Proofs about Registration, for any sets of devices, emails, passwords,  *)
(* uids and calls.                                                         *)
(*                                                                         *)
(* The safety properties are not inductive by themselves: that a profile   *)
(* belongs to its account needs to be known of the writes still queued on  *)
(* a device, and that in turn of the answers still on their way.  IInv     *)
(* follows the uid along that path: account, answer, handler, queue,       *)
(* database.                                                               *)
(***************************************************************************)
EXTENDS Registration, TLAPS

\* Account e was created by its registering call and nobody else's.
AccountOrigin ==
  \A e \in Email : account[e] # None =>
    /\ op[account[e].by] = "register"
    /\ email[account[e].by] = e
    /\ outcome[account[e].by] = account[e].uid

\* No two emails share a uid.
UidsDistinct ==
  \A e1, e2 \in Email :
    (account[e1] # None /\ account[e2] # None /\ account[e1].uid = account[e2].uid)
      => e1 = e2

\* A positive answer to a registration names the account it created.
AnswerOrigin ==
  \A c \in Call : (op[c] = "register" /\ outcome[c] \in Uid) =>
    /\ account[email[c]] # None
    /\ account[email[c]].uid = outcome[c]
    /\ account[email[c]].by = c

\* Only a call that was made has a request; only one without a request has an
\* answer.
CallProgress ==
  \A c \in Call :
    /\ c \in request => state[c] # "idle" /\ outcome[c] = Unanswered
    /\ outcome[c] # Unanswered => state[c] # "idle"

\* The handler's user is the server's answer, and success means there is one.
HandlerOrigin ==
  \A c \in Call :
    /\ user[c] # None => user[c] = outcome[c]
    /\ state[c] = "succeeded" => user[c] # None

\* Every queued write is the profile of an existing account.
QueueOrigin ==
  \A d \in Device : \A i \in 1..Len(outstanding[d]) :
    /\ account[outstanding[d][i].email] # None
    /\ account[outstanding[d][i].email].uid = outstanding[d][i].uid

IInv ==
  /\ TypeOK
  /\ AccountOrigin /\ UidsDistinct /\ AnswerOrigin
  /\ CallProgress /\ HandlerOrigin /\ QueueOrigin
  /\ ProfileBelongsToAccount
  /\ SuccessKeepsProfile

-----------------------------------------------------------------------------
\* The variables have their types in every initial state and keep them.
LEMMA TypeInit == Init => TypeOK
BY DEF Init, TypeOK, CallState, NoAccount

\* Every step keeps the types.
LEMMA TypeStep == TypeOK /\ [Next]_vars => TypeOK'
<1> SUFFICES ASSUME TypeOK, [Next]_vars PROVE TypeOK'
  OBVIOUS
<1> USE DEF TypeOK
<1>1. ASSUME NEW c \in Call, Ask(c) PROVE TypeOK'
  <2>1. state' \in [Call -> CallState]
    BY <1>1 DEF Ask, CallState
  <2>2. request' \subseteq Call
    BY <1>1 DEF Ask
  <2> QED
    BY <1>1, <2>1, <2>2 DEF Ask
<1>2. ASSUME NEW c \in Call, ServerCreateUser(c) PROVE TypeOK'
  <2>1. account' \in [Email -> Account \cup {NoAccount}] /\ outcome' \in [Call -> Uid \cup {None, Unanswered}]
    <3>1. CASE /\ account[email[c]] # NoAccount
               /\ outcome' = [outcome EXCEPT ![c] = None]
               /\ UNCHANGED account
      BY <3>1
    <3>2. ASSUME NEW u \in Uid,
                 account' = [account EXCEPT ![email[c]] =
                               [uid |-> u, password |-> password[c], by |-> c]],
                 outcome' = [outcome EXCEPT ![c] = u]
          PROVE  account' \in [Email -> Account \cup {NoAccount}] /\ outcome' \in [Call -> Uid \cup {None, Unanswered}]
      <4>1. [uid |-> u, password |-> password[c], by |-> c] \in Account
        BY DEF Account
      <4> QED
        BY <3>2, <4>1
    <3> QED
      BY <1>2, <3>1, <3>2 DEF ServerCreateUser
  <2>2. request' \subseteq Call
    BY <1>2 DEF ServerCreateUser
  <2> QED
    BY <1>2, <2>1, <2>2 DEF ServerCreateUser
<1>3. ASSUME NEW c \in Call, ServerSignIn(c) PROVE TypeOK'
  BY <1>3 DEF ServerSignIn, Account, NoAccount
<1>4. ASSUME NEW c \in Call, Receive(c) PROVE TypeOK'
  <2>1. state' \in [Call -> CallState]
    BY <1>4 DEF Receive, CallState
  <2>2. outcome[c] \in Uid \cup {None}
    BY <1>4 DEF Receive
  <2>3. user' \in [Call -> Uid \cup {None}] /\ currentUser' \in [Device -> Uid \cup {None}]
    BY <1>4, <2>2 DEF Receive
  <2> QED
    BY <1>4, <2>1, <2>3 DEF Receive
<1>5. ASSUME NEW c \in Call, GiveUp(c) PROVE TypeOK'
  <2>1. state' \in [Call -> CallState]
    BY <1>5 DEF GiveUp, CallState
  <2> QED
    BY <1>5, <2>1 DEF GiveUp
<1>6. ASSUME NEW c \in Call, RegisterHandler(c) PROVE TypeOK'
  <2>1. state' \in [Call -> CallState]
    BY <1>6 DEF RegisterHandler, CallState
  <2>2. outstanding' \in [Device -> Seq(ProfileWrite)]
    <3>1. CASE user[c] # None /\ CreateDBUser(device[c], user[c], email[c])
      <4>1. [uid |-> user[c], email |-> email[c]] \in ProfileWrite
        BY <3>1 DEF ProfileWrite
      <4> QED
        BY <3>1, <4>1 DEF CreateDBUser
    <3> QED
      BY <1>6, <3>1 DEF RegisterHandler
  <2> QED
    BY <1>6, <2>1, <2>2 DEF RegisterHandler
<1>7. ASSUME NEW c \in Call, LoginHandler(c) PROVE TypeOK'
  <2>1. state' \in [Call -> CallState]
    BY <1>7 DEF LoginHandler, CallState
  <2> QED
    BY <1>7, <2>1 DEF LoginHandler
<1>8. ASSUME NEW d \in Device, DidFinishLaunching(d) PROVE TypeOK'
  BY <1>8 DEF DidFinishLaunching
<1>9. ASSUME NEW d \in Device, DatabaseApply(d) PROVE TypeOK'
  <2>1. Head(outstanding[d]) \in ProfileWrite
    BY <1>9 DEF DatabaseApply
  <2>2. users' \in [Uid -> Email \cup {None}]
    BY <1>9, <2>1 DEF DatabaseApply, ProfileWrite
  <2> QED
    BY <1>9, <2>2 DEF DatabaseApply
<1>10. ASSUME NEW d \in Device, DatabaseAck(d) PROVE TypeOK'
  <2>1. outstanding' \in [Device -> Seq(ProfileWrite)]
    BY <1>10 DEF DatabaseAck
  <2> QED
    BY <1>10, <2>1 DEF DatabaseAck
<1>11. ASSUME NEW d \in Device, DatabaseRefuse(d) PROVE TypeOK'
  <2>1. outstanding' \in [Device -> Seq(ProfileWrite)]
    BY <1>11 DEF DatabaseRefuse
  <2>2. Head(outstanding[d]) \in ProfileWrite
    BY <1>11 DEF DatabaseRefuse
  <2>3. dropped' \subseteq Uid
    BY <1>11, <2>2 DEF DatabaseRefuse, ProfileWrite
  <2> QED
    BY <1>11, <2>1, <2>3 DEF DatabaseRefuse
<1>12. ASSUME NEW d \in Device, Terminate(d) PROVE TypeOK'
  <2>1. state' \in [Call -> CallState]
    BY <1>12 DEF Terminate, CallState
  <2>2. outstanding' \in [Device -> Seq(ProfileWrite)]
    BY <1>12 DEF Terminate
  <2>3. \A i \in 1..Len(outstanding[d]) : outstanding[d][i] \in ProfileWrite
    OBVIOUS
  <2>4. dropped' \subseteq Uid
    BY <1>12, <2>3 DEF Terminate, ProfileWrite
  <2> QED
    BY <1>12, <2>1, <2>2, <2>4 DEF Terminate
<1>13. CASE UNCHANGED vars
  BY <1>13 DEF vars
<1> QED
  BY <1>1, <1>2, <1>3, <1>4, <1>5, <1>6, <1>7, <1>8, <1>9, <1>10, <1>11, <1>12, <1>13
     DEF Next, CallStep, DeviceStep, RegisterUser, LoginUser

\* Type correctness of AuthService, DataService and the services they use.
THEOREM TypeCorrect == Spec => []TypeOK
<1>1. QED
  BY TypeInit, TypeStep, PTL DEF Spec

-----------------------------------------------------------------------------
\* The inductive invariant holds before the first launch.
LEMMA IndInit == Init => IInv
<1> SUFFICES ASSUME Init PROVE IInv
  OBVIOUS
<1>1. TypeOK
  BY TypeInit
<1>2. AccountOrigin /\ UidsDistinct /\ ProfileBelongsToAccount
  BY DEF Init, AccountOrigin, UidsDistinct, ProfileBelongsToAccount, NoAccount
<1>3. AnswerOrigin /\ CallProgress
  BY NoneAssumption DEF Init, AnswerOrigin, CallProgress
<1>4. HandlerOrigin /\ SuccessKeepsProfile
  BY DEF Init, HandlerOrigin, SuccessKeepsProfile
<1>5. QueueOrigin
  BY DEF Init, QueueOrigin
<1> QED
  BY <1>1, <1>2, <1>3, <1>4, <1>5 DEF IInv

\* What the server and the handlers agree on does not depend on what is going
\* on in the database, and the other way round.
AuthPart == AccountOrigin /\ UidsDistinct /\ AnswerOrigin /\ CallProgress /\ HandlerOrigin
DataPart == QueueOrigin /\ ProfileBelongsToAccount /\ SuccessKeepsProfile

\* A step that leaves the accounts, the answers and the handlers alone keeps
\* what is known of them.
LEMMA AuthUnchanged ==
  ASSUME AuthPart,
         UNCHANGED <<op, email, state, request, outcome, user, account>>
  PROVE  AuthPart'
BY DEF AuthPart, AccountOrigin, UidsDistinct, AnswerOrigin, CallProgress, HandlerOrigin

\* A step that leaves the profiles and their queues alone keeps what is known
\* of them.
LEMMA DataUnchanged ==
  ASSUME DataPart,
         UNCHANGED <<op, device, email, user, account, users, outstanding, dropped>>,
         \A c \in Call : (op[c] = "register" /\ state'[c] = "succeeded") => state[c] = "succeeded"
  PROVE  DataPart'
BY DEF DataPart, QueueOrigin, ProfileBelongsToAccount, SuccessKeepsProfile, Queued, NoAccount

\* Every step keeps what is known of accounts, answers and handlers.
LEMMA AuthStep == IInv /\ [Next]_vars => AuthPart'
<1> SUFFICES ASSUME IInv, [Next]_vars PROVE AuthPart'
  OBVIOUS
<1> AuthPart /\ TypeOK
  BY DEF IInv, AuthPart
<1>1. ASSUME NEW c \in Call, Ask(c) PROVE AuthPart'
  <2>1. AccountOrigin' /\ UidsDistinct' /\ AnswerOrigin'
    BY <1>1 DEF Ask, AuthPart, AccountOrigin, UidsDistinct, AnswerOrigin
  <2>2. CallProgress'
    BY <1>1 DEF Ask, AuthPart, CallProgress, TypeOK
  <2>3. HandlerOrigin'
    BY <1>1 DEF Ask, AuthPart, HandlerOrigin, TypeOK
  <2> QED
    BY <2>1, <2>2, <2>3 DEF AuthPart
<1>2. ASSUME NEW c \in Call, ServerCreateUser(c) PROVE AuthPart'
  <2> USE NoneAssumption DEF NoAccount
  <2>1. outcome[c] = Unanswered /\ user[c] = None /\ state[c] # "idle"
    BY <1>2 DEF ServerCreateUser, AuthPart, CallProgress, HandlerOrigin, TypeOK
  <2>2. UNCHANGED <<op, email, state, user>>
    BY <1>2 DEF ServerCreateUser
  <2>3. request' = request \ {c}
    BY <1>2 DEF ServerCreateUser
  <2>4. ASSUME UNCHANGED account, outcome' = [outcome EXCEPT ![c] = None]
        PROVE  AuthPart'
    <3>1. AccountOrigin'
      BY <2>1, <2>2, <2>4 DEF AuthPart, AccountOrigin, TypeOK, Account
    <3>2. UidsDistinct' /\ AnswerOrigin'
      BY <2>2, <2>4 DEF AuthPart, UidsDistinct, AnswerOrigin, TypeOK
    <3>3. CallProgress' /\ HandlerOrigin'
      BY <2>1, <2>2, <2>3, <2>4 DEF AuthPart, CallProgress, HandlerOrigin, TypeOK
    <3> QED
      BY <3>1, <3>2, <3>3 DEF AuthPart
  <2>5. ASSUME account[email[c]] = NoAccount,
               NEW u \in Uid \ TakenUids,
               account' = [account EXCEPT ![email[c]] =
                             [uid |-> u, password |-> password[c], by |-> c]],
               outcome' = [outcome EXCEPT ![c] = u]
        PROVE  AuthPart'
    <3> DEFINE new == [uid |-> u, password |-> password[c], by |-> c]
    <3>1. new \in Account /\ new # None
      BY DEF TypeOK, Account
    <3>2. \A e \in Email : account[e] # None => account[e] \in Account /\ account[e].uid # u /\ account[e].by # c
      BY <2>1, <2>5 DEF TakenUids, AuthPart, AccountOrigin, TypeOK, Account
    <3>3. \A e \in Email : account'[e] = IF e = email[c] THEN new ELSE account[e]
      BY <2>5 DEF TypeOK
    <3>4. \A k \in Call : outcome'[k] = IF k = c THEN u ELSE outcome[k]
      BY <2>5 DEF TypeOK
    <3>5. op[c] = "register"
      BY <1>2 DEF ServerCreateUser
    <3>6. AccountOrigin'
      BY <2>2, <3>2, <3>3, <3>4, <3>5 DEF AuthPart, AccountOrigin, Account
    <3>7. UidsDistinct'
      BY <3>2, <3>3 DEF AuthPart, UidsDistinct
    <3>8. AnswerOrigin'
      BY <2>2, <2>5, <3>1, <3>3, <3>4 DEF AuthPart, AnswerOrigin, TypeOK
    <3>9. CallProgress' /\ HandlerOrigin'
      BY <2>1, <2>2, <2>3, <3>4 DEF AuthPart, CallProgress, HandlerOrigin
    <3> QED
      BY <3>6, <3>7, <3>8, <3>9 DEF AuthPart
  <2> QED
    BY <1>2, <2>4, <2>5 DEF ServerCreateUser
<1>3. ASSUME NEW c \in Call, ServerSignIn(c) PROVE AuthPart'
  <2> USE NoneAssumption DEF NoAccount
  <2>1. outcome[c] = Unanswered /\ user[c] = None /\ state[c] # "idle" /\ op[c] = "login"
    BY <1>3 DEF ServerSignIn, AuthPart, CallProgress, HandlerOrigin, TypeOK
  <2>2. UNCHANGED <<op, email, state, user, account>> /\ request' = request \ {c}
    BY <1>3 DEF ServerSignIn
  <2>3. \A k \in Call : k # c => outcome'[k] = outcome[k]
    BY <1>3 DEF ServerSignIn, TypeOK
  <2>4. AccountOrigin'
    BY <2>1, <2>2, <2>3 DEF AuthPart, AccountOrigin, TypeOK, Account
  <2>5. UidsDistinct' /\ AnswerOrigin'
    BY <2>1, <2>2, <2>3 DEF AuthPart, UidsDistinct, AnswerOrigin
  <2>6. CallProgress' /\ HandlerOrigin'
    BY <2>1, <2>2, <2>3 DEF AuthPart, CallProgress, HandlerOrigin
  <2> QED
    BY <2>4, <2>5, <2>6 DEF AuthPart
<1>4. ASSUME NEW c \in Call, Receive(c) PROVE AuthPart'
  <2>1. AccountOrigin' /\ UidsDistinct' /\ AnswerOrigin'
    BY <1>4 DEF Receive, AuthPart, AccountOrigin, UidsDistinct, AnswerOrigin
  <2>2. CallProgress'
    BY <1>4 DEF Receive, AuthPart, CallProgress, TypeOK
  <2>3. HandlerOrigin'
    BY <1>4 DEF Receive, AuthPart, HandlerOrigin, TypeOK
  <2> QED
    BY <2>1, <2>2, <2>3 DEF AuthPart
<1>5. ASSUME NEW c \in Call, GiveUp(c) PROVE AuthPart'
  <2>1. AccountOrigin' /\ UidsDistinct' /\ AnswerOrigin'
    BY <1>5 DEF GiveUp, AuthPart, AccountOrigin, UidsDistinct, AnswerOrigin
  <2>2. CallProgress' /\ HandlerOrigin'
    BY <1>5 DEF GiveUp, AuthPart, CallProgress, HandlerOrigin, TypeOK
  <2> QED
    BY <2>1, <2>2 DEF AuthPart
<1>6. ASSUME NEW c \in Call, RegisterHandler(c) \/ LoginHandler(c) PROVE AuthPart'
  <2>1. UNCHANGED <<op, email, request, outcome, user, account>> /\ state[c] = "answered"
    BY <1>6 DEF RegisterHandler, LoginHandler
  <2>2. \/ user[c] = None /\ state' = [state EXCEPT ![c] = "failed"]
        \/ user[c] # None /\ state' = [state EXCEPT ![c] = "succeeded"]
    BY <1>6 DEF RegisterHandler, LoginHandler
  <2>3. AccountOrigin' /\ UidsDistinct' /\ AnswerOrigin'
    BY <2>1 DEF AuthPart, AccountOrigin, UidsDistinct, AnswerOrigin
  <2>4. CallProgress' /\ HandlerOrigin'
    BY <2>1, <2>2 DEF AuthPart, CallProgress, HandlerOrigin, TypeOK
  <2> QED
    BY <2>3, <2>4 DEF AuthPart
<1>7. ASSUME NEW d \in Device, DidFinishLaunching(d) \/ DatabaseApply(d)
                                 \/ DatabaseAck(d) \/ DatabaseRefuse(d)
      PROVE  AuthPart'
  BY <1>7, AuthUnchanged DEF DidFinishLaunching, DatabaseApply, DatabaseAck, DatabaseRefuse
<1>8. ASSUME NEW d \in Device, Terminate(d) PROVE AuthPart'
  <2>1. AccountOrigin' /\ UidsDistinct' /\ AnswerOrigin'
    BY <1>8 DEF Terminate, AuthPart, AccountOrigin, UidsDistinct, AnswerOrigin
  <2>2. CallProgress' /\ HandlerOrigin'
    BY <1>8 DEF Terminate, AuthPart, CallProgress, HandlerOrigin, TypeOK
  <2> QED
    BY <2>1, <2>2 DEF AuthPart
<1>9. CASE UNCHANGED vars
  BY <1>9, AuthUnchanged DEF vars
<1> QED
  BY <1>1, <1>2, <1>3, <1>4, <1>5, <1>6, <1>7, <1>8, <1>9
     DEF Next, CallStep, DeviceStep, RegisterUser, LoginUser

-----------------------------------------------------------------------------
\* A write queued for a registered call's uid carries that call's email: the
\* two name the same account.
LEMMA SameAccount ==
  ASSUME TypeOK, AuthPart, QueueOrigin,
         NEW c \in Call, op[c] = "register", state[c] = "succeeded",
         NEW d \in Device, NEW i \in 1..Len(outstanding[d]),
         outstanding[d][i].uid = user[c]
  PROVE  outstanding[d][i].email = email[c]
<1>1. user[c] \in Uid /\ account[email[c]] # None /\ account[email[c]].uid = user[c]
  BY DEF AuthPart, HandlerOrigin, AnswerOrigin, TypeOK
<1>2. outstanding[d][i] \in ProfileWrite
  BY DEF TypeOK
<1> QED
  BY <1>1, <1>2 DEF AuthPart, QueueOrigin, UidsDistinct, TypeOK, ProfileWrite

\* Every step keeps what is known of profiles and their queues.
LEMMA DataStep == IInv /\ [Next]_vars => DataPart'
<1> SUFFICES ASSUME IInv, [Next]_vars PROVE DataPart'
  OBVIOUS
<1> AuthPart /\ DataPart /\ TypeOK
  BY DEF IInv, AuthPart, DataPart
<1>1. ASSUME NEW c \in Call, Ask(c) \/ GiveUp(c) PROVE DataPart'
  BY <1>1, DataUnchanged DEF Ask, GiveUp, TypeOK
<1>2. ASSUME NEW c \in Call, ServerCreateUser(c) PROVE DataPart'
  <2> USE DEF NoAccount
  <2>1. UNCHANGED <<op, device, email, state, user, users, outstanding, dropped>>
    BY <1>2 DEF ServerCreateUser
  <2>2. \A e \in Email : account[e] # None => account'[e] = account[e]
    BY <1>2 DEF ServerCreateUser, TypeOK
  <2>3. \A d \in Device : \A i \in 1..Len(outstanding[d]) : outstanding[d][i] \in ProfileWrite
    BY DEF TypeOK
  <2>4. QueueOrigin'
    BY <2>1, <2>2, <2>3 DEF DataPart, QueueOrigin, ProfileWrite
  <2>5. ProfileBelongsToAccount'
    BY <2>1, <2>2 DEF DataPart, ProfileBelongsToAccount, TypeOK
  <2>6. SuccessKeepsProfile'
    BY <2>1 DEF DataPart, SuccessKeepsProfile, Queued
  <2> QED
    BY <2>4, <2>5, <2>6 DEF DataPart
<1>3. ASSUME NEW c \in Call, ServerSignIn(c) PROVE DataPart'
  BY <1>3, DataUnchanged DEF ServerSignIn
<1>4. ASSUME NEW c \in Call, Receive(c) PROVE DataPart'
  <2>1. QueueOrigin' /\ ProfileBelongsToAccount'
    BY <1>4 DEF Receive, DataPart, QueueOrigin, ProfileBelongsToAccount
  <2>2. SuccessKeepsProfile'
    BY <1>4 DEF Receive, DataPart, SuccessKeepsProfile, Queued, TypeOK
  <2> QED
    BY <2>1, <2>2 DEF DataPart
<1>5. ASSUME NEW c \in Call, RegisterHandler(c) PROVE DataPart'
  <2>1. CASE user[c] = None
    BY <1>5, <2>1, DataUnchanged DEF RegisterHandler, TypeOK
  <2>2. CASE user[c] # None
    <3> DEFINE w == [uid |-> user[c], email |-> email[c]]
    <3>1. /\ op[c] = "register"
          /\ state' = [state EXCEPT ![c] = "succeeded"]
          /\ outstanding' = [outstanding EXCEPT ![device[c]] = Append(@, w)]
          /\ UNCHANGED <<op, device, email, user, account, users, dropped>>
      BY <1>5, <2>2 DEF RegisterHandler, CreateDBUser
    <3>2. account[email[c]] # None /\ account[email[c]].uid = user[c]
      BY <2>2, <3>1 DEF AuthPart, HandlerOrigin, AnswerOrigin, TypeOK
    <3>3. \A d \in Device : \A i \in 1..Len(outstanding'[d]) :
            outstanding'[d][i] = w \/ (i \in 1..Len(outstanding[d]) /\ outstanding'[d][i] = outstanding[d][i])
      BY <3>1 DEF TypeOK
    <3>4. \A d \in Device : \A i \in 1..Len(outstanding[d]) :
            i \in 1..Len(outstanding'[d]) /\ outstanding'[d][i] = outstanding[d][i]
      BY <3>1 DEF TypeOK
    <3>5. Len(outstanding[device[c]]) + 1 \in 1..Len(outstanding'[device[c]])
            /\ outstanding'[device[c]][Len(outstanding[device[c]]) + 1] = w
      BY <3>1 DEF TypeOK
    <3>6. QueueOrigin'
      BY <3>1, <3>2, <3>3 DEF DataPart, QueueOrigin
    <3>7. ProfileBelongsToAccount'
      BY <3>1 DEF DataPart, ProfileBelongsToAccount, NoAccount
    <3>8. SuccessKeepsProfile'
      <4> SUFFICES ASSUME NEW k \in Call, op[k] = "register", state'[k] = "succeeded"
                   PROVE  \/ users[user[k]] = email[k]
                          \/ Queued(device[k], user[k])'
                          \/ user[k] \in dropped
        BY <3>1 DEF SuccessKeepsProfile, Queued
      <4>1. CASE k = c
        BY <3>1, <3>5, <4>1 DEF Queued
      <4>2. CASE k # c
        <5>1. state[k] = "succeeded" /\ device[k] \in Device
          BY <3>1, <4>2 DEF TypeOK
        <5> QED
          BY <3>1, <3>4, <5>1 DEF DataPart, SuccessKeepsProfile, Queued
      <4> QED
        BY <4>1, <4>2
    <3> QED
      BY <3>6, <3>7, <3>8 DEF DataPart
  <2> QED
    BY <2>1, <2>2
<1>6. ASSUME NEW c \in Call, LoginHandler(c) PROVE DataPart'
  BY <1>6, DataUnchanged DEF LoginHandler, TypeOK
<1>7. ASSUME NEW d \in Device, DidFinishLaunching(d) PROVE DataPart'
  BY <1>7, DataUnchanged DEF DidFinishLaunching
<1>8. ASSUME NEW d \in Device, DatabaseApply(d) PROVE DataPart'
  <2> DEFINE w == Head(outstanding[d])
  <2>1. 1 \in 1..Len(outstanding[d]) /\ w = outstanding[d][1] /\ w \in ProfileWrite
    BY <1>8 DEF DatabaseApply, TypeOK
  <2>2. users' = [users EXCEPT ![w.uid] = w.email]
          /\ UNCHANGED <<op, device, email, state, user, account, outstanding, dropped>>
    BY <1>8 DEF DatabaseApply
  <2>3. QueueOrigin'
    BY <2>2 DEF DataPart, QueueOrigin
  <2>4. account[w.email] # None /\ account[w.email].uid = w.uid
    BY <2>1 DEF DataPart, QueueOrigin
  <2>5. ProfileBelongsToAccount'
    BY <2>1, <2>2, <2>4 DEF DataPart, ProfileBelongsToAccount, NoAccount, TypeOK, ProfileWrite
  <2>6. ASSUME NEW c \in Call, op[c] = "register", state[c] = "succeeded", user[c] = w.uid
        PROVE  w.email = email[c]
    BY <2>1, <2>6, SameAccount DEF DataPart
  <2>7. SuccessKeepsProfile'
    BY <2>1, <2>2, <2>6 DEF DataPart, SuccessKeepsProfile, Queued, TypeOK, ProfileWrite
  <2> QED
    BY <2>3, <2>5, <2>7 DEF DataPart
<1>9. ASSUME NEW d \in Device, DatabaseAck(d) \/ DatabaseRefuse(d) PROVE DataPart'
  <2> DEFINE w == Head(outstanding[d])
  <2>1. 1 \in 1..Len(outstanding[d]) /\ w = outstanding[d][1] /\ w \in ProfileWrite
    BY <1>9 DEF DatabaseAck, DatabaseRefuse, TypeOK
  <2>2. /\ outstanding' = [outstanding EXCEPT ![d] = Tail(@)]
        /\ UNCHANGED <<op, device, email, state, user, account, users>>
        /\ dropped \subseteq dropped'
        /\ users[w.uid] = w.email \/ w.uid \in dropped'
    BY <1>9 DEF DatabaseAck, DatabaseRefuse
  <2>3. \A x \in Device : \A i \in 1..Len(outstanding'[x]) :
          \E j \in 1..Len(outstanding[x]) : outstanding'[x][i] = outstanding[x][j]
    <3> SUFFICES ASSUME NEW x \in Device, NEW i \in 1..Len(outstanding'[x])
                 PROVE  \E j \in 1..Len(outstanding[x]) : outstanding'[x][i] = outstanding[x][j]
      OBVIOUS
    <3>1. CASE x = d
      <4>1. i + 1 \in 1..Len(outstanding[d]) /\ outstanding'[d][i] = outstanding[d][i + 1]
        BY <2>1, <2>2, <3>1 DEF TypeOK
      <4> QED
        BY <3>1, <4>1
    <3>2. CASE x # d
      BY <2>2, <3>2 DEF TypeOK
    <3> QED
      BY <3>1, <3>2
  <2>4. \A x \in Device : \A i \in 1..Len(outstanding[x]) :
          \/ x = d /\ i = 1
          \/ \E j \in 1..Len(outstanding'[x]) : outstanding'[x][j] = outstanding[x][i]
    <3> SUFFICES ASSUME NEW x \in Device, NEW i \in 1..Len(outstanding[x]), ~(x = d /\ i = 1)
                 PROVE  \E j \in 1..Len(outstanding'[x]) : outstanding'[x][j] = outstanding[x][i]
      OBVIOUS
    <3>1. CASE x = d
      <4>1. i - 1 \in 1..Len(outstanding'[d]) /\ outstanding'[d][i - 1] = outstanding[d][i]
        BY <2>1, <2>2, <3>1 DEF TypeOK
      <4> QED
        BY <3>1, <4>1
    <3>2. CASE x # d
      BY <2>2, <3>2 DEF TypeOK
    <3> QED
      BY <3>1, <3>2
  <2>5. QueueOrigin'
    <3> SUFFICES ASSUME NEW x \in Device, NEW i \in 1..Len(outstanding'[x])
                 PROVE  /\ account[outstanding'[x][i].email] # None
                        /\ account[outstanding'[x][i].email].uid = outstanding'[x][i].uid
      BY <2>2 DEF QueueOrigin
    <3>1. PICK j \in 1..Len(outstanding[x]) : outstanding'[x][i] = outstanding[x][j]
      BY <2>3
    <3> QED
      BY <3>1 DEF DataPart, QueueOrigin
  <2>6. ProfileBelongsToAccount'
    BY <2>2 DEF DataPart, ProfileBelongsToAccount, NoAccount
  <2>7. SuccessKeepsProfile'
    <3> SUFFICES ASSUME NEW c \in Call, op[c] = "register", state[c] = "succeeded"
                 PROVE  \/ users[user[c]] = email[c]
                        \/ Queued(device[c], user[c])'
                        \/ user[c] \in dropped'
      BY <2>2 DEF SuccessKeepsProfile, Queued
    <3>1. CASE user[c] = w.uid
      <4>1. w.email = email[c]
        BY <2>1, <3>1, SameAccount DEF DataPart
      <4> QED
        BY <2>2, <3>1, <4>1
    <3>2. CASE user[c] # w.uid
      <4> SUFFICES ASSUME NEW i \in 1..Len(outstanding[device[c]]),
                          outstanding[device[c]][i].uid = user[c]
                   PROVE  Queued(device[c], user[c])'
        BY <2>2 DEF DataPart, SuccessKeepsProfile, Queued
      <4>1. device[c] \in Device /\ ~(device[c] = d /\ i = 1)
        BY <2>1, <3>2 DEF TypeOK
      <4>2. PICK j \in 1..Len(outstanding'[device[c]]) :
                   outstanding'[device[c]][j] = outstanding[device[c]][i]
        BY <2>4, <4>1
      <4> QED
        BY <2>2, <4>2 DEF Queued
    <3> QED
      BY <3>1, <3>2
  <2> QED
    BY <2>5, <2>6, <2>7 DEF DataPart
<1>10. ASSUME NEW d \in Device, Terminate(d) PROVE DataPart'
  <2>1. \A x \in Device : outstanding'[x] = IF x = d THEN <<>> ELSE outstanding[x]
    BY <1>10 DEF Terminate, TypeOK
  <2>2. UNCHANGED <<op, device, email, user, account, users>> /\ dropped \subseteq dropped'
    BY <1>10 DEF Terminate
  <2>3. \A i \in 1..Len(outstanding[d]) : outstanding[d][i].uid \in dropped'
    BY <1>10 DEF Terminate
  <2>4. \A c \in Call : state'[c] = "succeeded" => state[c] = "succeeded"
    BY <1>10 DEF Terminate
  <2>5. QueueOrigin'
    BY <2>1, <2>2 DEF DataPart, QueueOrigin
  <2>6. ProfileBelongsToAccount'
    BY <2>2 DEF DataPart, ProfileBelongsToAccount, NoAccount
  <2>7. SuccessKeepsProfile'
    <3> SUFFICES ASSUME NEW c \in Call, op[c] = "register", state[c] = "succeeded"
                 PROVE  \/ users[user[c]] = email[c]
                        \/ Queued(device[c], user[c])'
                        \/ user[c] \in dropped'
      BY <2>2, <2>4 DEF SuccessKeepsProfile, Queued
    <3>1. device[c] \in Device
      BY DEF TypeOK
    <3>2. CASE Queued(device[c], user[c])
      BY <2>1, <2>2, <2>3, <3>1, <3>2 DEF Queued
    <3> QED
      BY <2>2, <3>2 DEF DataPart, SuccessKeepsProfile
  <2> QED
    BY <2>5, <2>6, <2>7 DEF DataPart
<1>11. CASE UNCHANGED vars
  BY <1>11, DataUnchanged DEF vars
<1> QED
  BY <1>1, <1>2, <1>3, <1>4, <1>5, <1>6, <1>7, <1>8, <1>9, <1>10, <1>11
     DEF Next, CallStep, DeviceStep, RegisterUser, LoginUser

-----------------------------------------------------------------------------
\* The inductive invariant holds throughout.
THEOREM Invariance == Spec => []IInv
<1>1. IInv /\ [Next]_vars => IInv'
  BY TypeStep, AuthStep, DataStep DEF IInv, AuthPart, DataPart
<1> QED
  BY IndInit, <1>1, PTL DEF Spec

\* A registration reported as successful by registerUser's handler never loses
\* its profile to the handler itself.
THEOREM ProfileKept == Spec => []SuccessKeepsProfile
<1>1. IInv => SuccessKeepsProfile
  BY DEF IInv
<1> QED
  BY Invariance, <1>1, PTL

\* users/<uid> holds the email of the account with that uid, whatever devices
\* race and however often the database client sends a write again.
THEOREM ProfileOwnership == Spec => []ProfileBelongsToAccount
<1>1. IInv => ProfileBelongsToAccount
  BY DEF IInv
<1> QED
  BY Invariance, <1>1, PTL

\* At most one call of registerUser per email address reports success.
THEOREM Exclusion == Spec => []ExclusiveRegistration
<1>1. IInv => ExclusiveRegistration
  <2> SUFFICES ASSUME IInv,
                      NEW c1 \in Call, NEW c2 \in Call,
                      op[c1] = "register", state[c1] = "succeeded",
                      op[c2] = "register", state[c2] = "succeeded",
                      email[c1] = email[c2]
               PROVE  c1 = c2
    BY DEF ExclusiveRegistration
  <2>1. account[email[c1]].by = c1 /\ account[email[c2]].by = c2
    BY DEF IInv, TypeOK, HandlerOrigin, AnswerOrigin
  <2> QED
    BY <2>1
<1> QED
  BY Invariance, <1>1, PTL
=============================================================================
