---------------------------- MODULE Registration ----------------------------
(***************************************************************************)
(* Account registration and sign-in of the breakpoint app: AuthService,    *)
(* DataService and AppDelegate, running on several devices against one     *)
(* Firebase project.                                                       *)
(*                                                                         *)
(* AuthService.registerUser asks the authentication server for an account  *)
(* and, in the completion handler of that request, hands the user's        *)
(* profile to the database client with updateChildValues.  The handler     *)
(* does not wait for that write: it reports success at once.  Everything   *)
(* between the two stores (an answer that never arrives, a request that is *)
(* carried out after the caller gave up, a process killed with writes      *)
(* still queued in memory) is a step of its own here.                      *)
(*                                                                         *)
(* The authentication server, the database server and the Firebase client  *)
(* library are binaries; they are modelled from how the Swift code uses    *)
(* them.                                                                   *)
(***************************************************************************)
EXTENDS Naturals, Sequences

CONSTANTS
  Device,    \* installations of the app
  Email,     \* email addresses a user may type
  Password,  \* passwords a user may type
  Uid,       \* user identifiers the authentication server may hand out
  Call,      \* the calls of registerUser and loginUser; each is made once
  None,      \* the absent user, account or profile (Swift's nil)
  Unanswered \* the server has not answered the request yet

ASSUME NoneAssumption ==
  /\ None \notin Uid \cup Email
  /\ None \notin [uid: Uid, password: Password, by: Call]
  /\ Unanswered \notin Uid \cup {None}

VARIABLES
  running,     \* devices whose process is up and has called FirebaseApp.configure
  state,       \* state of each call, see CallState
  op,          \* which AuthService method each call is of
  device,      \* device each call is made on
  email,       \* its withEmail argument
  password,    \* its andPassword argument
  request,     \* calls whose request has not reached the server yet
  outcome,     \* what the server answered: a uid, None (an error), or Unanswered
  user,        \* the user argument of the completion handler: a uid or None
  account,     \* the authentication server's accounts, by email
  users,       \* the database's users/<uid> nodes: the email stored there, or None
  outstanding, \* per device, profile writes queued in memory by the database client
  currentUser, \* per device, Auth.auth().currentUser
  dropped      \* history: uids whose queued write was abandoned or refused

vars == <<running, state, op, device, email, password, request, outcome, user,
          account, users, outstanding, currentUser, dropped>>

(***************************************************************************)
(* "idle": not made yet.  "waiting": the client library has the request.   *)
(* "answered": the completion handler is queued on the main thread.        *)
(* "succeeded", "failed": the handler ran and reported true or false.      *)
(* "gone": the process died before the handler ran.                        *)
(***************************************************************************)
CallState == {"idle", "waiting", "answered", "succeeded", "failed", "gone"}

Account == [uid: Uid, password: Password, by: Call]
ProfileWrite == [uid: Uid, email: Email]

NoAccount == None
TakenUids == {account[e].uid : e \in {x \in Email : account[x] # NoAccount}}

\* A profile write for u is queued on device d.
Queued(d, u) == \E i \in 1..Len(outstanding[d]) : outstanding[d][i].uid = u

-----------------------------------------------------------------------------
Init ==
  /\ running = {}
  /\ state = [c \in Call |-> "idle"]
  /\ op \in [Call -> {"register", "login"}]
  /\ device \in [Call -> Device]
  /\ email \in [Call -> Email]
  /\ password \in [Call -> Password]
  /\ request = {}
  /\ outcome = [c \in Call |-> Unanswered]
  /\ user = [c \in Call |-> None]
  /\ account = [e \in Email |-> NoAccount]
  /\ users = [u \in Uid |-> None]
  /\ outstanding = [d \in Device |-> <<>>]
  /\ currentUser = [d \in Device |-> None]
  /\ dropped = {}

\* application(_:didFinishLaunchingWithOptions:) configures Firebase before
\* anything else of the app runs.
DidFinishLaunching(d) ==
  /\ d \notin running
  /\ running' = running \cup {d}
  /\ UNCHANGED <<state, op, device, email, password, request, outcome, user,
                 account, users, outstanding, currentUser, dropped>>

\* What the body of registerUser and of loginUser have in common: hand the
\* request to the client library and return.
Ask(c) ==
  /\ state[c] = "idle"
  /\ device[c] \in running
  /\ state' = [state EXCEPT ![c] = "waiting"]
  /\ request' = request \cup {c}
  /\ UNCHANGED <<running, op, device, email, password, outcome, user, account,
                 users, outstanding, currentUser, dropped>>

\* registerUser(withEmail:andPassword:userCreateComplete:)
RegisterUser(c) == op[c] = "register" /\ Ask(c)

\* loginUser(withEmail:andPassword:loginComplete:)
LoginUser(c) == op[c] = "login" /\ Ask(c)

-----------------------------------------------------------------------------
(* The authentication server and its client library (external).            *)

\* The server carries out a createUser request.  It may do so after the
\* device stopped waiting for it.
ServerCreateUser(c) ==
  /\ c \in request
  /\ op[c] = "register"
  /\ request' = request \ {c}
  /\ \/ /\ account[email[c]] = NoAccount
        /\ \E u \in Uid \ TakenUids :
             /\ account' = [account EXCEPT ![email[c]] =
                              [uid |-> u, password |-> password[c], by |-> c]]
             /\ outcome' = [outcome EXCEPT ![c] = u]
     \/ /\ account[email[c]] # NoAccount    \* email already in use
        /\ outcome' = [outcome EXCEPT ![c] = None]
        /\ UNCHANGED account
  /\ UNCHANGED <<running, state, op, device, email, password, user, users,
                 outstanding, currentUser, dropped>>

\* The server carries out a signIn request.
ServerSignIn(c) ==
  /\ c \in request
  /\ op[c] = "login"
  /\ request' = request \ {c}
  /\ outcome' = [outcome EXCEPT ![c] =
                   IF /\ account[email[c]] # NoAccount
                      /\ account[email[c]].password = password[c]
                   THEN account[email[c]].uid
                   ELSE None]
  /\ UNCHANGED <<running, state, op, device, email, password, user, account,
                 users, outstanding, currentUser, dropped>>

\* The answer arrives: the client library signs the user in and queues the
\* completion handler with the user, or with nil and the server's error.
Receive(c) ==
  /\ state[c] = "waiting"
  /\ outcome[c] # Unanswered
  /\ state' = [state EXCEPT ![c] = "answered"]
  /\ user' = [user EXCEPT ![c] = outcome[c]]
  /\ currentUser' = IF outcome[c] = None
                    THEN currentUser
                    ELSE [currentUser EXCEPT ![device[c]] = outcome[c]]
  /\ UNCHANGED <<running, op, device, email, password, request, outcome,
                 account, users, outstanding, dropped>>

\* No answer in time, or the connection broke: the handler is queued with nil
\* and a network error, whatever the server did or will still do.
GiveUp(c) ==
  /\ state[c] = "waiting"
  /\ state' = [state EXCEPT ![c] = "answered"]
  /\ UNCHANGED <<running, op, device, email, password, request, outcome, user,
                 account, users, outstanding, currentUser, dropped>>

-----------------------------------------------------------------------------
(* The completion handlers of AuthService, each one block on the main      *)
(* thread.                                                                 *)

\* Mutation: the profile is filed under whoever is signed in when the handler
\* runs instead of the user the handler was given.
CreateDBUserForCurrentUser(d, u, e) ==
  outstanding' = [outstanding EXCEPT ![d] = Append(@, [uid |-> currentUser[d], email |-> e])]

\* createDBUser(uid:userData:) on device d: updateChildValues queues the write
\* in the memory of the database client and returns.
CreateDBUser(d, u, e) ==
  outstanding' = [outstanding EXCEPT ![d] = Append(@, [uid |-> u, email |-> e])]

\* Mutation: the handler reports success without handing over the profile.
RegisterHandlerWithoutProfile(c) ==
  /\ state[c] = "answered"
  /\ op[c] = "register"
  /\ state' = [state EXCEPT ![c] = IF user[c] = None THEN "failed" ELSE "succeeded"]
  /\ UNCHANGED <<running, op, device, email, password, request, outcome, user,
                 account, users, outstanding, currentUser, dropped>>

\* Mutation: a refused registration is reported as a success.
RegisterHandlerIgnoringError(c) ==
  /\ state[c] = "answered"
  /\ op[c] = "register"
  /\ IF user[c] = None THEN UNCHANGED outstanding
     ELSE CreateDBUser(device[c], user[c], email[c])
  /\ state' = [state EXCEPT ![c] = "succeeded"]
  /\ UNCHANGED <<running, op, device, email, password, request, outcome, user,
                 account, users, currentUser, dropped>>

\* The handler of createUser: without a user it reports (false, error); with
\* one it queues the profile write and reports (true, nil).
RegisterHandler(c) ==
  /\ state[c] = "answered"
  /\ op[c] = "register"
  /\ \/ /\ user[c] = None
        /\ state' = [state EXCEPT ![c] = "failed"]
        /\ UNCHANGED outstanding
     \/ /\ user[c] # None
        /\ CreateDBUser(device[c], user[c], email[c])
        /\ state' = [state EXCEPT ![c] = "succeeded"]
  /\ UNCHANGED <<running, op, device, email, password, request, outcome, user,
                 account, users, currentUser, dropped>>

\* The handler of signIn only reports whether there is a user.
LoginHandler(c) ==
  /\ state[c] = "answered"
  /\ op[c] = "login"
  /\ state' = [state EXCEPT ![c] = IF user[c] = None THEN "failed" ELSE "succeeded"]
  /\ UNCHANGED <<running, op, device, email, password, request, outcome, user,
                 account, users, outstanding, currentUser, dropped>>

-----------------------------------------------------------------------------
(* The database client and server (external).  A write stays queued until  *)
(* it is acknowledged and is sent again after a lost connection, so the    *)
(* server may carry it out more than once.                                 *)

DatabaseApply(d) ==
  /\ d \in running
  /\ outstanding[d] # <<>>
  /\ users' = [users EXCEPT ![Head(outstanding[d]).uid] = Head(outstanding[d]).email]
  /\ UNCHANGED <<running, state, op, device, email, password, request, outcome,
                 user, account, outstanding, currentUser, dropped>>

\* Only a write the server has carried out is acknowledged.
DatabaseAck(d) ==
  /\ d \in running
  /\ outstanding[d] # <<>>
  /\ users[Head(outstanding[d]).uid] = Head(outstanding[d]).email
  /\ outstanding' = [outstanding EXCEPT ![d] = Tail(@)]
  /\ UNCHANGED <<running, state, op, device, email, password, request, outcome,
                 user, account, users, currentUser, dropped>>

\* The server's rules refuse the write.  createDBUser passes no completion
\* block, so no part of the app hears of it.
DatabaseRefuse(d) ==
  /\ d \in running
  /\ outstanding[d] # <<>>
  /\ users[Head(outstanding[d]).uid] = None
  /\ dropped' = dropped \cup {Head(outstanding[d]).uid}
  /\ outstanding' = [outstanding EXCEPT ![d] = Tail(@)]
  /\ UNCHANGED <<running, state, op, device, email, password, request, outcome,
                 user, account, users, currentUser>>

\* The process ends.  applicationWillTerminate and applicationDidEnterBackground
\* save nothing and disk persistence is never enabled, so queued writes and
\* pending completion handlers are lost; requests already sent are not recalled.
Terminate(d) ==
  /\ d \in running
  /\ running' = running \ {d}
  /\ state' = [c \in Call |-> IF device[c] = d /\ state[c] \in {"waiting", "answered"}
                              THEN "gone" ELSE state[c]]
  /\ dropped' = dropped \cup {outstanding[d][i].uid : i \in 1..Len(outstanding[d])}
  /\ outstanding' = [outstanding EXCEPT ![d] = <<>>]
  /\ UNCHANGED <<op, device, email, password, request, outcome, user, account,
                 users, currentUser>>

-----------------------------------------------------------------------------
CallStep(c) ==
  \/ RegisterUser(c) \/ LoginUser(c)
  \/ ServerCreateUser(c) \/ ServerSignIn(c)
  \/ Receive(c) \/ GiveUp(c)
  \/ RegisterHandler(c) \/ LoginHandler(c)

DeviceStep(d) ==
  \/ DidFinishLaunching(d) \/ Terminate(d)
  \/ DatabaseApply(d) \/ DatabaseAck(d) \/ DatabaseRefuse(d)

Next == (\E c \in Call : CallStep(c)) \/ (\E d \in Device : DeviceStep(d))

\* The client library times a request out, runs every queued handler while the
\* process lives, and keeps sending queued writes.
Fairness ==
  /\ \A c \in Call : WF_vars(Receive(c) \/ GiveUp(c))
  /\ \A c \in Call : WF_vars(RegisterHandler(c)) /\ WF_vars(LoginHandler(c))
  /\ \A d \in Device : WF_vars(DatabaseApply(d)) /\ WF_vars(DatabaseAck(d))

Spec == Init /\ [][Next]_vars /\ Fairness

-----------------------------------------------------------------------------
(* Properties.                                                             *)

\* Every variable keeps its type; in particular the handler is never given a
\* user the server did not answer with.
TypeOK ==
  /\ running \subseteq Device
  /\ state \in [Call -> CallState]
  /\ op \in [Call -> {"register", "login"}]
  /\ device \in [Call -> Device]
  /\ email \in [Call -> Email]
  /\ password \in [Call -> Password]
  /\ request \subseteq Call
  /\ outcome \in [Call -> Uid \cup {None, Unanswered}]
  /\ user \in [Call -> Uid \cup {None}]
  /\ account \in [Email -> Account \cup {NoAccount}]
  /\ users \in [Uid -> Email \cup {None}]
  /\ outstanding \in [Device -> Seq(ProfileWrite)]
  /\ currentUser \in [Device -> Uid \cup {None}]
  /\ dropped \subseteq Uid

\* A registration that reported success keeps its profile: it is in the
\* database, or still queued on the device that registered, or the queue was
\* lost with the process or refused.  The handler itself never forgets it.
SuccessKeepsProfile ==
  \A c \in Call :
    (op[c] = "register" /\ state[c] = "succeeded") =>
      \/ users[user[c]] = email[c]
      \/ Queued(device[c], user[c])
      \/ user[c] \in dropped

\* However many devices race to register one email address, at most one of
\* the calls reports success: the others saw the server's refusal.
ExclusiveRegistration ==
  \A c1, c2 \in Call :
    /\ op[c1] = "register" /\ state[c1] = "succeeded"
    /\ op[c2] = "register" /\ state[c2] = "succeeded"
    /\ email[c1] = email[c2]
    => c1 = c2

\* A profile in the database belongs to the account whose registration wrote
\* it: users/<uid> never holds an email other than that account's.
ProfileBelongsToAccount ==
  \A u \in Uid :
    users[u] # None =>
      /\ account[users[u]] # NoAccount
      /\ account[users[u]].uid = u

\* A reported registration reaches the database unless the queued write is
\* lost with the process or refused by the server.
ProfileArrives ==
  \A c \in Call, u \in Uid :
    (op[c] = "register" /\ state[c] = "succeeded" /\ user[c] = u)
      ~> (users[u] = email[c] \/ u \in dropped)
=============================================================================
