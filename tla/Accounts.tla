-------------------------------- MODULE Accounts --------------------------------
(***************************************************************************)
(* DatabaseManager, and the handlers of PacketHandler that use it: sign-up,*)
(* sign-in, the registration of a name, and the look-up of names when a    *)
(* room is shown.  The handlers of different sessions run on different     *)
(* threads; DatabaseManager::_mutex makes each of its functions one step,  *)
(* but not the handler around it.                                          *)
(*                                                                         *)
(* The table outlives the process.  The connection is made once, when the  *)
(* server starts, and never again; a statement that could not be prepared  *)
(* then stays that way.                                                    *)
(*                                                                         *)
(* What the client is shown of a name is left out: no variable holds it.   *)
(***************************************************************************)
EXTENDS Naturals

CONSTANTS
  Sessions,
  Ids,        \* user ids that clients send; Empty may be one
  Passwords,
  Names,
  LongNames,  \* names the table accepts and a buffer of 50 bytes does not hold
  None,
  Empty       \* the empty string, Session::_user_id of a new session

VARIABLES
  users,      \* the table user: id -> password and name, or None
  conn,       \* "ready"; "pending": loginstmt has a row that was not read to
              \* its end; "lost"
  stmts,      \* statement -> "prepared", "failed" or "null"
  userId,     \* Session::_user_id
  signing,    \* the sign-in whose Login has returned true, or None
  up,         \* the process runs
  told        \* history: the answers ever sent that say what the table holds

vars == <<users, conn, stmts, userId, signing, up, told>>

-------------------------------------------------------------------------------
(* Hash: the string holds the salt, so it depends on more than the password. *)

Hashes == [hashOf : Passwords]

FaultyHashing(p) == p    \* the password itself

Hashing(p) == [hashOf |-> p]

Compare(hash, p) == hash = Hashing(p)

Rows    == [password : Hashes, name : Names \cup {None}]
SignIns == [user : Ids, password : Passwords, code : {"NONE", "USER_NAME_NONE"}]

-------------------------------------------------------------------------------
Codes    == {"NONE", "USER_NAME_NONE", "USER_ALREADY_EXISTS", "INVALID_REQUEST", "UNKNOWN"}
Answers  == [to : {"signup", "signin"}, user : Ids, password : Passwords, code : Codes]
Promises == {a \in Answers : a.code \in {"NONE", "USER_NAME_NONE"}}

(* None is no value of another kind. *)
ASSUME AccountsAssumption ==
  /\ LongNames \subseteq Names
  /\ None \notin Ids \cup Passwords \cup Names \cup Rows \cup SignIns
  /\ None \notin [password : Passwords, name : Names \cup {None}]

Statements == {"login", "join", "name", "info"}    \* in the order CreateSTMT prepares them
Position(st) == CASE st = "login" -> 1 [] st = "join" -> 2 [] st = "name" -> 3 [] OTHER -> 4

TypeOK ==
  /\ users \in [Ids -> Rows \cup {None}]
  /\ conn \in {"ready", "pending", "lost"}
  /\ stmts \in [Statements -> {"prepared", "failed", "null"}]
  /\ userId \in [Sessions -> Ids \cup {Empty}]
  /\ signing \in [Sessions -> SignIns \cup {None}]
  /\ up \in BOOLEAN
  /\ told \subseteq Promises

(* DatabaseManager::CreateSTMT stops at the first statement that it cannot *)
(* create or prepare, and Connect returns true all the same.               *)
CreateSTMT ==
  {[st \in Statements |-> IF Position(st) < k THEN "prepared"
                          ELSE IF Position(st) = k THEN first ELSE "null"] :
     k \in 1 .. 5, first \in {"failed", "null"}}

Init ==
  /\ users = [u \in Ids |-> None]
  /\ conn = "ready"
  /\ stmts \in CreateSTMT
  /\ userId = [s \in Sessions |-> Empty]
  /\ signing = [s \in Sessions |-> None]
  /\ up = TRUE
  /\ told = {}

-------------------------------------------------------------------------------
(* The client library.                                                     *)

(* mysql_stmt_execute refuses a statement while the rows of another one    *)
(* have not been read; it drops the rows of the same statement.            *)
Executes(st) ==
  /\ stmts[st] = "prepared"
  /\ conn = "ready" \/ (conn = "pending" /\ st = "login")

(* A statement that is not executed, or fails: what the connection becomes. *)
(* A lost connection is noticed by the statement that uses it, whether or   *)
(* not the server has executed it.                                          *)
Failing(st) ==
  IF stmts[st] = "failed" THEN {conn}
  ELSE IF Executes(st) THEN {"ready", "lost"} ELSE {conn, "lost"}

(* The process ends, in a crash or not, and its memory is gone. *)
Ends ==
  /\ up' = FALSE
  /\ conn' = "lost"
  /\ stmts' = [st \in Statements |-> "null"]
  /\ userId' = [s \in Sessions |-> Empty]
  /\ signing' = [s \in Sessions |-> None]
  /\ UNCHANGED <<users, told>>

(* mysql_stmt_bind_param on a null pointer *)
CrashIfNull(st) ==
  /\ up /\ stmts[st] = "null"
  /\ Ends

-------------------------------------------------------------------------------
(* The handlers.  The thread of a session in Idle has no other handler     *)
(* under way for it.                                                       *)

Idle(s) == up /\ signing[s] = None

Send(to, u, p, code) ==
  told' = told \cup ({[to |-> to, user |-> u, password |-> p, code |-> code]} \cap Promises)

FaultyJoinMembership(u, p) ==    \* replaces the row of a user that exists
  /\ Executes("join")
  /\ conn' = "ready"
  /\ users' = [users EXCEPT ![u] = [password |-> Hashing(p), name |-> None]]
  /\ Send("signup", u, p, "NONE")

(* JoinMembership with an INSERT that the server executes: error 1062 if   *)
(* the id exists.                                                          *)
JoinMembership(u, p) ==
  /\ Executes("join")
  /\ conn' = "ready"
  /\ IF users[u] = None
     THEN /\ users' = [users EXCEPT ![u] = [password |-> Hashing(p), name |-> None]]
          /\ Send("signup", u, p, "NONE")
     ELSE /\ UNCHANGED users
          /\ Send("signup", u, p, "USER_ALREADY_EXISTS")

(* ... whose answer the server cannot deliver, or that it does not execute; *)
(* the hash may also fail, before the statement is looked at.               *)
JoinMembershipFails(u, p) ==
  /\ \/ UNCHANGED <<users, conn>>
     \/ stmts["join"] # "null" /\ conn' \in Failing("join") /\ UNCHANGED users
     \/ /\ Executes("join") /\ users[u] = None
        /\ conn' = "lost"
        /\ users' = [users EXCEPT ![u] = [password |-> Hashing(p), name |-> None]]
  /\ Send("signup", u, p, "UNKNOWN")

SignUp(s, u, p) ==
  /\ Idle(s)
  /\ JoinMembership(u, p) \/ JoinMembershipFails(u, p)
  /\ UNCHANGED <<stmts, userId, signing, up>>

IsLong(u) == users[u].name \in LongNames

(* Login returns true; the lock is released before SuccessLogin. *)
LoginTrue(s, u, p) ==
  /\ Executes("login")
  /\ users[u] # None /\ ~ IsLong(u) /\ Compare(users[u].password, p)
  /\ conn' = "ready"
  /\ signing' = [signing EXCEPT ![s] =
       [user |-> u, password |-> p, code |-> IF users[u].name = None THEN "USER_NAME_NONE" ELSE "NONE"]]
  /\ UNCHANGED told

(* ... or finds no row, or fetches a row whose name does not fit and       *)
(* leaves it, or fails to fetch, or the password is another.               *)
LoginRefuses(s, u, p) ==
  /\ Executes("login")
  /\ \/ users[u] = None /\ conn' = "ready"
     \/ users[u] # None /\ IsLong(u) /\ conn' = "pending"
     \/ conn' = "lost"
     \/ users[u] # None /\ ~ IsLong(u) /\ ~ Compare(users[u].password, p) /\ conn' = "ready"
  /\ Send("signin", u, p, "INVALID_REQUEST")
  /\ UNCHANGED signing

LoginFails(s, u, p) ==
  /\ stmts["login"] # "null"
  /\ conn' \in Failing("login")
  /\ Send("signin", u, p, "UNKNOWN")
  /\ UNCHANGED signing

Login(s, u, p) ==
  /\ Idle(s)
  /\ LoginTrue(s, u, p) \/ LoginRefuses(s, u, p) \/ LoginFails(s, u, p)
  /\ UNCHANGED <<users, stmts, userId, up>>

(* The rest of the handler: Session::SuccessLogin and the response. *)
SuccessLogin(s) ==
  /\ up /\ signing[s] # None
  /\ userId' = [userId EXCEPT ![s] = signing[s].user]
  /\ signing' = [signing EXCEPT ![s] = None]
  /\ Send("signin", signing[s].user, signing[s].password, signing[s].code)
  /\ UNCHANGED <<users, conn, stmts, up>>

FaultyNamedBy(s) == Ids    \* the id comes from the request

(* The rows that UPDATE finds: the id is the session's, signed in or not.  *)
NamedBy(s) == {userId[s]} \cap Ids

(* UserNameRegister, whose result the handler ignores. *)
RegisterName(s, n) ==
  /\ Idle(s)
  /\ stmts["name"] # "null"
  /\ \/ conn' \in Failing("name") /\ UNCHANGED users
     \/ /\ Executes("name")
        /\ conn' \in {"ready", "lost"}
        /\ \/ \E u \in NamedBy(s) :
                users[u] # None /\ users' = [users EXCEPT ![u].name = n]
           \/ (\A u \in NamedBy(s) : users[u] = None) /\ UNCHANGED users
  /\ UNCHANGED <<stmts, userId, signing, up, told>>

(* GetUserInfo for a member s of a room that is shown to another session.  *)
(* The result is freed whether or not a row was fetched.  The name of a    *)
(* user that has none is read from a buffer that was not written, with a   *)
(* length that was not set: what is shown is anything, ...                 *)
GetUserInfo(s) ==
  /\ up /\ stmts["info"] # "null"
  /\ conn' \in Failing("info")    \* a row that is fetched leaves it ready as well
  /\ UNCHANGED <<users, stmts, userId, signing, up, told>>

(* ... or the copy fails for its length. *)
GetUserInfoCrashes(s) ==
  /\ up /\ Executes("info")
  /\ \E u \in {userId[s]} \cap Ids : users[u] # None /\ users[u].name = None
  /\ Ends

(* The handler of another thread reads the id while SuccessLogin assigns it. *)
GetUserIdRaces(s) ==
  /\ up /\ signing[s] # None
  /\ Ends

-------------------------------------------------------------------------------
(* A connection ends and its Session is destroyed; the next one is new.    *)
SessionEnds(s) ==
  /\ Idle(s)
  /\ userId' = [userId EXCEPT ![s] = Empty]
  /\ UNCHANGED <<users, conn, stmts, signing, up, told>>

(* Disconnect at the end of main, or a crash, at any moment. *)
Stops == up /\ Ends

(* main: a process starts and Connect succeeds. *)
Connect ==
  /\ ~ up
  /\ up' = TRUE
  /\ conn' = "ready"
  /\ stmts' \in CreateSTMT
  /\ UNCHANGED <<users, userId, signing, told>>

Next ==
  \/ \E s \in Sessions, u \in Ids, p \in Passwords : SignUp(s, u, p) \/ Login(s, u, p)
  \/ \E s \in Sessions, n \in Names : RegisterName(s, n)
  \/ \E s \in Sessions : SuccessLogin(s) \/ GetUserInfo(s) \/ GetUserInfoCrashes(s)
       \/ GetUserIdRaces(s) \/ SessionEnds(s)
  \/ \E st \in Statements : CrashIfNull(st)
  \/ Stops \/ Connect

Spec == Init /\ [][Next]_vars

-------------------------------------------------------------------------------
(* What a client was once told stays true, across crashes and restarts: an *)
(* account that was created, or signed in to, exists and keeps its         *)
(* password, and a user whose sign-in said it has a name has one.          *)
Holds(a) ==
  CASE a.code = "NONE" /\ a.to = "signup" ->
         users[a.user] # None /\ Compare(users[a.user].password, a.password)
    [] a.code = "USER_NAME_NONE" ->
         users[a.user] # None /\ Compare(users[a.user].password, a.password)
    [] a.code = "NONE" /\ a.to = "signin" ->
         /\ users[a.user] # None /\ Compare(users[a.user].password, a.password)
         /\ users[a.user].name # None
    [] OTHER -> TRUE

AnswersHold == \A a \in told : Holds(a)

(* A sign-in that Login has let through is of a user that exists, with the *)
(* user's password, and of a user with a name if its answer will say so.   *)
SignInsHold ==
  \A s \in Sessions : signing[s] # None =>
    /\ users[signing[s].user] # None
    /\ Compare(users[signing[s].user].password, signing[s].password)
    /\ signing[s].code = "NONE" => users[signing[s].user].name # None

(* The accounts implement the user directory. *)
Account(u) ==
  IF users[u] = None THEN None
  ELSE [password |-> users[u].password.hashOf, name |-> users[u].name]

Directory == INSTANCE UserDirectory WITH
  account <- [u \in Ids |-> Account(u)],
  offered <- [s \in Sessions |-> IF signing[s] = None THEN None ELSE signing[s].password],
  user <- userId

ImplementsDirectory == Directory!Spec
===============================================================================
