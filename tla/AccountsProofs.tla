----------------------------- MODULE AccountsProofs -----------------------------
(***************************************************************************)
(* Proofs about Accounts, for any sets of sessions, ids, passwords and     *)
(* names.                                                                  *)
(*                                                                         *)
(* Everything rests on one fact about a step: the table only grows (Grows) *)
(* in what an answer may have said of it.  The answers already given then  *)
(* hold because they held before, and so do the sign-ins under way between *)
(* Login and SuccessLogin, when other sessions use the table.              *)
(***************************************************************************)
EXTENDS Accounts, TLAPS

(* A step keeps accounts and their passwords, and takes no name away. *)
Grows ==
  \A u \in Ids : users[u] # None =>
    /\ users'[u] # None
    /\ users'[u].password = users[u].password
    /\ users[u].name # None => users'[u].name # None

(* The user that a new row or name belongs to, as UPDATE and INSERT write it. *)
NewRow(p) == [password |-> Hashing(p), name |-> None]

LEMMA SendType ==
  ASSUME TypeOK, NEW to \in {"signup", "signin"}, NEW u \in Ids, NEW p \in Passwords,
         NEW code \in Codes, Send(to, u, p, code)
  PROVE  told' \subseteq Promises
BY DEF TypeOK, Send

LEMMA FailingType ==
  ASSUME TypeOK, NEW st \in Statements
  PROVE  Failing(st) \subseteq {"ready", "pending", "lost"}
BY DEF TypeOK, Failing

LEMMA NewRowType == ASSUME NEW p \in Passwords PROVE NewRow(p) \in Rows
BY DEF NewRow, Rows, Hashing, Hashes

(* What a step does to the table: nothing, a new account, or a name. *)
LEMMA UsersStep ==
  ASSUME TypeOK, [Next]_vars
  PROVE  \/ UNCHANGED users
         \/ \E u \in Ids, p \in Passwords :
              /\ users[u] = None
              /\ users' = [users EXCEPT ![u] = NewRow(p)]
              /\ UNCHANGED <<userId, signing>>
         \/ \E s \in Sessions, u \in Ids, n \in Names :
              /\ userId[s] = u /\ users[u] # None
              /\ users' = [users EXCEPT ![u].name = n]
              /\ UNCHANGED <<userId, signing>>
<1>1. ASSUME NEW s \in Sessions, NEW u \in Ids, NEW p \in Passwords, SignUp(s, u, p)
      PROVE  \/ UNCHANGED users
             \/ /\ users[u] = None
                /\ users' = [users EXCEPT ![u] = NewRow(p)]
                /\ UNCHANGED <<userId, signing>>
  BY <1>1 DEF SignUp, JoinMembership, JoinMembershipFails, NewRow
<1>2. ASSUME NEW s \in Sessions, NEW u \in Ids, NEW p \in Passwords, Login(s, u, p)
      PROVE  UNCHANGED users
  BY <1>2 DEF Login
<1>3. ASSUME NEW s \in Sessions, NEW n \in Names, RegisterName(s, n)
      PROVE  \/ UNCHANGED users
             \/ \E u \in Ids : /\ userId[s] = u /\ users[u] # None
                               /\ users' = [users EXCEPT ![u].name = n]
                               /\ UNCHANGED <<userId, signing>>
  BY <1>3 DEF RegisterName, NamedBy
<1>4. ASSUME NEW s \in Sessions,
             \/ SuccessLogin(s) \/ GetUserInfo(s) \/ GetUserInfoCrashes(s)
             \/ GetUserIdRaces(s) \/ SessionEnds(s)
      PROVE  UNCHANGED users
  BY <1>4 DEF SuccessLogin, GetUserInfo, GetUserInfoCrashes, GetUserIdRaces, SessionEnds, Ends
<1>5. CASE (\E st \in Statements : CrashIfNull(st)) \/ Stops \/ Connect \/ UNCHANGED vars
  BY <1>5 DEF CrashIfNull, Stops, Connect, Ends, vars
<1> QED
  BY <1>1, <1>2, <1>3, <1>4, <1>5 DEF Next

LEMMA TableGrows == ASSUME TypeOK, [Next]_vars PROVE Grows
<1>1. CASE UNCHANGED users
  BY <1>1 DEF Grows
<1>2. ASSUME NEW u \in Ids, NEW p \in Passwords, users[u] = None,
             users' = [users EXCEPT ![u] = NewRow(p)]
      PROVE  Grows
  BY <1>2 DEF Grows, TypeOK
<1>3. ASSUME NEW u \in Ids, NEW n \in Names, users[u] # None,
             users' = [users EXCEPT ![u].name = n]
      PROVE  Grows
  <2>1. users[u] \in Rows
    BY <1>3 DEF TypeOK
  <2>2. /\ users'[u].password = users[u].password
        /\ users'[u].name = n
        /\ users'[u] \in Rows
        /\ \A v \in Ids \ {u} : users'[v] = users[v]
    BY <1>3, <2>1 DEF TypeOK, Rows
  <2> QED
    BY <2>2, AccountsAssumption DEF Grows
<1> QED
  BY <1>1, <1>2, <1>3, UsersStep

-------------------------------------------------------------------------------
LEMMA UsersType ==
  ASSUME TypeOK, [Next]_vars PROVE users' \in [Ids -> Rows \cup {None}]
<1>1. ASSUME NEW u \in Ids, NEW n \in Names, users[u] # None,
             users' = [users EXCEPT ![u].name = n]
      PROVE  users' \in [Ids -> Rows \cup {None}]
  BY <1>1 DEF TypeOK, Rows
<1> QED
  BY <1>1, UsersStep, NewRowType DEF TypeOK

LEMMA EndsType == ASSUME TypeOK, Ends PROVE TypeOK'
BY DEF TypeOK, Ends

LEMMA TypeStep == ASSUME TypeOK, [Next]_vars PROVE TypeOK'
<1>0. users' \in [Ids -> Rows \cup {None}]
  BY UsersType
<1>1. ASSUME NEW s \in Sessions, NEW u \in Ids, NEW p \in Passwords, SignUp(s, u, p)
      PROVE  TypeOK'
  <2>1. conn' \in {"ready", "pending", "lost"}
    BY <1>1, FailingType DEF SignUp, JoinMembership, JoinMembershipFails, TypeOK, Statements
  <2>2. \E code \in Codes : Send("signup", u, p, code)
    BY <1>1 DEF SignUp, JoinMembership, JoinMembershipFails, Codes
  <2> QED
    BY <1>0, <1>1, <2>1, <2>2, SendType DEF SignUp, TypeOK
<1>2. ASSUME NEW s \in Sessions, NEW u \in Ids, NEW p \in Passwords, Login(s, u, p)
      PROVE  TypeOK'
  <2>1. conn' \in {"ready", "pending", "lost"}
    BY <1>2, FailingType DEF Login, LoginTrue, LoginRefuses, LoginFails, TypeOK, Statements
  <2>2. CASE LoginTrue(s, u, p)
    BY <1>0, <1>2, <2>1, <2>2 DEF Login, LoginTrue, TypeOK, SignIns
  <2>3. CASE LoginRefuses(s, u, p) \/ LoginFails(s, u, p)
    <3>1. UNCHANGED signing /\ \E code \in Codes : Send("signin", u, p, code)
      BY <2>3 DEF LoginRefuses, LoginFails, Codes
    <3> QED
      BY <1>0, <1>2, <2>1, <3>1, SendType DEF Login, TypeOK
  <2> QED
    BY <1>2, <2>2, <2>3 DEF Login
<1>3. ASSUME NEW s \in Sessions, NEW n \in Names, RegisterName(s, n)
      PROVE  TypeOK'
  <2>1. conn' \in {"ready", "pending", "lost"}
    BY <1>3, FailingType DEF RegisterName, TypeOK, Statements
  <2> QED
    BY <1>0, <1>3, <2>1 DEF RegisterName, TypeOK
<1>4. ASSUME NEW s \in Sessions, SuccessLogin(s) PROVE TypeOK'
  <2>1. signing[s] \in SignIns
    BY <1>4 DEF SuccessLogin, TypeOK
  <2>2. Send("signin", signing[s].user, signing[s].password, signing[s].code)
    BY <1>4 DEF SuccessLogin
  <2>3. told' \subseteq Promises
    BY <2>1, <2>2, SendType DEF SignIns, Codes
  <2> QED
    BY <1>0, <1>4, <2>1, <2>3 DEF SuccessLogin, TypeOK, SignIns
<1>5. ASSUME NEW s \in Sessions, GetUserInfo(s) PROVE TypeOK'
  <2>1. conn' \in {"ready", "pending", "lost"}
    BY <1>5, FailingType DEF GetUserInfo, TypeOK, Statements
  <2> QED
    BY <1>0, <1>5, <2>1 DEF GetUserInfo, TypeOK
<1>6. ASSUME NEW s \in Sessions, SessionEnds(s) PROVE TypeOK'
  BY <1>0, <1>6 DEF SessionEnds, TypeOK
<1>7. ASSUME NEW s \in Sessions, GetUserInfoCrashes(s) \/ GetUserIdRaces(s) PROVE TypeOK'
  BY <1>7, EndsType DEF GetUserInfoCrashes, GetUserIdRaces
<1>8. CASE (\E st \in Statements : CrashIfNull(st)) \/ Stops
  BY <1>8, EndsType DEF CrashIfNull, Stops
<1>9. CASE Connect
  BY <1>0, <1>9 DEF Connect, CreateSTMT, TypeOK
<1>10. CASE UNCHANGED vars
  BY <1>10 DEF vars, TypeOK
<1> QED
  BY <1>1, <1>2, <1>3, <1>4, <1>5, <1>6, <1>7, <1>8, <1>9, <1>10 DEF Next

-------------------------------------------------------------------------------
(* An account's promise, for the three places that make one. *)
LEMMA HoldsStill ==
  ASSUME TypeOK, Grows, NEW a \in Promises, Holds(a) PROVE Holds(a)'
<1>1. a.user \in Ids
  BY DEF Promises, Answers
<1> QED
  BY <1>1 DEF Grows, Holds, Compare

LEMMA SendHolds ==
  ASSUME NEW to \in {"signup", "signin"}, NEW u \in Ids, NEW p \in Passwords,
         NEW code \in Codes, Send(to, u, p, code),
         TypeOK, Grows, AnswersHold,
         code = "NONE" \/ code = "USER_NAME_NONE" =>
           /\ users'[u] # None
           /\ Compare(users'[u].password, p)
           /\ to = "signin" /\ code = "NONE" => users'[u].name # None
  PROVE  AnswersHold'
<1> DEFINE a == [to |-> to, user |-> u, password |-> p, code |-> code]
<1>1. told' = told \cup ({a} \cap Promises)
  BY DEF Send
<1>2. ASSUME a \in Promises PROVE Holds(a)'
  <2>1. code \in {"NONE", "USER_NAME_NONE"}
    BY <1>2 DEF Promises
  <2> QED
    BY <2>1 DEF Holds
<1>3. ASSUME NEW b \in told PROVE Holds(b)'
  BY HoldsStill DEF TypeOK, AnswersHold
<1> QED
  BY <1>1, <1>2, <1>3 DEF AnswersHold

LEMMA AnswersStep ==
  ASSUME TypeOK, SignInsHold, AnswersHold, [Next]_vars PROVE AnswersHold'
<1>0. Grows
  BY TableGrows
<1>1. CASE UNCHANGED told
  BY <1>0, <1>1, HoldsStill DEF AnswersHold, TypeOK
<1>2. ASSUME NEW s \in Sessions, NEW u \in Ids, NEW p \in Passwords, SignUp(s, u, p)
      PROVE  AnswersHold'
  <2>1. PICK code \in Codes :
          /\ Send("signup", u, p, code)
          /\ code # "USER_NAME_NONE"
          /\ code = "NONE" => users' = [users EXCEPT ![u] = NewRow(p)]
    BY <1>2 DEF SignUp, JoinMembership, JoinMembershipFails, Codes, NewRow
  <2>2. code = "NONE" => users'[u] = NewRow(p)
    BY <2>1 DEF TypeOK
  <2>3. NewRow(p) # None /\ Compare(NewRow(p).password, p)
    BY NewRowType, AccountsAssumption DEF NewRow, Compare
  <2> QED
    BY <1>0, <2>1, <2>2, <2>3, SendHolds
<1>3. ASSUME NEW s \in Sessions, NEW u \in Ids, NEW p \in Passwords, Login(s, u, p)
      PROVE  AnswersHold'
  <2>1. \/ UNCHANGED told
        \/ \E code \in Codes \ {"NONE", "USER_NAME_NONE"} : Send("signin", u, p, code)
    BY <1>3 DEF Login, LoginTrue, LoginRefuses, LoginFails, Codes
  <2> QED
    BY <1>0, <1>1, <2>1, SendHolds
<1>4. ASSUME NEW s \in Sessions, SuccessLogin(s) PROVE AnswersHold'
  <2>1. signing[s] \in SignIns
    BY <1>4 DEF SuccessLogin, TypeOK
  <2>2. /\ users' = users
        /\ Send("signin", signing[s].user, signing[s].password, signing[s].code)
    BY <1>4 DEF SuccessLogin
  <2>3. /\ users[signing[s].user] # None
        /\ Compare(users[signing[s].user].password, signing[s].password)
        /\ signing[s].code = "NONE" => users[signing[s].user].name # None
    BY <1>4 DEF SuccessLogin, SignInsHold
  <2>4. /\ signing[s].user \in Ids /\ signing[s].password \in Passwords
        /\ signing[s].code \in Codes
    BY <2>1 DEF SignIns, Codes
  <2> QED
    BY <1>0, <2>2, <2>3, <2>4, SendHolds
<1>5. CASE \/ \E s \in Sessions, n \in Names : RegisterName(s, n)
           \/ \E s \in Sessions : \/ GetUserInfo(s) \/ GetUserInfoCrashes(s)
                                  \/ GetUserIdRaces(s) \/ SessionEnds(s)
           \/ \E st \in Statements : CrashIfNull(st)
           \/ Stops \/ Connect \/ UNCHANGED vars
  <2>1. UNCHANGED told
    BY <1>5 DEF RegisterName, GetUserInfo, GetUserInfoCrashes, GetUserIdRaces, SessionEnds,
                CrashIfNull, Stops, Connect, Ends, vars
  <2> QED
    BY <1>1, <2>1
<1> QED
  BY <1>2, <1>3, <1>4, <1>5 DEF Next

LEMMA SignInsStep ==
  ASSUME TypeOK, SignInsHold, [Next]_vars PROVE SignInsHold'
<1>0. Grows
  BY TableGrows
<1>1. ASSUME NEW s \in Sessions, signing'[s] = signing[s], signing[s] # None
      PROVE  /\ users'[signing'[s].user] # None
             /\ Compare(users'[signing'[s].user].password, signing'[s].password)
             /\ signing'[s].code = "NONE" => users'[signing'[s].user].name # None
  <2>1. signing[s].user \in Ids
    BY <1>1 DEF TypeOK, SignIns
  <2> QED
    BY <1>0, <1>1, <2>1 DEF Grows, SignInsHold, Compare
<1>2. ASSUME \A s \in Sessions : signing'[s] \in {signing[s], None} PROVE SignInsHold'
  BY <1>1, <1>2 DEF SignInsHold
<1>3. ASSUME NEW s \in Sessions, NEW u \in Ids, NEW p \in Passwords, Login(s, u, p)
      PROVE  SignInsHold'
  <2>1. CASE LoginTrue(s, u, p)
    <3>1. /\ \A t \in Sessions \ {s} : signing'[t] = signing[t]
          /\ signing'[s].user = u /\ signing'[s].password = p
          /\ signing'[s].code = "NONE" => users[u].name # None
          /\ users[u] # None /\ Compare(users[u].password, p) /\ users' = users
      BY <1>3, <2>1 DEF Login, LoginTrue, TypeOK
    <3> QED
      BY <1>1, <3>1 DEF SignInsHold
  <2>2. CASE LoginRefuses(s, u, p) \/ LoginFails(s, u, p)
    BY <1>2, <2>2 DEF LoginRefuses, LoginFails
  <2> QED
    BY <1>3, <2>1, <2>2 DEF Login
<1>4. ASSUME NEW s \in Sessions, SuccessLogin(s) PROVE SignInsHold'
  <2>1. \A t \in Sessions : signing'[t] \in {signing[t], None}
    BY <1>4 DEF SuccessLogin, TypeOK
  <2> QED
    BY <1>2, <2>1
<1>5. CASE \/ \E s \in Sessions, u \in Ids, p \in Passwords : SignUp(s, u, p)
           \/ \E s \in Sessions, n \in Names : RegisterName(s, n)
           \/ \E s \in Sessions : GetUserInfo(s) \/ SessionEnds(s)
           \/ Connect \/ UNCHANGED vars
  <2>1. UNCHANGED signing
    BY <1>5 DEF SignUp, RegisterName, GetUserInfo, SessionEnds, Connect, vars
  <2> QED
    BY <1>2, <2>1
<1>6. CASE \/ \E s \in Sessions : GetUserInfoCrashes(s) \/ GetUserIdRaces(s)
           \/ \E st \in Statements : CrashIfNull(st)
           \/ Stops
  <2>1. \A s \in Sessions : signing'[s] = None
    BY <1>6 DEF GetUserInfoCrashes, GetUserIdRaces, CrashIfNull, Stops, Ends
  <2> QED
    BY <1>2, <2>1
<1> QED
  BY <1>3, <1>4, <1>5, <1>6 DEF Next

-------------------------------------------------------------------------------
IInv == TypeOK /\ SignInsHold /\ AnswersHold

LEMMA Invariance == Spec => []IInv
<1>1. Init => IInv
  <2> SUFFICES ASSUME Init PROVE IInv
    OBVIOUS
  <2>1. TypeOK
    BY DEF Init, TypeOK, CreateSTMT
  <2> QED
    BY <2>1 DEF Init, IInv, SignInsHold, AnswersHold
<1>2. IInv /\ [Next]_vars => IInv'
  BY TypeStep, SignInsStep, AnswersStep DEF IInv
<1> QED
  BY <1>1, <1>2, PTL DEF Spec

(* The table holds only hashes of passwords, and every variable its type. *)
THEOREM TypeCorrect == Spec => []TypeOK
BY Invariance, PTL DEF IInv

(* What a client was told of an account stays true, over the interleaved   *)
(* handlers of any number of sessions, lost connections and restarts.      *)
THEOREM AnswersStayTrue == Spec => []AnswersHold
BY Invariance, PTL DEF IInv

-------------------------------------------------------------------------------
(* The state functions that the abstract variables stand for. *)
AccountOf == [u \in Ids |-> Account(u)]
OfferedBy == [s \in Sessions |-> IF signing[s] = None THEN None ELSE signing[s].password]

LEMMA AccountIs ==
  ASSUME TypeOK, NEW u \in Ids
  PROVE  /\ AccountOf[u] = None <=> users[u] = None
         /\ users[u] # None => AccountOf[u] = [password |-> users[u].password.hashOf,
                                              name |-> users[u].name]
<1>1. users[u] # None => [password |-> users[u].password.hashOf, name |-> users[u].name] # None
  BY AccountsAssumption DEF TypeOK, Rows, Hashes
<1> QED
  BY <1>1 DEF AccountOf, Account

(* The accounts implement the directory, for any sets of sessions, ids,    *)
(* passwords and names, across lost connections, crashes and restarts.     *)
THEOREM Refinement == Spec => ImplementsDirectory
<1>1. Init => Directory!Init
  BY DEF Init, Directory!Init, Account
<1>2. IInv /\ IInv' /\ [Next]_vars => [Directory!Next]_(Directory!vars)
  <2> SUFFICES ASSUME IInv, IInv', [Next]_vars PROVE [Directory!Next]_(Directory!vars)
    OBVIOUS
  <2>0. TypeOK /\ TypeOK'
    BY DEF IInv
  <2>1. Directory!vars = <<AccountOf, OfferedBy, userId>>
    BY DEF Directory!vars, AccountOf, OfferedBy
  <2>2. (Directory!vars)' = <<AccountOf', OfferedBy', userId'>>
    BY DEF Directory!vars, AccountOf, OfferedBy
  <2>3. ASSUME UNCHANGED users PROVE UNCHANGED AccountOf
    BY <2>3 DEF AccountOf, Account
  <2>4. ASSUME UNCHANGED signing PROVE UNCHANGED OfferedBy
    BY <2>4 DEF OfferedBy
  <2>5. ASSUME NEW u \in Ids, NEW p \in Passwords, users[u] = None,
               users' = [users EXCEPT ![u] = NewRow(p)], UNCHANGED <<userId, signing>>
        PROVE  Directory!Next
    <3>1. NewRow(p) # None /\ NewRow(p) = [password |-> [hashOf |-> p], name |-> None]
      BY NewRowType, AccountsAssumption DEF NewRow, Hashing
    <3>2. \A v \in Ids : users'[v] = IF v = u THEN NewRow(p) ELSE users[v]
      BY <2>0, <2>5 DEF TypeOK
    <3>3. AccountOf' = [AccountOf EXCEPT ![u] = [password |-> p, name |-> None]]
      <4>1. \A v \in Ids \ {u} : AccountOf'[v] = AccountOf[v]
        BY <3>2 DEF AccountOf, Account
      <4>2. NewRow(p).password.hashOf = p /\ NewRow(p).name = None
        BY <3>1
      <4>3. AccountOf'[u] = [password |-> p, name |-> None]
        BY <3>1, <3>2, <4>2 DEF AccountOf, Account
      <4> QED
        BY <4>1, <4>3 DEF AccountOf
    <3>4. AccountOf[u] = None
      BY <2>0, <2>5, AccountIs
    <3>5. Directory!Create(u, p)
      BY <2>4, <2>5, <3>3, <3>4 DEF Directory!Create, AccountOf, OfferedBy
    <3> QED
      BY <3>5 DEF Directory!Next
  <2>6. ASSUME NEW s \in Sessions, NEW u \in Ids, NEW n \in Names, userId[s] = u,
               users[u] # None, users' = [users EXCEPT ![u].name = n],
               UNCHANGED <<userId, signing>>
        PROVE  Directory!Next
    <3>1. users[u] \in Rows
      BY <2>0, <2>6 DEF TypeOK
    <3>2. /\ users'[u] # None /\ users'[u].password = users[u].password
          /\ users'[u].name = n
          /\ \A v \in Ids \ {u} : users'[v] = users[v]
      BY <2>0, <2>6, <3>1, AccountsAssumption DEF TypeOK, Rows
    <3>3. AccountOf[u] = [password |-> users[u].password.hashOf, name |-> users[u].name]
      BY <2>0, <2>6, AccountIs
    <3>4. AccountOf'[u] = [password |-> users[u].password.hashOf, name |-> n]
      BY <3>2 DEF AccountOf, Account
    <3>5. AccountOf' = [AccountOf EXCEPT ![u].name = n]
      <4>1. \A v \in Ids \ {u} : AccountOf'[v] = AccountOf[v]
        BY <3>2 DEF AccountOf, Account
      <4>2. [AccountOf[u] EXCEPT !.name = n] = AccountOf'[u]
        BY <3>3, <3>4
      <4> QED
        BY <4>1, <4>2 DEF AccountOf
    <3>6. AccountOf[u] # None
      BY <2>0, <2>6, AccountIs
    <3>7. Directory!SetName(u, n)
      BY <2>4, <2>6, <3>5, <3>6 DEF Directory!SetName, AccountOf, OfferedBy
    <3> QED
      BY <3>7 DEF Directory!Next
  <2>7. ASSUME UNCHANGED <<users, signing, userId>> PROVE UNCHANGED Directory!vars
    BY <2>1, <2>2, <2>3, <2>4, <2>7
  <2>8. ASSUME NEW S \in SUBSET Sessions, UNCHANGED users,
               userId' = [s \in Sessions |-> IF s \in S THEN Empty ELSE userId[s]],
               \A s \in Sessions : signing'[s] = IF s \in S THEN None ELSE signing[s]
        PROVE  Directory!Next
    <3>1. OfferedBy' = [s \in Sessions |-> IF s \in S THEN None ELSE OfferedBy[s]]
      BY <2>8 DEF OfferedBy
    <3>2. Directory!SignOut(S)
      BY <2>3, <2>8, <3>1 DEF Directory!SignOut, AccountOf, OfferedBy
    <3> QED
      BY <3>2 DEF Directory!Next
  <2>9. ASSUME Ends PROVE Directory!Next
    <3>1. /\ UNCHANGED users
          /\ userId' = [s \in Sessions |-> IF s \in Sessions THEN Empty ELSE userId[s]]
          /\ \A s \in Sessions : signing'[s] = IF s \in Sessions THEN None ELSE signing[s]
      BY <2>9 DEF Ends
    <3> QED
      BY <2>8, <3>1
  <2>10. ASSUME NEW s \in Sessions, NEW u \in Ids, NEW p \in Passwords, SignUp(s, u, p)
         PROVE  [Directory!Next]_(Directory!vars)
    <3>1. UNCHANGED <<userId, signing>>
      BY <2>10 DEF SignUp
    <3>2. \/ UNCHANGED users
          \/ users[u] = None /\ users' = [users EXCEPT ![u] = NewRow(p)]
      BY <2>10 DEF SignUp, JoinMembership, JoinMembershipFails, NewRow
    <3> QED
      BY <2>5, <2>7, <3>1, <3>2
  <2>11. ASSUME NEW s \in Sessions, NEW u \in Ids, NEW p \in Passwords, Login(s, u, p)
         PROVE  [Directory!Next]_(Directory!vars)
    <3>1. UNCHANGED <<userId, users>>
      BY <2>11 DEF Login
    <3>2. CASE UNCHANGED signing
      BY <2>7, <3>1, <3>2
    <3>3. CASE LoginTrue(s, u, p)
      <4>1. /\ \A t \in Sessions \ {s} : signing'[t] = signing[t]
            /\ signing'[s].password = p /\ signing'[s] \in SignIns
        BY <2>0, <3>3 DEF LoginTrue, TypeOK, SignIns
      <4>2. signing'[s] # None
        BY <4>1, AccountsAssumption
      <4>3. OfferedBy' = [OfferedBy EXCEPT ![s] = p]
        BY <4>1, <4>2 DEF OfferedBy
      <4>4. Directory!Offer(s, p)
        BY <2>3, <3>1, <4>3 DEF Directory!Offer, AccountOf, OfferedBy
      <4> QED
        BY <4>4 DEF Directory!Next
    <3> QED
      BY <2>11, <3>2, <3>3 DEF Login, LoginRefuses, LoginFails
  <2>12. ASSUME NEW s \in Sessions, SuccessLogin(s) PROVE Directory!Next
    <3>0. PICK u \in Ids : u = signing[s].user
      BY <2>0, <2>12 DEF SuccessLogin, TypeOK, SignIns
    <3>1. /\ signing[s] # None /\ signing[s] \in SignIns /\ u \in Ids
          /\ UNCHANGED users /\ userId' = [userId EXCEPT ![s] = u]
          /\ signing' = [signing EXCEPT ![s] = None]
      BY <2>0, <2>12, <3>0 DEF SuccessLogin, TypeOK, SignIns
    <3>2. users[u] # None /\ users[u].password = [hashOf |-> signing[s].password]
      BY <3>0, <3>1 DEF IInv, SignInsHold, Compare, Hashing
    <3>3. AccountOf[u] = [password |-> signing[s].password, name |-> users[u].name]
          /\ AccountOf[u] # None
      BY <2>0, <3>1, <3>2, AccountIs
    <3>4. OfferedBy[s] = signing[s].password
      BY <3>1 DEF OfferedBy
    <3>5. OfferedBy' = [OfferedBy EXCEPT ![s] = None]
      BY <2>0, <3>1 DEF OfferedBy, TypeOK
    <3>6. UNCHANGED AccountOf
      BY <2>3, <3>1
    <3>7. AccountOf[u].password = OfferedBy[s]
      BY <3>3, <3>4
    <3>8. Directory!SignIn(s, u) <=>
            /\ AccountOf[u] # None
            /\ AccountOf[u].password = OfferedBy[s]
            /\ userId' = [userId EXCEPT ![s] = u]
            /\ OfferedBy' = [OfferedBy EXCEPT ![s] = None]
            /\ UNCHANGED AccountOf
      BY DEF Directory!SignIn, AccountOf, OfferedBy
    <3> QED
      BY <3>1, <3>3, <3>5, <3>6, <3>7, <3>8 DEF Directory!Next
  <2>13. ASSUME NEW s \in Sessions, NEW n \in Names, RegisterName(s, n)
         PROVE  [Directory!Next]_(Directory!vars)
    <3>1. UNCHANGED <<userId, signing>>
      BY <2>13 DEF RegisterName
    <3>2. \/ UNCHANGED users
          \/ \E u \in Ids : userId[s] = u /\ users[u] # None
                            /\ users' = [users EXCEPT ![u].name = n]
      BY <2>13 DEF RegisterName, NamedBy
    <3> QED
      BY <2>6, <2>7, <3>1, <3>2
  <2>14. ASSUME NEW s \in Sessions, SessionEnds(s) PROVE Directory!Next
    <3>1. /\ UNCHANGED users
          /\ userId' = [t \in Sessions |-> IF t \in {s} THEN Empty ELSE userId[t]]
          /\ \A t \in Sessions : signing'[t] = IF t \in {s} THEN None ELSE signing[t]
      BY <2>0, <2>14 DEF SessionEnds, Idle, TypeOK
    <3> QED
      BY <2>8, <3>1
  <2>15. CASE \/ \E s \in Sessions : GetUserInfo(s)
              \/ Connect \/ UNCHANGED vars
    BY <2>7, <2>15 DEF GetUserInfo, Connect, vars
  <2>16. CASE \/ \E s \in Sessions : GetUserInfoCrashes(s) \/ GetUserIdRaces(s)
              \/ \E st \in Statements : CrashIfNull(st)
              \/ Stops
    BY <2>9, <2>16 DEF GetUserInfoCrashes, GetUserIdRaces, CrashIfNull, Stops
  <2> QED
    BY <2>10, <2>11, <2>12, <2>13, <2>14, <2>15, <2>16 DEF Next
<1> QED
  BY <1>1, <1>2, Invariance, PTL DEF Spec, ImplementsDirectory, Directory!Spec
===============================================================================
