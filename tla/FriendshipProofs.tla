--------------------------- MODULE FriendshipProofs ---------------------------
(***************************************************************************)
(* Proofs about Friendship and about what FriendViews shows of it, for     *)
(* every set of users, accounts and requests.                              *)
(***************************************************************************)
EXTENDS FriendViews, PaginationProofs, FiniteSetTheorems, TLAPS

(* The key of a relation is a pair of users and does not depend on who is  *)
(* named first (ensureUserOrder).                                          *)
LEMMA KeyFacts ==
    ASSUME NEW u \in Users, NEW v \in Users
    PROVE  /\ ensureUserOrder(u, v) \in Users \X Users
           /\ ensureUserOrder(u, v) = ensureUserOrder(v, u)
           /\ u # v => \/ ensureUserOrder(u, v) = <<u, v>> /\ u < v
                       \/ ensureUserOrder(u, v) = <<v, u>> /\ v < u
  BY UsersAssumption DEF ensureUserOrder

(* Two relations share a key only if they join the same two users. *)
LEMMA KeyInjective ==
    ASSUME NEW u \in Users, NEW v \in Users, NEW x \in Users, NEW y \in Users,
           ensureUserOrder(u, v) = ensureUserOrder(x, y)
    PROVE  (x = u /\ y = v) \/ (x = v /\ y = u)
  BY UsersAssumption DEF ensureUserOrder

(* Not every status is a row: NoRow has none. *)
LEMMA NoRowFacts == NoRow.status = "" /\ NoRow.action = 0
  BY DEF NoRow

(* A step that leaves the table and the history alone only has to keep the *)
(* requests in order.                                                      *)
LEMMA TableUntouched ==
    ASSUME IInv, UNCHANGED <<rows, asked>>,
           req' \in [Requests -> {NoRequest} \cup Request], RequestsBacked'
    PROVE  IInv'
  BY DEF IInv, TypeOK, TableConstraints, NobodyDecidedUnasked, PendingBacked, GetFriendship

(* A request in progress is a proper request; moving it on keeps it one. *)
LEMMA RequestTypes ==
    ASSUME IInv, NEW r \in Requests, req[r].step # "idle"
    PROVE  /\ req[r] \in Request
           /\ req[r].user \in Accounts /\ req[r].user \in Users /\ req[r].other \in Users
           /\ \A step \in Steps : Goto(r, step) =>
                 /\ req' \in [Requests -> {NoRequest} \cup Request]
                 /\ req'[r] = [req[r] EXCEPT !.step = step]
                 /\ \A q \in Requests \ {r} : req'[q] = req[q]
           /\ \A res \in Results : Answer(r, res) =>
                 /\ req' \in [Requests -> {NoRequest} \cup Request]
                 /\ req'[r].step = "idle"
                 /\ \A q \in Requests \ {r} : req'[q] = req[q]
  <1>1. req[r] \in Request
    BY DEF IInv, TypeOK, NoRequest
  <1>2. req[r].user \in Accounts /\ req[r].other \in Users
    BY <1>1 DEF Request
  <1>3. ASSUME NEW step \in Steps, Goto(r, step)
        PROVE  /\ req' \in [Requests -> {NoRequest} \cup Request]
               /\ req'[r] = [req[r] EXCEPT !.step = step]
               /\ \A q \in Requests \ {r} : req'[q] = req[q]
    <2>1. [req[r] EXCEPT !.step = step] \in Request
      BY <1>1 DEF Request
    <2>2. QED
      BY <1>3, <2>1 DEF Goto, IInv, TypeOK
  <1>4. ASSUME NEW res \in Results, Answer(r, res)
        PROVE  /\ req' \in [Requests -> {NoRequest} \cup Request]
               /\ req'[r].step = "idle"
               /\ \A q \in Requests \ {r} : req'[q] = req[q]
    <2>1. [req[r] EXCEPT !.step = "idle", !.res = res] \in Request
      BY <1>1 DEF Request, Steps
    <2>2. req' = [req EXCEPT ![r] = [req[r] EXCEPT !.step = "idle", !.res = res]]
      BY <1>4, <1>1 DEF Answer, IInv, TypeOK, Request
    <2>3. [req[r] EXCEPT !.step = "idle", !.res = res].step = "idle"
      BY <1>1 DEF Request
    <2>4. QED
      BY <2>1, <2>2, <2>3 DEF IInv, TypeOK
  <1>5. QED
    BY <1>1, <1>2, <1>3, <1>4, UsersAssumption

(* Answering a request without touching the table keeps the invariant. *)
LEMMA AnswerKeeps ==
    ASSUME IInv, NEW r \in Requests, req[r].step # "idle",
           NEW res \in Results, Answer(r, res), UNCHANGED <<rows, asked>>
    PROVE  IInv'
  <1>1. RequestsBacked'
    BY RequestTypes DEF IInv, RequestsBacked
  <1>2. QED
    BY <1>1, TableUntouched, RequestTypes

(* Moving a request to its next step keeps the invariant if the request    *)
(* has what the next step relies on.                                       *)
LEMMA GotoKeeps ==
    ASSUME IInv, NEW r \in Requests, req[r].step # "idle",
           NEW step \in Steps, Goto(r, step), UNCHANGED <<rows, asked>>,
           step \in {"exists", "status", "details", "create"} => req[r].user # req[r].other,
           step \in {"status", "details", "create"} => req[r].other \in Accounts,
           step = "update" => <<req[r].other, req[r].user>> \in asked
    PROVE  IInv'
  <1>1. /\ req'[r].step = step
        /\ req'[r].user = req[r].user /\ req'[r].other = req[r].other
        /\ \A q \in Requests \ {r} : req'[q] = req[q]
    <2>1. /\ req[r] \in Request
          /\ req'[r] = [req[r] EXCEPT !.step = step]
          /\ \A q \in Requests \ {r} : req'[q] = req[q]
      BY RequestTypes
    <2>2. QED
      BY <2>1 DEF Request
  <1>2. RequestsBacked'
    BY <1>1 DEF IInv, RequestsBacked
  <1>3. QED
    BY <1>2, TableUntouched, RequestTypes

(* The first read of a request establishes nothing yet. *)
LEMMA ReceiveKeeps ==
    ASSUME IInv, NEW r \in Requests, NEW op \in Ops, NEW u \in Accounts, NEW v \in Users,
           Receive(r, op, u, v)
    PROVE  IInv'
  <1> DEFINE new == req'[r]
  <1>1. /\ new \in Request
        /\ new.user = u /\ new.other = v
        /\ new.step \in {"idle", "exists", "read", "delete"}
        /\ new.step = "exists" => u # v
        /\ req' = [req EXCEPT ![r] = new]
    BY DEF Receive, IInv, TypeOK, Request, Ops, Steps, Results, Ok
  <1>2. req' \in [Requests -> {NoRequest} \cup Request]
    BY <1>1 DEF IInv, TypeOK
  <1>3. \A q \in Requests \ {r} : req'[q] = req[q]
    BY <1>1 DEF IInv, TypeOK
  <1>5. UNCHANGED <<rows, asked>>
    BY DEF Receive
  <1>4. RequestsBacked'
    <2> HIDE DEF new
    <2>1. /\ new.step \in {"idle", "exists", "read", "delete"}
          /\ new.step = "exists" => new.user # new.other
      BY <1>1
    <2>2. req'[r] = new
      BY DEF new
    <2>3. QED
      BY <1>3, <1>5, <2>1, <2>2 DEF IInv, RequestsBacked
  <1>6. QED
    BY <1>2, <1>4, <1>5, TableUntouched

(* The reads and checks of a request. *)
LEMMA ReadsKeep ==
    ASSUME IInv, NEW r \in Requests,
           \/ CheckUserExists(r) \/ CheckStatus(r) \/ ReadDetails(r)
           \/ ReadRequest(r) \/ Fail(r)
    PROVE  IInv'
  <1> USE DEF Steps, Results, Ok
  <1>1. CASE CheckUserExists(r)
    <2>1. req[r].user # req[r].other
      BY <1>1 DEF CheckUserExists, IInv, RequestsBacked
    <2>2. CASE req[r].other \in Accounts
      BY <1>1, <2>1, <2>2, GotoKeeps DEF CheckUserExists
    <2>3. CASE req[r].other \notin Accounts
      BY <1>1, <2>3, AnswerKeeps DEF CheckUserExists
    <2>4. QED
      BY <2>2, <2>3
  <1>2. CASE CheckStatus(r)
    <2>1. req[r].user # req[r].other /\ req[r].other \in Accounts
      BY <1>2 DEF CheckStatus, IInv, RequestsBacked
    <2>2. \/ Goto(r, "details") \/ Goto(r, "create")
          \/ Answer(r, "ErrAlreadyExists") \/ Answer(r, "ErrAccessDenied")
      BY <1>2 DEF CheckStatus
    <2>3. req[r].step # "idle" /\ UNCHANGED <<rows, asked>>
      BY <1>2 DEF CheckStatus
    <2>4. QED
      BY <2>1, <2>2, <2>3, GotoKeeps, AnswerKeeps
  <1>3. CASE ReadDetails(r)
    BY <1>3, AnswerKeeps DEF ReadDetails
  <1>4. CASE ReadRequest(r)
    <2> DEFINE u == req[r].user
               v == req[r].other
               row == GetFriendship(u, v)
    <2>1. req[r].step = "read" /\ UNCHANGED <<rows, asked>>
      BY <1>4 DEF ReadRequest
    <2>2. u \in Users /\ v \in Users
      BY <2>1, RequestTypes
    <2>3. CASE row = NoRow
      BY <1>4, <2>1, <2>3, AnswerKeeps DEF ReadRequest
    <2>4. CASE row # NoRow /\ MayAnswer(row, u)
      <3>1. PICK x, y \in Users : /\ ensureUserOrder(u, v) = <<x, y>>
                                  /\ (x = u /\ y = v) \/ (x = v /\ y = u)
        BY <2>2, KeyFacts DEF ensureUserOrder
      <3>2. row.action \in {u, v}
        BY <2>4, <3>1 DEF IInv, TableConstraints, GetFriendship
      <3>3. row.action = v /\ row.status = "pending"
        BY <3>2, <2>4 DEF MayAnswer
      <3>4. GetFriendship(v, u) = row
        BY <2>2, KeyFacts DEF GetFriendship
      <3>5. <<v, u>> \in asked
        BY <2>2, <3>3, <3>4 DEF IInv, PendingBacked
      <3>6. Goto(r, "update")
        BY <1>4, <2>4 DEF ReadRequest
      <3>7. QED
        BY <2>1, <3>5, <3>6, GotoKeeps
    <2>5. CASE row # NoRow /\ ~MayAnswer(row, u)
      BY <1>4, <2>1, <2>5, AnswerKeeps DEF ReadRequest
    <2>6. QED
      BY <2>3, <2>4, <2>5
  <1>5. CASE Fail(r)
    BY <1>5, AnswerKeeps DEF Fail
  <1>6. QED
    BY <1>1, <1>2, <1>3, <1>4, <1>5

(* A statement that writes one row keeps the invariant if the row joins    *)
(* two accounts and the history backs it.                                  *)
LEMMA WriteKeeps ==
    ASSUME IInv, NEW r \in Requests, req[r].step # "idle",
           NEW res \in Results, Answer(r, res),
           NEW u \in Accounts, NEW v \in Users,
           NEW row \in {NoRow} \cup [status : Status \ {"blocked"}, action : Users],
           rows' = [rows EXCEPT ![ensureUserOrder(u, v)] = row],
           asked \subseteq asked', asked' \subseteq Accounts \X Users,
           row # NoRow => u # v /\ v \in Accounts /\ row.action = u,
           row.status = "pending" => <<u, v>> \in asked',
           row.status \in {"accepted", "rejected"} => <<v, u>> \in asked'
    PROVE  IInv'
  <1> DEFINE k == ensureUserOrder(u, v)
  <1>0. u \in Users
    BY UsersAssumption
  <1>1. k \in Users \X Users
    BY <1>0, KeyFacts
  <1>2. /\ rows'[k] = row
        /\ \A p \in Users \X Users : p # k => rows'[p] = rows[p]
    BY <1>1 DEF IInv, TypeOK
  <1>3. TypeOK'
    <2>1. rows' \in [Users \X Users -> {NoRow} \cup [status : Status \ {"blocked"}, action : Users]]
      BY <1>1 DEF IInv, TypeOK
    <2>2. req' \in [Requests -> {NoRequest} \cup Request]
      BY RequestTypes
    <2>3. QED
      BY <2>1, <2>2 DEF TypeOK
  <1>4. TableConstraints'
    <2> SUFFICES ASSUME NEW x \in Users, NEW y \in Users, rows'[<<x, y>>] # NoRow
                 PROVE  /\ x < y
                        /\ x \in Accounts /\ y \in Accounts
                        /\ rows'[<<x, y>>].action \in {x, y}
      BY DEF TableConstraints
    <2>1. CASE <<x, y>> = k
      <3>1. row # NoRow
        BY <2>1, <1>2
      <3>2. (x = u /\ y = v /\ x < y) \/ (x = v /\ y = u /\ x < y)
        BY <2>1, <3>1, <1>0, KeyFacts
      <3>3. rows'[<<x, y>>].action = u
        BY <2>1, <1>2, <3>1
      <3>4. QED
        BY <3>1, <3>2, <3>3
    <2>2. CASE <<x, y>> # k
      BY <2>2, <1>2 DEF IInv, TableConstraints
    <2>3. QED
      BY <2>1, <2>2
  <1>5. \A x, y \in Users : \/ ensureUserOrder(x, y) # k /\ GetFriendship(x, y)' = GetFriendship(x, y)
                            \/ GetFriendship(x, y)' = row /\ ((x = u /\ y = v) \/ (x = v /\ y = u))
    <2> SUFFICES ASSUME NEW x \in Users, NEW y \in Users
                 PROVE  \/ ensureUserOrder(x, y) # k /\ GetFriendship(x, y)' = GetFriendship(x, y)
                        \/ GetFriendship(x, y)' = row /\ ((x = u /\ y = v) \/ (x = v /\ y = u))
      OBVIOUS
    <2>1. ensureUserOrder(x, y) \in Users \X Users
      BY KeyFacts
    <2>2. CASE ensureUserOrder(x, y) = k
      BY <2>2, <1>0, <1>2, KeyInjective DEF GetFriendship
    <2>3. CASE ensureUserOrder(x, y) # k
      BY <2>1, <2>3, <1>2 DEF GetFriendship
    <2>4. QED
      BY <2>2, <2>3
  <1>6. row.status \in {"pending", "accepted", "rejected"} => u # v /\ row.action = u
    BY NoRowFacts
  <1>7. NobodyDecidedUnasked'
    <2> SUFFICES ASSUME NEW x \in Users, NEW y \in Users,
                        GetFriendship(x, y)'.status \in {"accepted", "rejected"},
                        GetFriendship(x, y)'.action = x
                 PROVE  <<y, x>> \in asked'
      BY DEF NobodyDecidedUnasked
    <2>1. CASE GetFriendship(x, y)' = GetFriendship(x, y)
      BY <2>1 DEF IInv, NobodyDecidedUnasked
    <2>2. CASE GetFriendship(x, y)' = row /\ ((x = u /\ y = v) \/ (x = v /\ y = u))
      BY <2>2, <1>6
    <2>3. QED
      BY <1>5, <2>1, <2>2
  <1>8. PendingBacked'
    <2> SUFFICES ASSUME NEW x \in Users, NEW y \in Users,
                        GetFriendship(x, y)'.status = "pending",
                        GetFriendship(x, y)'.action = x
                 PROVE  <<x, y>> \in asked'
      BY DEF PendingBacked
    <2>1. CASE GetFriendship(x, y)' = GetFriendship(x, y)
      BY <2>1 DEF IInv, PendingBacked
    <2>2. CASE GetFriendship(x, y)' = row /\ ((x = u /\ y = v) \/ (x = v /\ y = u))
      BY <2>2, <1>6
    <2>3. QED
      BY <1>5, <2>1, <2>2
  <1>9. RequestsBacked'
    BY RequestTypes DEF IInv, RequestsBacked
  <1>10. QED
    BY <1>3, <1>4, <1>7, <1>8, <1>9 DEF IInv

(* The writes of a request. *)
LEMMA WritesKeep ==
    ASSUME IInv, NEW r \in Requests,
           SendFriendRequest(r) \/ DecideFriendRequest(r) \/ RemoveFriend(r)
    PROVE  IInv'
  <1> DEFINE u == req[r].user
             v == req[r].other
  <1> USE DEF Steps, Results, Ok
  <1>0. req[r].step # "idle" /\ req[r].step \in {"create", "update", "delete"}
    BY DEF SendFriendRequest, DecideFriendRequest, RemoveFriend
  <1>1. /\ u \in Accounts /\ u \in Users /\ v \in Users
        /\ asked \subseteq Accounts \X Users
    BY <1>0, RequestTypes DEF IInv, TypeOK
  <1>2. CASE SendFriendRequest(r)
    <2> DEFINE row == [status |-> "pending", action |-> u]
    <2>1. u # v /\ v \in Accounts
      BY <1>2 DEF SendFriendRequest, IInv, RequestsBacked
    <2>2. row \in [status : Status \ {"blocked"}, action : Users]
      BY <1>1 DEF Status
    <2>3. PICK res \in Results : Answer(r, res)
      BY <1>2 DEF SendFriendRequest, AnswerWrite
    <2>4. /\ rows' = [rows EXCEPT ![ensureUserOrder(u, v)] = row]
          /\ asked' = asked \cup {<<u, v>>}
      BY <1>2 DEF SendFriendRequest, CreateFriendship
    <2>5. asked \subseteq asked' /\ asked' \subseteq Accounts \X Users /\ <<u, v>> \in asked'
      BY <1>1, <2>4
    <2>6. row.status = "pending" /\ row.action = u
      OBVIOUS
    <2>7. QED
      BY <1>0, <1>1, <2>1, <2>2, <2>3, <2>4, <2>5, <2>6, WriteKeeps
  <1>3. CASE DecideFriendRequest(r)
    <2>1. CASE GetFriendship(u, v) = NoRow
      BY <1>0, <1>3, <2>1, AnswerKeeps DEF DecideFriendRequest
    <2>2. CASE GetFriendship(u, v) # NoRow
      <3> DEFINE row == [status |-> Decision(req[r].op), action |-> u]
      <3>1. u # v /\ v \in Accounts
        <4>1. PICK x, y \in Users : /\ ensureUserOrder(u, v) = <<x, y>>
                                    /\ (x = u /\ y = v) \/ (x = v /\ y = u)
          BY <1>1 DEF ensureUserOrder
        <4>2. x < y /\ x \in Accounts /\ y \in Accounts
          BY <2>2, <4>1 DEF IInv, TableConstraints, GetFriendship
        <4>3. QED
          BY <4>1, <4>2, UsersAssumption
      <3>2. Decision(req[r].op) \in {"accepted", "rejected"}
        BY DEF Decision
      <3>3. row \in [status : Status \ {"blocked"}, action : Users]
        BY <1>1, <3>2 DEF Status
      <3>4. PICK res \in Results : Answer(r, res)
        BY <1>3, <2>2 DEF DecideFriendRequest, AnswerWrite
      <3>5. rows' = [rows EXCEPT ![ensureUserOrder(u, v)] = row] /\ asked' = asked
        BY <1>3, <2>2 DEF DecideFriendRequest, UpdateFriendshipStatus
      <3>6. <<v, u>> \in asked
        BY <1>3 DEF DecideFriendRequest, IInv, RequestsBacked
      <3>7. row.status \in {"accepted", "rejected"} /\ row.action = u
        BY <3>2
      <3>8. QED
        BY <1>0, <1>1, <3>1, <3>3, <3>4, <3>5, <3>6, <3>7, WriteKeeps
    <2>3. QED
      BY <2>1, <2>2
  <1>4. CASE RemoveFriend(r)
    <2>1. CASE GetFriendship(u, v) = NoRow
      BY <1>0, <1>4, <2>1, AnswerKeeps DEF RemoveFriend
    <2>2. CASE GetFriendship(u, v) # NoRow
      <3>1. PICK res \in Results : Answer(r, res)
        BY <1>4, <2>2 DEF RemoveFriend, AnswerWrite
      <3>2. rows' = [rows EXCEPT ![ensureUserOrder(u, v)] = NoRow] /\ asked' = asked
        BY <1>4, <2>2 DEF RemoveFriend, DeleteFriendship
      <3>3. QED
        BY <1>0, <1>1, <3>1, <3>2, NoRowFacts, WriteKeeps
    <2>3. QED
      BY <2>1, <2>2
  <1>5. QED
    BY <1>2, <1>3, <1>4

(* The invariant is inductive. *)
LEMMA InitIInv == Init => IInv
  <1> SUFFICES ASSUME Init PROVE IInv
    OBVIOUS
  <1>1. TypeOK
    BY DEF Init, TypeOK
  <1>2. \A u, v \in Users : GetFriendship(u, v) = NoRow
    BY KeyFacts DEF Init, GetFriendship
  <1>3. TableConstraints
    BY DEF Init, TableConstraints
  <1>4. NobodyDecidedUnasked /\ PendingBacked
    BY <1>2, NoRowFacts DEF NobodyDecidedUnasked, PendingBacked
  <1>5. RequestsBacked
    BY DEF Init, RequestsBacked, NoRequest
  <1>6. QED
    BY <1>1, <1>3, <1>4, <1>5 DEF IInv

LEMMA NextIInv == IInv /\ [Next]_vars => IInv'
  <1> SUFFICES ASSUME IInv, [Next]_vars PROVE IInv'
    OBVIOUS
  <1>1. CASE UNCHANGED vars
    BY <1>1 DEF vars, IInv, TypeOK, TableConstraints, NobodyDecidedUnasked, PendingBacked,
                RequestsBacked, GetFriendship
  <1>2. ASSUME NEW r \in Requests, NEW op \in Ops, NEW u \in Accounts, NEW v \in Users,
               Receive(r, op, u, v)
        PROVE  IInv'
    BY <1>2, ReceiveKeeps
  <1>3. ASSUME NEW r \in Requests, Step(r) \/ Fail(r)
        PROVE  IInv'
    BY <1>3, ReadsKeep, WritesKeep DEF Step
  <1>4. QED
    BY <1>1, <1>2, <1>3 DEF Next

(* The table and the requests keep their types. *)
THEOREM TypeCorrect == Spec => []TypeOK
  <1>1. IInv => TypeOK
    BY DEF IInv
  <1>2. QED
    BY <1>1, InitIInv, NextIInv, PTL DEF Spec

(* However many requests run together, no statement of the store writes a  *)
(* row the table's constraints would refuse.                               *)
THEOREM TableConstraintsHold == Spec => []TableConstraints
  <1>1. IInv => TableConstraints
    BY DEF IInv
  <1>2. QED
    BY <1>1, InitIInv, NextIInv, PTL DEF Spec

(* However many requests run together, whoever accepted or rejected had    *)
(* been asked by the other user.                                           *)
THEOREM NobodyDecidedUnaskedHolds == Spec => []NobodyDecidedUnasked
  <1>1. IInv => NobodyDecidedUnasked
    BY DEF IInv
  <1>2. QED
    BY <1>1, InitIInv, NextIInv, PTL DEF Spec

(* Where there is no row only a friend request makes one: a decision that  *)
(* was checked before the row was removed finds nothing to update.         *)
THEOREM NoResurrectionHolds == Spec => NoResurrection
  <1> DEFINE Kept(p) == rows[p] = NoRow => rows'[p] = NoRow \/ rows'[p].status = "pending"
  <1>1. ASSUME IInv, Next, NEW p \in Users \X Users
        PROVE  Kept(p)
    <2>1. rows \in [Users \X Users -> {NoRow} \cup [status : Status \ {"blocked"}, action : Users]]
      BY <1>1 DEF IInv, TypeOK
    <2>2. CASE UNCHANGED rows
      BY <2>2
    <2>3. ASSUME NEW r \in Requests, SendFriendRequest(r)
          PROVE  Kept(p)
      BY <2>1, <2>3 DEF SendFriendRequest, CreateFriendship
    <2>4. ASSUME NEW r \in Requests, DecideFriendRequest(r)
          PROVE  Kept(p)
      <3> DEFINE k == ensureUserOrder(req[r].user, req[r].other)
      <3>1. CASE rows[k] = NoRow
        BY <2>4, <3>1 DEF DecideFriendRequest, GetFriendship
      <3>2. CASE rows[k] # NoRow
        BY <2>1, <2>4, <3>2 DEF DecideFriendRequest, UpdateFriendshipStatus, GetFriendship
      <3>3. QED
        BY <3>1, <3>2
    <2>5. ASSUME NEW r \in Requests, RemoveFriend(r)
          PROVE  Kept(p)
      BY <2>1, <2>5 DEF RemoveFriend, DeleteFriendship
    <2>6. QED
      BY <1>1, <2>2, <2>3, <2>4, <2>5
         DEF Next, Step, Receive, CheckUserExists, CheckStatus, ReadDetails, ReadRequest, Fail
  <1>2. IInv /\ [Next]_vars => [\A p \in Users \X Users : Kept(p)]_vars
    BY <1>1 DEF vars
  <1>3. QED
    BY <1>2, InitIInv, NextIInv, PTL DEF Spec, NoResurrection

-------------------------------------------------------------------------------
(* The relation graph.  The key of an unordered pair is the one under      *)
(* which the service files it, whoever is named first.                     *)
LEMMA PairFacts ==
    ASSUME NEW u \in Accounts, NEW v \in Accounts, u # v
    PROVE  {u, v} \in Graph!Pairs /\ KeyOf({u, v}) = ensureUserOrder(u, v)
  <1>1. u \in Users /\ v \in Users /\ u \in Nat /\ v \in Nat
    BY UsersAssumption
  <1>2. {u, v} \in Graph!Pairs
    BY DEF Graph!Pairs
  <1>3. ensureUserOrder(u, v) \in {u, v} \X {u, v}
    BY DEF ensureUserOrder
  <1>4. ensureUserOrder(u, v)[1] < ensureUserOrder(u, v)[2]
    BY <1>1 DEF ensureUserOrder
  <1>5. ASSUME NEW k \in {u, v} \X {u, v}, k[1] < k[2]
        PROVE  k = ensureUserOrder(u, v)
    BY <1>1, <1>5 DEF ensureUserOrder
  <1>6. QED
    BY <1>2, <1>3, <1>4, <1>5 DEF KeyOf

(* Every pair of the graph joins two different accounts. *)
LEMMA PairsOfAccounts ==
    ASSUME NEW p \in Graph!Pairs
    PROVE  \E u, v \in Accounts : u # v /\ p = {u, v}
  BY DEF Graph!Pairs

(* The graph has the relation that the service reads. *)
LEMMA RelationFacts ==
    /\ Relations = [p \in Graph!Pairs |-> rows[KeyOf(p)]]
    /\ \A u, v \in Accounts : u # v => Relations[{u, v}] = GetFriendship(u, v)
  <1>1. Relations = [p \in Graph!Pairs |-> rows[KeyOf(p)]]
    BY DEF Relations, Graph!Pairs
  <1>2. ASSUME NEW u \in Accounts, NEW v \in Accounts, u # v
        PROVE  Relations[{u, v}] = GetFriendship(u, v)
    BY <1>1, <1>2, PairFacts DEF GetFriendship
  <1>3. QED
    BY <1>1, <1>2

(* A statement that replaces one row replaces one relation of the graph. *)
Writes(u, v, row) == rows' = [rows EXCEPT ![ensureUserOrder(u, v)] = row]
Relates(u, v, row) == Relations' = [Relations EXCEPT ![{u, v}] = row]

LEMMA WriteIsOneRelation ==
    ASSUME IInv, NEW u \in Accounts, NEW v \in Accounts, u # v, NEW row, Writes(u, v, row)
    PROVE  Relates(u, v, row)
  <1> DEFINE k == ensureUserOrder(u, v)
  <1>0. rows' = [rows EXCEPT ![k] = row]
    BY DEF Writes
  <1>1. u \in Users /\ v \in Users
    BY UsersAssumption
  <1>2. k \in Users \X Users /\ k \in DOMAIN rows
    BY <1>1, KeyFacts DEF IInv, TypeOK
  <1>3. ASSUME NEW p \in Graph!Pairs
        PROVE  rows'[KeyOf(p)] = IF p = {u, v} THEN row ELSE rows[KeyOf(p)]
    <2>1. PICK x, y \in Accounts : x # y /\ p = {x, y}
      BY PairsOfAccounts
    <2>2. x \in Users /\ y \in Users
      BY UsersAssumption
    <2>3. KeyOf(p) = ensureUserOrder(x, y) /\ KeyOf({u, v}) = k
      BY <2>1, PairFacts
    <2>4. ensureUserOrder(x, y) \in DOMAIN rows
      BY <2>2, KeyFacts DEF IInv, TypeOK
    <2>5. CASE p = {u, v}
      BY <1>0, <1>2, <2>3, <2>5
    <2>6. CASE p # {u, v}
      <3>1. ensureUserOrder(x, y) # k
        BY <1>1, <2>1, <2>2, <2>6, KeyInjective
      <3>2. QED
        BY <1>0, <2>3, <2>4, <2>6, <3>1
    <2>7. QED
      BY <2>5, <2>6
  <1>4. Relations = [p \in Graph!Pairs |-> rows[KeyOf(p)]]
    BY RelationFacts
  <1>5. Relations' = [p \in Graph!Pairs |-> rows'[KeyOf(p)]]
    BY DEF Relations, Graph!Pairs, KeyOf
  <1>6. QED
    BY <1>3, <1>4, <1>5 DEF Relates

(* With one request at a time, what a request has checked still stands     *)
(* when it writes.                                                         *)
LEMMA NextChecksStand ==
    ASSUME OneAtATime, IInv, ChecksStand, [Next]_vars
    PROVE  ChecksStand'
  <1>1. CASE UNCHANGED vars
    BY <1>1 DEF vars, ChecksStand, GetFriendship
  <1>2. ASSUME NEW r \in Requests, req'[r].step \notin {"create", "update"}
        PROVE  ChecksStand'
    BY <1>2 DEF OneAtATime, ChecksStand
  <1>3. ASSUME NEW r \in Requests, NEW op \in Ops, NEW u \in Accounts, NEW v \in Users,
               Receive(r, op, u, v)
        PROVE  ChecksStand'
    <2>1. req'[r].step \in {"idle", "exists", "read", "delete"}
      BY <1>3 DEF Receive, IInv, TypeOK, Ops
    <2>2. QED
      BY <1>2, <2>1
  <1>4. ASSUME NEW r \in Requests, NEW res \in Results, req[r].step # "idle", Answer(r, res)
        PROVE  ChecksStand'
    <2>1. req'[r].step = "idle"
      BY <1>4, RequestTypes DEF IInv
    <2>2. QED
      BY <1>2, <2>1
  <1>5. ASSUME NEW r \in Requests, NEW step \in Steps \ {"create", "update"},
               req[r].step # "idle", Goto(r, step)
        PROVE  ChecksStand'
    <2>1. req[r] \in Request /\ req'[r] = [req[r] EXCEPT !.step = step]
      BY <1>5, RequestTypes
    <2>2. req'[r].step = step
      BY <2>1 DEF Request
    <2>3. QED
      BY <1>2, <2>2
  <1>6. ASSUME NEW r \in Requests, NEW step \in Steps, req[r].step # "idle", Goto(r, step),
               UNCHANGED rows,
               LET row == GetFriendship(req[r].user, req[r].other)
               IN  /\ step = "create" => row = NoRow \/ row.status = "rejected"
                   /\ step = "update" => MayAnswer(row, req[r].user)
        PROVE  ChecksStand'
    <2>1. /\ req[r] \in Request
          /\ req'[r] = [req[r] EXCEPT !.step = step]
      BY <1>6, RequestTypes
    <2>2. req'[r].step = step /\ req'[r].user = req[r].user /\ req'[r].other = req[r].other
      BY <2>1 DEF Request
    <2>3. QED
      BY <1>6, <2>2 DEF OneAtATime, ChecksStand, GetFriendship
  <1>7. ASSUME NEW r \in Requests, CheckStatus(r)
        PROVE  ChecksStand'
    <2> DEFINE row == GetFriendship(req[r].user, req[r].other)
    <2>1. req[r].step # "idle" /\ UNCHANGED rows
      BY <1>7 DEF CheckStatus
    <2>2. row \in {NoRow} \cup [status : Status \ {"blocked"}, action : Users]
      BY <2>1, RequestTypes, KeyFacts DEF IInv, TypeOK, GetFriendship
    <2>3. row = NoRow \/ row.status \in {"pending", "accepted", "rejected"}
      BY <2>2 DEF Status
    <2>4. \/ Answer(r, "ErrAlreadyExists") \/ Answer(r, "ErrAccessDenied")
          \/ Goto(r, "details")
          \/ Goto(r, "create") /\ row.status \notin {"pending", "accepted"}
      BY <1>7 DEF CheckStatus
    <2>5. QED
      BY <1>4, <1>5, <1>6, <2>1, <2>3, <2>4 DEF Steps, Results
  <1>8. ASSUME NEW r \in Requests, ReadRequest(r)
        PROVE  ChecksStand'
    <2>1. req[r].step # "idle" /\ UNCHANGED rows
      BY <1>8 DEF ReadRequest
    <2>2. \/ Answer(r, "ErrDB") \/ Answer(r, "ErrNotFound")
          \/ /\ Goto(r, "update")
             /\ MayAnswer(GetFriendship(req[r].user, req[r].other), req[r].user)
      BY <1>8 DEF ReadRequest
    <2>3. QED
      BY <1>4, <1>6, <2>1, <2>2 DEF Steps, Results
  <1>9. ASSUME NEW r \in Requests,
               CheckUserExists(r) \/ ReadDetails(r) \/ SendFriendRequest(r)
                 \/ DecideFriendRequest(r) \/ RemoveFriend(r) \/ Fail(r)
        PROVE  ChecksStand'
    <2>1. req[r].step # "idle"
      BY <1>9 DEF CheckUserExists, ReadDetails, SendFriendRequest, DecideFriendRequest,
                  RemoveFriend, Fail
    <2>2. Goto(r, "status") \/ \E res \in Results : Answer(r, res)
      BY <1>9 DEF CheckUserExists, ReadDetails, SendFriendRequest, DecideFriendRequest,
                  RemoveFriend, Fail, AnswerWrite, Results, Ok
    <2>3. QED
      BY <1>4, <1>5, <2>1, <2>2 DEF Steps
  <1>10. QED
    BY <1>1, <1>3, <1>7, <1>8, <1>9 DEF Next, Step

(* One step of the service is one operation of the graph, or none. *)
LEMMA StepsAreOperations ==
    ASSUME OneAtATime, IInv, ChecksStand, [Next]_vars
    PROVE  [Graph!Next]_Relations
  <1>1. CASE UNCHANGED rows
    BY <1>1 DEF Relations
  <1>2. NoRow = Graph!Nothing
    BY DEF NoRow, Graph!Nothing
  <1>3. ASSUME NEW r \in Requests, req[r].step # "idle",
               GetFriendship(req[r].user, req[r].other) # NoRow
        PROVE  req[r].user # req[r].other /\ req[r].other \in Accounts
    <2> DEFINE u == req[r].user
               v == req[r].other
    <2>1. u \in Users /\ v \in Users
      BY <1>3, RequestTypes
    <2>2. PICK x, y \in Users : /\ ensureUserOrder(u, v) = <<x, y>>
                                /\ (x = u /\ y = v) \/ (x = v /\ y = u)
      BY <2>1 DEF ensureUserOrder
    <2>3. x < y /\ x \in Accounts /\ y \in Accounts
      BY <1>3, <2>2 DEF IInv, TableConstraints, GetFriendship
    <2>4. QED
      BY <2>2, <2>3, UsersAssumption
  <1>4. ASSUME NEW r \in Requests, SendFriendRequest(r)
        PROVE  Graph!Next
    <2> PICK u, v : u = req[r].user /\ v = req[r].other
      OBVIOUS
    <2>1. u \in Accounts /\ v \in Accounts /\ u # v
      BY <1>4, RequestTypes DEF SendFriendRequest, IInv, RequestsBacked
    <2>2. Writes(u, v, [status |-> "pending", action |-> u])
      BY <1>4 DEF SendFriendRequest, CreateFriendship, Writes
    <2>3. GetFriendship(u, v) = NoRow \/ GetFriendship(u, v).status = "rejected"
      BY <1>4 DEF SendFriendRequest, ChecksStand
    <2>4. Relates(u, v, [status |-> "pending", action |-> u])
      BY <2>1, <2>2, WriteIsOneRelation
    <2>5. Graph!Send({u, v}, u)
      BY <1>2, <2>1, <2>3, <2>4, RelationFacts DEF Graph!Send, Graph!Put, Relates
    <2>6. QED
      BY <2>1, <2>5, PairFacts DEF Graph!Next
  <1>5. ASSUME NEW r \in Requests, DecideFriendRequest(r)
        PROVE  UNCHANGED rows \/ Graph!Next
    <2> PICK u, v : u = req[r].user /\ v = req[r].other
      OBVIOUS
    <2> PICK status : status = Decision(req[r].op)
      OBVIOUS
    <2>1. CASE GetFriendship(u, v) = NoRow
      BY <1>5, <2>1 DEF DecideFriendRequest
    <2>2. CASE GetFriendship(u, v) # NoRow
      <3>1. u \in Accounts /\ v \in Accounts /\ u # v
        BY <1>3, <1>5, <2>2, RequestTypes DEF DecideFriendRequest
      <3>2. Writes(u, v, [status |-> status, action |-> u])
        BY <1>5, <2>2 DEF DecideFriendRequest, UpdateFriendshipStatus, Writes
      <3>3. GetFriendship(u, v).status = "pending" /\ GetFriendship(u, v).action # u
        BY <1>5 DEF DecideFriendRequest, ChecksStand, MayAnswer
      <3>4. status \in {"accepted", "rejected"}
        BY DEF Decision
      <3>5. Relates(u, v, [status |-> status, action |-> u])
        BY <3>1, <3>2, WriteIsOneRelation
      <3>6. Graph!Decide({u, v}, u)
        BY <3>1, <3>3, <3>4, <3>5, RelationFacts DEF Graph!Decide, Graph!Put, Relates
      <3>7. QED
        BY <3>1, <3>6, PairFacts DEF Graph!Next
    <2>3. QED
      BY <2>1, <2>2
  <1>6. ASSUME NEW r \in Requests, RemoveFriend(r)
        PROVE  UNCHANGED rows \/ Graph!Next
    <2> PICK u, v : u = req[r].user /\ v = req[r].other
      OBVIOUS
    <2>1. CASE GetFriendship(u, v) = NoRow
      BY <1>6, <2>1 DEF RemoveFriend
    <2>2. CASE GetFriendship(u, v) # NoRow
      <3>1. u \in Accounts /\ v \in Accounts /\ u # v
        BY <1>3, <1>6, <2>2, RequestTypes DEF RemoveFriend
      <3>2. Writes(u, v, NoRow)
        BY <1>6, <2>2 DEF RemoveFriend, DeleteFriendship, Writes
      <3>3. Relates(u, v, NoRow)
        BY <3>1, <3>2, WriteIsOneRelation
      <3>4. Graph!Remove({u, v})
        BY <1>2, <2>2, <3>1, <3>3, RelationFacts DEF Graph!Remove, Relates
      <3>5. QED
        BY <3>1, <3>4, PairFacts DEF Graph!Next
    <2>3. QED
      BY <2>1, <2>2
  <1>7. UNCHANGED rows \/ \E r \in Requests : SendFriendRequest(r) \/ DecideFriendRequest(r)
                                                \/ RemoveFriend(r)
    BY DEF Next, Step, Receive, CheckUserExists, CheckStatus, ReadDetails, ReadRequest, Fail, vars
  <1>8. QED
    BY <1>1, <1>4, <1>5, <1>6, <1>7

(* With one request at a time the friend service implements FriendGraph:   *)
(* the table, read as a graph, changes only by its atomic operations.      *)
THEOREM FriendGraphImplemented == OneAtATime /\ Spec => ImplementsFriendGraph
  <1>1. Init => Graph!Init
    <2> SUFFICES ASSUME Init PROVE Graph!Init
      OBVIOUS
    <2>1. NoRow = Graph!Nothing
      BY DEF NoRow, Graph!Nothing
    <2>2. ASSUME NEW p \in Graph!Pairs
          PROVE  rows[KeyOf(p)] = NoRow
      <3>1. PICK u, v \in Accounts : u # v /\ p = {u, v}
        BY PairsOfAccounts
      <3>2. u \in Users /\ v \in Users
        BY UsersAssumption
      <3>3. KeyOf(p) \in Users \X Users
        BY <3>1, <3>2, PairFacts, KeyFacts
      <3>4. QED
        BY <3>3 DEF Init
    <2>3. QED
      BY <2>1, <2>2, RelationFacts DEF Graph!Init
  <1>2. Init => ChecksStand
    BY DEF Init, ChecksStand, NoRequest
  <1>3. SUFFICES ASSUME OneAtATime PROVE Spec => Graph!Spec
    BY DEF ImplementsFriendGraph
  <1>4. IInv /\ ChecksStand /\ [Next]_vars => ChecksStand' /\ [Graph!Next]_Relations
    BY <1>3, NextChecksStand, StepsAreOperations
  <1>5. QED
    BY <1>1, <1>2, <1>4, InitIInv, NextIInv, PTL DEF Spec, Graph!Spec

(* With one request at a time, what the comment at AcceptFriendRequest     *)
(* says is true: whoever decides on a pending request is not its sender.   *)
(* Run friendship_overlap shows that two requests are enough to break it.  *)
THEOREM NobodyDecidesOwnRequestAlone == OneAtATime /\ Spec => NobodyDecidesOwnRequest
  <1> DEFINE Fair(p) == rows[p].status = "pending" /\ rows'[p].status \in {"accepted", "rejected"}
                           => rows'[p].action # rows[p].action
  <1>1. ASSUME IInv, ChecksStand, Next, NEW p \in Users \X Users
        PROVE  Fair(p)
    <2>1. p \in DOMAIN rows
      BY <1>1 DEF IInv, TypeOK
    <2>2. CASE UNCHANGED rows
      BY <2>2
    <2>3. ASSUME NEW r \in Requests, SendFriendRequest(r)
          PROVE  Fair(p)
      BY <2>1, <2>3 DEF SendFriendRequest, CreateFriendship
    <2>4. ASSUME NEW r \in Requests, DecideFriendRequest(r)
          PROVE  Fair(p)
      <3> PICK k : k = ensureUserOrder(req[r].user, req[r].other)
        OBVIOUS
      <3>1. CASE rows[k] = NoRow
        BY <2>4, <3>1 DEF DecideFriendRequest, GetFriendship
      <3>2. CASE rows[k] # NoRow
        <4>1. rows' = [rows EXCEPT ![k] = [status |-> Decision(req[r].op), action |-> req[r].user]]
          BY <2>4, <3>2 DEF DecideFriendRequest, UpdateFriendshipStatus, GetFriendship
        <4>2. rows[k].action # req[r].user
          BY <1>1, <2>4 DEF DecideFriendRequest, ChecksStand, MayAnswer, GetFriendship
        <4>3. QED
          BY <2>1, <4>1, <4>2
      <3>3. QED
        BY <3>1, <3>2
    <2>5. ASSUME NEW r \in Requests, RemoveFriend(r)
          PROVE  Fair(p)
      <3>1. rows'[p] = rows[p] \/ rows'[p] = NoRow
        BY <2>1, <2>5 DEF RemoveFriend, DeleteFriendship
      <3>2. NoRow.status \notin {"accepted", "rejected"}
        BY Zenon DEF NoRow
      <3>3. QED
        BY <3>1, <3>2
    <2>6. QED
      BY <1>1, <2>2, <2>3, <2>4, <2>5
         DEF Next, Step, Receive, CheckUserExists, CheckStatus, ReadDetails, ReadRequest, Fail
  <1>2. IInv /\ ChecksStand /\ [Next]_vars => [\A p \in Users \X Users : Fair(p)]_vars
    BY <1>1 DEF vars
  <1>3. Init => ChecksStand
    BY DEF Init, ChecksStand, NoRequest
  <1>4. SUFFICES ASSUME OneAtATime PROVE Spec => NobodyDecidesOwnRequest
    OBVIOUS
  <1>5. IInv /\ ChecksStand /\ [Next]_vars => ChecksStand'
    BY <1>4, NextChecksStand
  <1>6. QED
    BY <1>2, <1>3, <1>5, InitIInv, NextIInv, PTL DEF Spec, NobodyDecidesOwnRequest

-------------------------------------------------------------------------------
(* The lists.  A row joins two accounts, has one of three statuses, and    *)
(* the last move was made by one of the two.                               *)
LEMMA RowFacts ==
    ASSUME IInv, NEW u \in Users, NEW v \in Users
    PROVE  /\ GetFriendship(u, v) = GetFriendship(v, u)
           /\ GetFriendship(u, v) # NoRow =>
                 /\ u \in Accounts /\ v \in Accounts /\ u # v
                 /\ GetFriendship(u, v).status \in {"pending", "accepted", "rejected"}
                 /\ GetFriendship(u, v).action \in {u, v}
  <1>1. GetFriendship(u, v) = GetFriendship(v, u)
    BY KeyFacts DEF GetFriendship
  <1>2. ASSUME GetFriendship(u, v) # NoRow
        PROVE  /\ u \in Accounts /\ v \in Accounts /\ u # v
               /\ GetFriendship(u, v).action \in {u, v}
    <2>1. PICK x, y \in Users : /\ ensureUserOrder(u, v) = <<x, y>>
                                /\ (x = u /\ y = v) \/ (x = v /\ y = u)
      BY DEF ensureUserOrder
    <2>2. x < y /\ x \in Accounts /\ y \in Accounts /\ rows[<<x, y>>].action \in {x, y}
      BY <1>2, <2>1 DEF IInv, TableConstraints, GetFriendship
    <2>3. QED
      BY <2>1, <2>2, UsersAssumption DEF GetFriendship
  <1>3. GetFriendship(u, v) \in {NoRow} \cup [status : Status \ {"blocked"}, action : Users]
    BY KeyFacts DEF IInv, TypeOK, GetFriendship
  <1>4. GetFriendship(u, v) # NoRow =>
            GetFriendship(u, v).status \in {"pending", "accepted", "rejected"}
    BY <1>3 DEF Status
  <1>5. QED
    BY <1>1, <1>2, <1>4

(* Which list of u another user v is in depends on their row alone. *)
LEMMA ListFacts ==
    ASSUME IInv, NEW u \in Users, NEW v \in Users, u # v
    PROVE  LET row == GetFriendship(u, v)
           IN  /\ v \in GetUserFriends(u) <=> row # NoRow /\ row.status = "accepted"
               /\ v \in GetFriendshipRequests(u) <=> row # NoRow /\ IsIncoming(row, u)
               /\ v \in GetSentRequests(u) <=> row # NoRow /\ IsOutgoing(row, u)
               /\ v \in GetAllUsers(u) <=> row = NoRow /\ v \in Accounts
  BY DEF GetUserFriends, GetFriendshipRequests, GetSentRequests, GetAllUsers, Related, AreFriends

(* Each other account is in exactly one of the lists. *)
LEMMA OneList ==
    ASSUME IInv, NEW u \in Accounts, NEW v \in Accounts \ {u}
    PROVE  LET lists == <<GetUserFriends(u), GetFriendshipRequests(u),
                          GetSentRequests(u), GetAllUsers(u)>>
           IN  \E i \in 1..4 : \A j \in 1..4 : v \in lists[j] <=> i = j
  <1> DEFINE row == GetFriendship(u, v)
             lists == <<GetUserFriends(u), GetFriendshipRequests(u),
                        GetSentRequests(u), GetAllUsers(u)>>
  <1>1. u \in Users /\ v \in Users /\ u # v
    BY UsersAssumption
  <1>2. /\ v \in lists[1] <=> row # NoRow /\ row.status = "accepted"
        /\ v \in lists[2] <=> row # NoRow /\ IsIncoming(row, u)
        /\ v \in lists[3] <=> row # NoRow /\ IsOutgoing(row, u)
        /\ v \in lists[4] <=> row = NoRow
    BY <1>1, ListFacts
  <1>3. row # NoRow => row.status \in {"pending", "accepted", "rejected"}
    BY <1>1, RowFacts
  <1> HIDE DEF lists, row
  <1>4. CASE row = NoRow
    <2>1. \A j \in 1..4 : v \in lists[j] <=> 4 = j
      BY <1>2, <1>4
    <2>2. QED
      BY <2>1 DEF lists
  <1>5. CASE row # NoRow /\ row.status = "accepted"
    <2>1. \A j \in 1..4 : v \in lists[j] <=> 1 = j
      BY <1>2, <1>5 DEF IsIncoming, IsOutgoing
    <2>2. QED
      BY <2>1 DEF lists
  <1>6. CASE row # NoRow /\ IsIncoming(row, u)
    <2>1. \A j \in 1..4 : v \in lists[j] <=> 2 = j
      BY <1>2, <1>6 DEF IsIncoming, IsOutgoing
    <2>2. QED
      BY <2>1 DEF lists
  <1>7. CASE row # NoRow /\ IsOutgoing(row, u)
    <2>1. \A j \in 1..4 : v \in lists[j] <=> 3 = j
      BY <1>2, <1>7 DEF IsIncoming, IsOutgoing
    <2>2. QED
      BY <2>1 DEF lists
  <1>8. QED
    BY <1>3, <1>4, <1>5, <1>6, <1>7 DEF IsIncoming, IsOutgoing

(* The counters of one scan are the lengths of the lists. *)
LEMMA CountsAreLengths ==
    ASSUME IInv, NEW u \in Accounts
    PROVE  CountUserRelations(u) = [accepted |-> Cardinality(GetUserFriends(u)),
                                    pending  |-> Cardinality(GetFriendshipRequests(u)),
                                    sent     |-> Cardinality(GetSentRequests(u)),
                                    blocked  |-> 0]
  <1> DEFINE Of(status)      == {v \in Related(u) : GetFriendship(u, v).status = status}
             Mine(status)    == {v \in Related(u) : /\ GetFriendship(u, v).status = status
                                                    /\ GetFriendship(u, v).action = u}
             Theirs(status)  == {v \in Related(u) : /\ GetFriendship(u, v).status = status
                                                    /\ GetFriendship(u, v).action # u}
  <1>1. u \in Users
    BY UsersAssumption
  <1>2. Related(u) \subseteq Accounts /\ Related(u) \subseteq Users
    BY <1>1, RowFacts DEF Related
  <1>3. \A A \in SUBSET Related(u) : IsFiniteSet(A) /\ Cardinality(A) \in Nat
    BY <1>2, AccountsAssumption, FS_Subset, FS_CardinalityType
  <1>4. ASSUME NEW A \in SUBSET Related(u), NEW B \in SUBSET Related(u), A \cap B = {}
        PROVE  Cardinality(A) + Cardinality(B) = Cardinality(A \cup B)
    <2>1. IsFiniteSet(A) /\ IsFiniteSet(B) /\ Cardinality(A) \in Nat /\ Cardinality(B) \in Nat
      BY <1>3
    <2>2. Cardinality(A \cup B) = Cardinality(A) + Cardinality(B) - Cardinality(A \cap B)
      BY <2>1, FS_Union
    <2>3. Cardinality(A \cap B) = 0
      BY <1>4, FS_EmptySet
    <2>4. QED
      BY <2>1, <2>2, <2>3
  <1>5. CountUserRelations(u) = [accepted |-> Cardinality(Of("accepted")),
                                 pending  |-> Cardinality(Theirs("pending")) + Cardinality(Mine("rejected")),
                                 sent     |-> Cardinality(Mine("pending")) + Cardinality(Theirs("rejected")),
                                 blocked  |-> Cardinality(Of("blocked"))]
    BY DEF CountUserRelations
  <1>6. Of("accepted") = GetUserFriends(u)
    BY DEF GetUserFriends, AreFriends
  <1>7. /\ Theirs("pending") \cap Mine("rejected") = {}
        /\ Theirs("pending") \cup Mine("rejected") = GetFriendshipRequests(u)
    BY DEF GetFriendshipRequests, IsIncoming
  <1>8. /\ Mine("pending") \cap Theirs("rejected") = {}
        /\ Mine("pending") \cup Theirs("rejected") = GetSentRequests(u)
    BY DEF GetSentRequests, IsOutgoing
  <1>9. Of("blocked") = {}
    BY <1>1, RowFacts DEF Related
  <1> HIDE DEF Of, Mine, Theirs
  <1>10. /\ Theirs("pending") \subseteq Related(u) /\ Mine("rejected") \subseteq Related(u)
         /\ Mine("pending") \subseteq Related(u) /\ Theirs("rejected") \subseteq Related(u)
    BY DEF Mine, Theirs
  <1>11. Cardinality(Theirs("pending")) + Cardinality(Mine("rejected"))
            = Cardinality(GetFriendshipRequests(u))
    BY <1>4, <1>7, <1>10
  <1>12. Cardinality(Mine("pending")) + Cardinality(Theirs("rejected"))
            = Cardinality(GetSentRequests(u))
    BY <1>4, <1>8, <1>10
  <1>13. QED
    BY <1>5, <1>6, <1>9, <1>11, <1>12, FS_EmptySet

(* A search by type looks through the list of that type. *)
LEMMA ScopesAreLists ==
    ASSUME NEW u \in Accounts
    PROVE  /\ SearchScope(u, "accepted") = GetUserFriends(u)
           /\ SearchScope(u, "pending") = GetFriendshipRequests(u)
           /\ SearchScope(u, "sent") = GetSentRequests(u)
           /\ u \notin Related(u) => SearchScope(u, "notFriends") = GetAllUsers(u) \cup {u}
  <1>1. GetUserIDsByFriendType(u, "accepted") = GetUserFriends(u)
    BY DEF GetUserIDsByFriendType, GetUserFriends, AreFriends
  <1>2. GetUserIDsByFriendType(u, "pending") = GetFriendshipRequests(u)
    BY DEF GetUserIDsByFriendType, GetFriendshipRequests
  <1>3. GetUserIDsByFriendType(u, "sent") = GetSentRequests(u)
    BY DEF GetUserIDsByFriendType, GetSentRequests
  <1>4. GetUserIDsByFriendType(u, "notFriends") = Related(u)
    BY DEF GetUserIDsByFriendType
  <1>5. QED
    BY <1>1, <1>2, <1>3, <1>4 DEF SearchScope, GetAllUsers

(* The lists are about other accounts. *)
LEMMA ListsOfOthers ==
    ASSUME IInv, NEW u \in Accounts
    PROVE  /\ Related(u) \subseteq Accounts \ {u}
           /\ GetUserFriends(u) \subseteq Accounts \ {u}
           /\ GetFriendshipRequests(u) \subseteq Accounts \ {u}
           /\ GetSentRequests(u) \subseteq Accounts \ {u}
           /\ GetAllUsers(u) \subseteq Accounts \ {u}
  <1>1. Related(u) \subseteq Accounts \ {u}
    BY RowFacts, UsersAssumption DEF Related
  <1>2. QED
    BY <1>1 DEF GetUserFriends, GetFriendshipRequests, GetSentRequests, GetAllUsers

(* In every state of the invariant the lists add up. *)
LEMMA ListsAddUp ==
    ASSUME IInv
    PROVE  RelationLists
  <1> SUFFICES ASSUME NEW u \in Accounts
               PROVE  LET lists  == <<GetUserFriends(u), GetFriendshipRequests(u),
                                      GetSentRequests(u), GetAllUsers(u)>>
                          counts == CountUserRelations(u)
                      IN  /\ \A v \in Accounts \ {u} : \E i \in 1..4 :
                                 \A j \in 1..4 : v \in lists[j] <=> i = j
                          /\ \A i \in 1..4 : lists[i] \subseteq Accounts \ {u}
                          /\ \A v \in Accounts \ {u} :
                                 /\ v \in GetUserFriends(u) <=> u \in GetUserFriends(v)
                                 /\ v \in GetSentRequests(u) <=> u \in GetFriendshipRequests(v)
                          /\ counts = [accepted |-> Cardinality(lists[1]),
                                       pending  |-> Cardinality(lists[2]),
                                       sent     |-> Cardinality(lists[3]),
                                       blocked  |-> 0]
                          /\ <<SearchScope(u, "accepted"), SearchScope(u, "pending"),
                               SearchScope(u, "sent"), SearchScope(u, "notFriends")>>
                                = <<lists[1], lists[2], lists[3], lists[4] \cup {u}>>
    BY DEF RelationLists
  <1> DEFINE lists == <<GetUserFriends(u), GetFriendshipRequests(u),
                        GetSentRequests(u), GetAllUsers(u)>>
  <1>1. \A v \in Accounts \ {u} : \E i \in 1..4 : \A j \in 1..4 : v \in lists[j] <=> i = j
    BY OneList, Zenon
  <1>2. \A i \in 1..4 : lists[i] \subseteq Accounts \ {u}
    BY ListsOfOthers
  <1>3. ASSUME NEW v \in Accounts \ {u}
        PROVE  /\ v \in GetUserFriends(u) <=> u \in GetUserFriends(v)
               /\ v \in GetSentRequests(u) <=> u \in GetFriendshipRequests(v)
    <2> DEFINE row == GetFriendship(u, v)
    <2>1. u \in Users /\ v \in Users /\ u # v
      BY UsersAssumption
    <2>2. GetFriendship(v, u) = row /\ (row # NoRow => row.action \in {u, v})
      BY <2>1, RowFacts
    <2>3. /\ v \in GetUserFriends(u) <=> row # NoRow /\ row.status = "accepted"
          /\ v \in GetSentRequests(u) <=> row # NoRow /\ IsOutgoing(row, u)
          /\ u \in GetUserFriends(v) <=> row # NoRow /\ row.status = "accepted"
          /\ u \in GetFriendshipRequests(v) <=> row # NoRow /\ IsIncoming(row, v)
      BY <2>1, <2>2, ListFacts
    <2>4. QED
      BY <2>1, <2>2, <2>3 DEF IsOutgoing, IsIncoming
  <1>4. CountUserRelations(u) = [accepted |-> Cardinality(lists[1]),
                                 pending  |-> Cardinality(lists[2]),
                                 sent     |-> Cardinality(lists[3]),
                                 blocked  |-> 0]
    BY CountsAreLengths
  <1>5. <<SearchScope(u, "accepted"), SearchScope(u, "pending"),
          SearchScope(u, "sent"), SearchScope(u, "notFriends")>>
           = <<lists[1], lists[2], lists[3], lists[4] \cup {u}>>
    BY ScopesAreLists, ListsOfOthers
  <1>6. QED
    BY <1>1, <1>2, <1>3, <1>4, <1>5

(* What a user is shown adds up in every reachable state, however many     *)
(* accounts there are and however their requests overlap: the lists of the *)
(* friend service partition the other accounts and mirror each other, and  *)
(* its counters and search scopes agree with them.                         *)
THEOREM RelationListsAddUp == Spec => []RelationLists
  <1>1. IInv => RelationLists
    BY ListsAddUp
  <1>2. QED
    BY <1>1, InitIInv, NextIInv, PTL DEF Spec

-------------------------------------------------------------------------------
(* What is shown of the lists (module FriendViews).  A list of ids in      *)
(* order names each of them once.                                          *)
Lists(list, ids) ==
    /\ list \in Seq(Accounts) /\ Len(list) <= Cardinality(Accounts)
    /\ \A i, j \in 1..Len(list) : list[i] = list[j] => i = j
    /\ \A x : (\E i \in 1..Len(list) : list[i] = x) <=> x \in ids

LEMMA SortedFacts ==
    ASSUME NEW ids \in SUBSET Accounts, NEW list, list = Sorted(ids)
    PROVE  Lists(list, ids)
  <1> DEFINE rank == [u \in ids |-> u]
  <1>1. IsFiniteSet(ids) /\ Cardinality(ids) <= Cardinality(Accounts)
    BY AccountsAssumption, FS_Subset
  <1>2. (\A x \in ids : rank[x] \in Int) /\ \A x, y \in ids : rank[x] = rank[y] => x = y
    BY IdsAssumption, PaginationAssumption
  <1>3. list = InOrder(ids, rank)
    BY DEF Sorted
  <1> HIDE DEF rank
  <1>n. PICK n : n = Cardinality(ids)
    OBVIOUS
  <1>4. /\ n \in Nat
        /\ DOMAIN list = 1..n
        /\ list \in [1..n -> ids]
        /\ \A x \in ids : \E i \in 1..n : list[i] = x
        /\ \A i, j \in 1..n : list[i] = list[j] => i = j
    BY <1>1, <1>2, <1>3, <1>n, InOrderFacts
  <1>5. list \in Seq(Accounts) /\ Len(list) = n
    BY <1>4
  <1>6. QED
    BY <1>1, <1>n, <1>4, <1>5 DEF Lists

(* So does any order of them. *)
LEMMA AnyOrder ==
    ASSUME NEW ids \in SUBSET Accounts, NEW list \in SetToSeqs(ids)
    PROVE  Lists(list, ids)
  <1>n. PICK n : n = Cardinality(ids)
    OBVIOUS
  <1>1. IsFiniteSet(ids) /\ n \in Nat /\ n <= Cardinality(Accounts)
    BY <1>n, AccountsAssumption, FS_Subset, FS_CardinalityType
  <1>2. list \in [1..n -> ids] /\ \A i, j \in 1..n : i # j => list[i] # list[j]
    BY <1>n DEF SetToSeqs
  <1>3. list \in Seq(Accounts) /\ Len(list) = n
    BY <1>1, <1>2
  <1>4. list \in Injection(1..n, ids)
    BY <1>2 DEF Injection, IsInjective
  <1>5. list \in Surjection(1..n, ids)
    <2>1. Cardinality(1..n) = n
      BY <1>1, FS_Interval
    <2>2. QED
      BY <1>n, <1>1, <1>4, <2>1, FS_Injection
  <1>6. QED
    BY <1>n, <1>1, <1>2, <1>3, <1>5 DEF Lists, Surjection

(* One that fits on the first page is shown there. *)
LEMMA FitFacts ==
    ASSUME FitOnOnePage, NEW ids, NEW list, Lists(list, ids)
    PROVE  Paged(list, 1, MaxLimit) = [err |-> Ok, items |-> list] /\ DecodeQueryParams(1, MaxLimit)
  <1>1. list \in Seq(Accounts) /\ Len(list) <= Cardinality(Accounts)
    BY DEF Lists
  <1>2. Len(list) \in Nat /\ Cardinality(Accounts) \in Nat /\ MaxLimit \in Nat
    BY <1>1, AccountsAssumption, FS_CardinalityType, PaginationAssumption
  <1>3. Len(list) <= MaxLimit
    BY <1>1, <1>2 DEF FitOnOnePage
  <1>4. QED
    BY <1>1, <1>3, FirstPage

(* The profiles of a list are those of the listed users. *)
LEMMA EveryProfile ==
    ASSUME NEW list \in Seq(Accounts), NEW items, items = Those(list, Accounts)
    PROVE  items \in Seq(Accounts) /\ ShowAlike(items, list)
  <1>1. /\ items \in Seq(Accounts)
        /\ \A x : (\E j \in 1..Len(items) : items[j] = x)
                    <=> x \in Accounts /\ \E i \in 1..Len(list) : list[i] = x
    BY ThoseFacts
  <1>2. \A x : (\E i \in 1..Len(list) : list[i] = x) => x \in Accounts
    OBVIOUS
  <1>3. QED
    BY <1>1, <1>2, Zenon DEF ShowAlike

LEMMA ProfilesOf ==
    ASSUME NEW ids, NEW list, Lists(list, ids), NEW answer, answer.items = Those(list, Accounts)
    PROVE  ItemsOf(answer) = ids
  <1>1. list \in Seq(Accounts) /\ \A x : (\E i \in 1..Len(list) : list[i] = x) <=> x \in ids
    BY DEF Lists
  <1>i. PICK items : items = Those(list, Accounts)
    OBVIOUS
  <1>2. items \in Seq(Accounts) /\ ShowAlike(items, list)
    BY <1>1, <1>i, EveryProfile
  <1>4. \A x : (\E j \in 1..Len(items) : items[j] = x) <=> x \in ids
    BY <1>1, <1>2, Zenon DEF ShowAlike
  <1>5. ItemsOf(answer) = {items[i] : i \in 1..Len(items)}
    BY <1>i, <1>2 DEF ItemsOf
  <1>6. QED
    BY <1>4, <1>5

(* The profiles of a page of ids, as a service fetches and a handler shows *)
(* them.                                                                   *)
LEMMA PageOfProfiles ==
    ASSUME NEW ids \in SUBSET Accounts, NEW page \in Int, NEW limit \in Int32,
           NEW list, list = Sorted(ids), NEW paged, paged = Paged(list, page, limit),
           NEW shown, shown = [paged EXCEPT !.items = GetShortProfileByUserIDs(@, Accounts)],
           NEW resp, resp = Grpc(shown), NEW answer, answer = Shown(page, limit, Code(resp), resp)
    PROVE  /\ PageIsRight(list, page, limit, answer)
           /\ FitOnOnePage /\ page = 1 /\ limit = MaxLimit => ItemsOf(answer) = ids
  <1>0. Lists(list, ids)
    BY SortedFacts
  <1>1. list \in Seq(Accounts) /\ \A i, j \in 1..Len(list) : list[i] = list[j] => i = j
    BY <1>0 DEF Lists
  <1>l. limit \in Int
    BY PaginationAssumption DEF Int32
  <1>2. paged.items \in Seq(Accounts) /\ paged = [err |-> paged.err, items |-> paged.items]
    BY <1>1, <1>l, PagedItems
  <1>e. paged.err \in {Ok, "ErrDB"}
    BY <1>1, <1>l, PagedItems
  <1>n. paged.err # Ok => paged.items = <<>>
    BY <1>1, <1>l, PagedItems
  <1>i. PICK items : items = Those(paged.items, Accounts)
    OBVIOUS
  <1>s. shown = [err |-> paged.err, items |-> items]
    BY <1>2, <1>i DEF GetShortProfileByUserIDs
  <1>3. ASSUME DecodeQueryParams(page, limit)
        PROVE  answer = [code |-> IF paged.err = Ok THEN 200 ELSE 500, items |-> items]
    <2>1. CASE paged.err = Ok
      BY <1>3, <1>s, <2>1 DEF Shown, Code, Grpc
    <2>2. CASE paged.err # Ok
      <3>1. paged.err = "ErrDB"
        BY <1>e, <2>2
      <3>2. MapErrorToHTTP(FromGrpcError(ToGrpcError("ErrDB"))) = 500
        BY DEF MapErrorToHTTP, FromGrpcError, ToGrpcError
      <3>3. ToGrpcError("ErrDB") # "OK"
        BY DEF ToGrpcError
      <3>4. QED
        BY <1>3, <1>s, <2>2, <3>1, <3>2, <3>3 DEF Shown, Code, Grpc
    <2>3. QED
      BY <2>1, <2>2
  <1>4. ShowAlike(items, paged.items)
    BY <1>2, <1>i, EveryProfile
  <1>5. Shows(list, page, limit, answer)
    <2>1. ASSUME page \in Int32
          PROVE  /\ answer.code = IF paged.err = Ok THEN 200 ELSE 500
                 /\ answer.items = items
      <3>1. DecodeQueryParams(page, limit)
        BY <2>1 DEF DecodeQueryParams
      <3>2. QED
        BY <1>3, <3>1
    <2>2. QED
      BY <1>4, <2>1 DEF Shows
  <1>6. PageIsRight(list, page, limit, answer)
    BY <1>1, <1>5, ShownIsRight
  <1>7. ASSUME FitOnOnePage, page = 1, limit = MaxLimit
        PROVE  ItemsOf(answer) = ids
    <2>1. paged = [err |-> Ok, items |-> list] /\ DecodeQueryParams(page, limit)
      BY <1>0, <1>7, FitFacts
    <2>2. answer.items = Those(list, Accounts)
      BY <1>3, <1>i, <2>1
    <2>3. QED
      BY <1>0, <2>2, ProfilesOf
  <1>8. QED
    BY <1>6, <1>7

(* So the three lists of relations are shown. *)
LEMMA ListsShown ==
    ASSUME IInv, NEW u \in Accounts, NEW page \in Int, NEW limit \in Int32
    PROVE  /\ PageIsRight(Sorted(GetUserFriends(u)), page, limit,
                          GetFriendsHandler(u, page, limit, Accounts))
           /\ PageIsRight(Sorted(GetFriendshipRequests(u)), page, limit,
                          GetFriendRequestsHandler(u, page, limit, Accounts))
           /\ PageIsRight(Sorted(GetSentRequests(u)), page, limit,
                          GetSentRequestsHandler(u, page, limit, Accounts))
           /\ FitOnOnePage /\ page = 1 /\ limit = MaxLimit =>
                 /\ ItemsOf(GetFriendsHandler(u, page, limit, Accounts)) = GetUserFriends(u)
                 /\ ItemsOf(GetFriendRequestsHandler(u, page, limit, Accounts))
                      = GetFriendshipRequests(u)
                 /\ ItemsOf(GetSentRequestsHandler(u, page, limit, Accounts)) = GetSentRequests(u)
  <1>1. /\ GetUserFriends(u) \in SUBSET Accounts /\ GetFriendshipRequests(u) \in SUBSET Accounts
        /\ GetSentRequests(u) \in SUBSET Accounts
    BY ListsOfOthers
  <1>2. /\ PageIsRight(Sorted(GetUserFriends(u)), page, limit,
                       GetFriendsHandler(u, page, limit, Accounts))
        /\ FitOnOnePage /\ page = 1 /\ limit = MaxLimit =>
              ItemsOf(GetFriendsHandler(u, page, limit, Accounts)) = GetUserFriends(u)
    BY <1>1, PageOfProfiles DEF GetFriendsHandler, GetFriends
  <1>3. /\ PageIsRight(Sorted(GetFriendshipRequests(u)), page, limit,
                       GetFriendRequestsHandler(u, page, limit, Accounts))
        /\ FitOnOnePage /\ page = 1 /\ limit = MaxLimit =>
              ItemsOf(GetFriendRequestsHandler(u, page, limit, Accounts)) = GetFriendshipRequests(u)
    BY <1>1, PageOfProfiles DEF GetFriendRequestsHandler, GetFriendRequests
  <1>4. /\ PageIsRight(Sorted(GetSentRequests(u)), page, limit,
                       GetSentRequestsHandler(u, page, limit, Accounts))
        /\ FitOnOnePage /\ page = 1 /\ limit = MaxLimit =>
              ItemsOf(GetSentRequestsHandler(u, page, limit, Accounts)) = GetSentRequests(u)
    BY <1>1, PageOfProfiles DEF GetSentRequestsHandler, SentRequests
  <1>5. QED
    BY <1>2, <1>3, <1>4

(* A search that matches everybody shows whom its type is about. *)
LEMMA SearchShown ==
    ASSUME FitOnOnePage, NEW u, NEW type \in RelationTypes,
           NEW scope \in SUBSET Accounts, scope = SearchScope(u, type),
           NEW resp, resp = Grpc(SearchShortProfiles(u, Accounts, type, 1, MaxLimit, Accounts)),
           NEW answer, answer = Shown(1, MaxLimit, RawCode(resp), resp)
    PROVE  ItemsOf(answer) = scope
  <1>l. PICK list : list = Sorted(scope)
    OBVIOUS
  <1>1. Lists(list, scope)
    BY <1>l, SortedFacts
  <1>2. Paged(list, 1, MaxLimit) = [err |-> Ok, items |-> list] /\ DecodeQueryParams(1, MaxLimit)
    BY <1>1, FitFacts
  <1>w. PICK window : window = ValidatePaginationParams(1, MaxLimit)
    OBVIOUS
  <1>3. ~(window.offset < 0) /\ Limited(list, window) = list
    <2>1. IF window.offset < 0 THEN [err |-> "ErrDB", items |-> <<>>] = [err |-> Ok, items |-> list]
          ELSE [err |-> Ok, items |-> Limited(list, window)] = [err |-> Ok, items |-> list]
      BY <1>2, <1>w DEF Paged
    <2>2. [err |-> "ErrDB", items |-> <<>>] # [err |-> Ok, items |-> list]
      BY DEF Ok
    <2>3. QED
      BY <2>1, <2>2
  <1>4. Accounts \cap scope = scope
    OBVIOUS
  <1>5. SearchUserIDsByFullNameWithFilter(Accounts, scope, window) = list
    BY <1>l, <1>3, <1>4 DEF SearchUserIDsByFullNameWithFilter
  <1>6. SearchShortProfiles(u, Accounts, type, 1, MaxLimit, Accounts)
          = [err |-> Ok, items |-> Those(list, Accounts)]
    BY <1>5, <1>w DEF SearchShortProfiles, GetShortProfileByUserIDs
  <1>7. answer.items = Those(list, Accounts)
    BY <1>2, <1>6 DEF Shown, Grpc
  <1>8. QED
    BY <1>1, <1>7, ProfilesOf

(* A page of all users shows those nobody is related to, in any order. *)
LEMMA AllUsersShown ==
    ASSUME IInv, FitOnOnePage, NEW u \in Accounts,
           NEW answer \in GetAllUsersHandler(u, 1, MaxLimit, Accounts)
    PROVE  ItemsOf(answer) = GetAllUsers(u)
  <1>1. GetAllUsers(u) \in SUBSET Accounts /\ GetAllUsers(u) \cap Accounts = GetAllUsers(u)
    BY ListsOfOthers
  <1>2. PICK list \in SetToSeqs(GetAllUsers(u)) :
           answer = Shown(1, MaxLimit, Code(Grpc(Paged(list, 1, MaxLimit))),
                          Grpc(Paged(list, 1, MaxLimit)))
    BY <1>1 DEF GetAllUsersHandler, AllUsers
  <1>3. Lists(list, GetAllUsers(u))
    BY <1>1, AnyOrder
  <1>4. Paged(list, 1, MaxLimit) = [err |-> Ok, items |-> list] /\ DecodeQueryParams(1, MaxLimit)
    BY <1>3, FitFacts
  <1>5. answer.items = list
    BY <1>2, <1>4 DEF Shown, Grpc
  <1>6. QED
    BY <1>3, <1>5 DEF ItemsOf, Lists

(* Counters and status are shown as they are. *)
LEMMA CountersShown ==
    ASSUME IInv, NEW u \in Accounts
    PROVE  /\ CountUserRelationsHandler(u).items = CountUserRelations(u)
           /\ \A v \in Accounts \ {u} :
                 v \in GetUserFriends(u) <=> GetFriendshipStatusHandler(u, v).items = "accepted"
  <1>1. \A v \in Accounts : PathInt32(v) = [err |-> Ok, id |-> v]
    BY PathFacts, IdsAssumption
  <1>2. CountUserRelationsHandler(u).items = CountUserRelations(u)
    BY <1>1 DEF CountUserRelationsHandler, RelationsCount, Grpc
  <1>3. ASSUME NEW v \in Accounts \ {u}
        PROVE  v \in GetUserFriends(u) <=> GetFriendshipStatusHandler(u, v).items = "accepted"
    <2>1. GetFriendshipStatusHandler(u, v).items = GetFriendship(u, v).status
      BY <1>1 DEF GetFriendshipStatusHandler, GetFriendshipStatus, Grpc
    <2>2. GetFriendship(u, v) = NoRow => GetFriendship(u, v).status # "accepted"
      BY NoRowFacts, Zenon
    <2>3. u \in Users /\ v \in Users /\ u # v
      BY UsersAssumption
    <2>4. v \in GetUserFriends(u)
            <=> GetFriendship(u, v) # NoRow /\ GetFriendship(u, v).status = "accepted"
      BY <2>3, ListFacts
    <2>5. QED
      BY <2>1, <2>2, <2>4
  <1>4. QED
    BY <1>2, <1>3

(* A search looks through the list of its type, and one among those who    *)
(* are no friends also through oneself.                                    *)
LEMMA SearchesShown ==
    ASSUME IInv, FitOnOnePage, NEW u \in Accounts
    PROVE  LET search(type) == ItemsOf(SearchProfilesByFullName(u, Accounts, type, 1, MaxLimit, Accounts))
           IN  /\ search("accepted") = GetUserFriends(u)
               /\ search("pending") = GetFriendshipRequests(u)
               /\ search("sent") = GetSentRequests(u)
               /\ search("notFriends") = GetAllUsers(u) \cup {u}
  <1> DEFINE Searched(t) == LET resp == Grpc(SearchShortProfiles(u, Accounts, t, 1, MaxLimit, Accounts))
                            IN  Shown(1, MaxLimit, RawCode(resp), resp)
  <1>1. ASSUME NEW t \in RelationTypes, SearchScope(u, t) \in SUBSET Accounts
        PROVE  ItemsOf(Searched(t)) = SearchScope(u, t)
    BY <1>1, SearchShown
  <1>2. /\ "accepted" \in RelationTypes /\ "pending" \in RelationTypes
        /\ "sent" \in RelationTypes /\ "notFriends" \in RelationTypes
    BY DEF RelationTypes
  <1>3. /\ SearchScope(u, "accepted") = GetUserFriends(u)
        /\ SearchScope(u, "pending") = GetFriendshipRequests(u)
        /\ SearchScope(u, "sent") = GetSentRequests(u)
        /\ SearchScope(u, "notFriends") = GetAllUsers(u) \cup {u}
    BY ScopesAreLists, ListsOfOthers
  <1>4. /\ SearchScope(u, "accepted") \in SUBSET Accounts
        /\ SearchScope(u, "pending") \in SUBSET Accounts
        /\ SearchScope(u, "sent") \in SUBSET Accounts
        /\ SearchScope(u, "notFriends") \in SUBSET Accounts
    <2>1. SearchScope(u, "notFriends") \in SUBSET Accounts
      BY DEF SearchScope
    <2>2. QED
      BY <1>3, <2>1, ListsOfOthers
  <1>6. /\ SearchProfilesByFullName(u, Accounts, "accepted", 1, MaxLimit, Accounts)
             = Searched("accepted")
        /\ SearchProfilesByFullName(u, Accounts, "pending", 1, MaxLimit, Accounts) = Searched("pending")
        /\ SearchProfilesByFullName(u, Accounts, "sent", 1, MaxLimit, Accounts) = Searched("sent")
        /\ SearchProfilesByFullName(u, Accounts, "notFriends", 1, MaxLimit, Accounts)
             = Searched("notFriends")
    <2>1. "accepted" # "" /\ "pending" # "" /\ "sent" # "" /\ "notFriends" # ""
      BY Zenon
    <2>2. QED
      BY <2>1, Zenon DEF SearchProfilesByFullName
  <1> HIDE DEF Searched
  <1>7. /\ ItemsOf(Searched("accepted")) = GetUserFriends(u)
        /\ ItemsOf(Searched("pending")) = GetFriendshipRequests(u)
        /\ ItemsOf(Searched("sent")) = GetSentRequests(u)
        /\ ItemsOf(Searched("notFriends")) = GetAllUsers(u) \cup {u}
    BY <1>1, <1>2, <1>3, <1>4
  <1>8. QED
    BY <1>6, <1>7, Zenon

(* The counters of requests count two lists that have nobody in common. *)
LEMMA RequestsAreApart ==
    ASSUME IInv, NEW u \in Accounts
    PROVE  Cardinality(GetFriendshipRequests(u)) + Cardinality(GetSentRequests(u))
             = Cardinality(GetFriendshipRequests(u) \cup GetSentRequests(u))
  <1> DEFINE in == GetFriendshipRequests(u)
             out == GetSentRequests(u)
  <1>1. IsFiniteSet(in) /\ IsFiniteSet(out) /\ Cardinality(in) \in Nat /\ Cardinality(out) \in Nat
    BY ListsOfOthers, AccountsAssumption, FS_Subset, FS_CardinalityType
  <1>2. in \cap out = {}
    BY DEF GetFriendshipRequests, GetSentRequests, IsIncoming, IsOutgoing
  <1> HIDE DEF in, out
  <1>3. Cardinality(in \cup out) = Cardinality(in) + Cardinality(out) - Cardinality(in \cap out)
    BY <1>1, FS_Union
  <1>4. Cardinality(in) + Cardinality(out) = Cardinality(in \cup out)
    <2>1. Cardinality(in \cap out) = 0
      BY <1>2, FS_EmptySet
    <2>2. QED
      BY <1>1, <1>3, <2>1
  <1>5. QED
    BY <1>4 DEF in, out

(* Whatever the friend service shows agrees with its table, however many   *)
(* accounts there are and however their requests overlap: turning the      *)
(* pages of a list of relations shows everybody in it once, and one too    *)
(* far to count to nobody who is not in it; a search by type finds whom    *)
(* the list of that type shows, the counters count the lists, the status   *)
(* is accepted for the friends and no others, all users are those without  *)
(* a relation, and a search among them also finds the one who searches.    *)
THEOREM RelationsShown == Spec => []RelationsAreShown
  <1>1. ASSUME IInv PROVE PagesAreRight
    <2>1. \A l \in {-1, 1, MaxLimit} : l \in Int32
      BY PaginationAssumption DEF Int32
    <2>2. \A p \in AskedPages : p \in Int
      <3>1. Cardinality(Accounts) \in Nat
        BY AccountsAssumption, FS_CardinalityType
      <3>2. QED
        BY <3>1, PaginationAssumption DEF AskedPages
    <2>3. QED
      BY <1>1, <2>1, <2>2, ListsShown DEF PagesAreRight
  <1>2. ASSUME IInv PROVE ShownRelations
    <2>1. SUFFICES ASSUME FitOnOnePage, NEW u \in Accounts
                   PROVE  LET search(type) == ItemsOf(SearchProfilesByFullName(
                                                 u, Accounts, type, 1, MaxLimit, Accounts))
                              friends == ItemsOf(GetFriendsHandler(u, 1, MaxLimit, Accounts))
                              counts  == CountUserRelationsHandler(u).items
                          IN  /\ search("accepted") = friends
                              /\ search("pending")
                                   = ItemsOf(GetFriendRequestsHandler(u, 1, MaxLimit, Accounts))
                              /\ search("sent")
                                   = ItemsOf(GetSentRequestsHandler(u, 1, MaxLimit, Accounts))
                              /\ \A answer \in GetAllUsersHandler(u, 1, MaxLimit, Accounts) :
                                    search("notFriends") = ItemsOf(answer) \cup {u}
                              /\ counts.accepted = Cardinality(friends)
                              /\ counts.pending + counts.sent
                                   = Cardinality(search("pending") \cup search("sent"))
                              /\ \A v \in Accounts \ {u} :
                                    v \in friends
                                      <=> GetFriendshipStatusHandler(u, v).items = "accepted"
      BY Zenon DEF ShownRelations
    <2> DEFINE search(type) == ItemsOf(SearchProfilesByFullName(
                                  u, Accounts, type, 1, MaxLimit, Accounts))
               friends == ItemsOf(GetFriendsHandler(u, 1, MaxLimit, Accounts))
               counts  == CountUserRelationsHandler(u).items
    <2>2. 1 \in Int /\ MaxLimit \in Int32
      BY PaginationAssumption DEF Int32
    <2>3. /\ friends = GetUserFriends(u)
          /\ ItemsOf(GetFriendRequestsHandler(u, 1, MaxLimit, Accounts)) = GetFriendshipRequests(u)
          /\ ItemsOf(GetSentRequestsHandler(u, 1, MaxLimit, Accounts)) = GetSentRequests(u)
      BY <1>2, <2>1, <2>2, ListsShown
    <2>4. /\ search("accepted") = GetUserFriends(u)
          /\ search("pending") = GetFriendshipRequests(u)
          /\ search("sent") = GetSentRequests(u)
          /\ search("notFriends") = GetAllUsers(u) \cup {u}
      BY <1>2, <2>1, SearchesShown, Zenon
    <2>5. \A answer \in GetAllUsersHandler(u, 1, MaxLimit, Accounts) :
             ItemsOf(answer) = GetAllUsers(u)
      BY <1>2, <2>1, AllUsersShown
    <2>6. /\ counts.accepted = Cardinality(GetUserFriends(u))
          /\ counts.pending = Cardinality(GetFriendshipRequests(u))
          /\ counts.sent = Cardinality(GetSentRequests(u))
          /\ \A v \in Accounts \ {u} :
                v \in GetUserFriends(u) <=> GetFriendshipStatusHandler(u, v).items = "accepted"
      <3>1. counts = CountUserRelations(u)
        BY <1>2, CountersShown
      <3>2. QED
        BY <1>2, <3>1, CountersShown, CountsAreLengths
    <2>7. counts.pending + counts.sent
            = Cardinality(GetFriendshipRequests(u) \cup GetSentRequests(u))
      BY <1>2, <2>6, RequestsAreApart
    <2> HIDE DEF search, friends, counts
    <2>8. /\ search("accepted") = friends
          /\ search("pending") = ItemsOf(GetFriendRequestsHandler(u, 1, MaxLimit, Accounts))
          /\ search("sent") = ItemsOf(GetSentRequestsHandler(u, 1, MaxLimit, Accounts))
      BY <2>3, <2>4, Zenon
    <2>9. /\ \A answer \in GetAllUsersHandler(u, 1, MaxLimit, Accounts) :
                search("notFriends") = ItemsOf(answer) \cup {u}
          /\ counts.accepted = Cardinality(friends)
          /\ counts.pending + counts.sent = Cardinality(search("pending") \cup search("sent"))
      BY <2>3, <2>4, <2>5, <2>6, <2>7
    <2>10. \A v \in Accounts \ {u} :
              v \in friends <=> GetFriendshipStatusHandler(u, v).items = "accepted"
      BY <2>3, <2>6
    <2>11. QED
      BY <2>8, <2>9, <2>10, Zenon DEF search, friends, counts
  <1>3. ASSUME IInv PROVE RelationsAreShown
    BY <1>1, <1>2, <1>3, ListsAddUp DEF RelationsAreShown
  <1>4. QED
    BY <1>3, InitIInv, NextIInv, PTL DEF Spec

===============================================================================
