------------------------------ MODULE Friendship ------------------------------
(***************************************************************************)
(* The friend service: service/friend.go over repository/db/friend.go,     *)
(* behind internal/grpc/friend.go and handler/friend.go.                   *)
(*                                                                         *)
(* The state is the table friend_relationships and the requests that the   *)
(* service is working on.  A request is a goroutine: every call it makes   *)
(* to the auth service or to the database is a step of its own, so that    *)
(* the steps of several requests interleave.  Each SQL statement runs in   *)
(* its own transaction and touches one row, hence is atomic.               *)
(***************************************************************************)
EXTENDS Errors, FiniteSets

CONSTANTS
    Users,      \* the ids a request may name in its path
    Accounts,   \* the ids that have a row in users
    Requests,   \* the requests that may be in progress at the same time
    Faults      \* whether a call to the database or the auth service may fail

ASSUME UsersAssumption == Users \subseteq Nat \ {0} /\ Accounts \subseteq Users
ASSUME AccountsAssumption == IsFiniteSet(Accounts)
ASSUME FaultsAssumption == Faults \in BOOLEAN

VARIABLES
    rows,   \* friend_relationships: (first_user_id, second_user_id) -> row
    req,    \* the requests
    asked   \* history: <<u, v>> once a request of u to v reached the table

vars == <<rows, req, asked>>

-------------------------------------------------------------------------------
(* The table. *)

Status == {"pending", "accepted", "rejected", "blocked"}
Row    == [status : Status, action : Users]
NoRow  == [status |-> "", action |-> 0]

(* Mutation: the ids are used in the order they came in. *)
ensureUserOrderAsGiven(u, v) == <<u, v>>

(* The key of a relation: the smaller id first. *)
ensureUserOrder(u, v) == IF u < v THEN <<u, v>> ELSE <<v, u>>

GetFriendship(u, v) == rows[ensureUserOrder(u, v)]

(* An upsert: a row that is already there becomes a pending request of u,  *)
(* whatever it was.                                                        *)
CreateFriendship(u, v) ==
    /\ rows' = [rows EXCEPT ![ensureUserOrder(u, v)] =
                                [status |-> "pending", action |-> u]]
    /\ asked' = asked \cup {<<u, v>>}

(* An UPDATE by primary key only: it does not look at the row it replaces. *)
UpdateFriendshipStatus(u, v, status) ==
    /\ rows' = [rows EXCEPT ![ensureUserOrder(u, v)] =
                                [status |-> status, action |-> u]]
    /\ UNCHANGED asked

DeleteFriendship(u, v) ==
    /\ rows' = [rows EXCEPT ![ensureUserOrder(u, v)] = NoRow]
    /\ UNCHANGED asked

-------------------------------------------------------------------------------
(* The queries about one user. *)

(* The rows of user u, as the other user of each. *)
Related(u) == {v \in Users \ {u} : GetFriendship(u, v) # NoRow}

IsIncoming(row, u) == \/ row.status = "pending" /\ row.action # u
                      \/ row.status = "rejected" /\ row.action = u

IsOutgoing(row, u) == \/ row.status = "pending" /\ row.action = u
                      \/ row.status = "rejected" /\ row.action # u

AreFriends(u, v) == GetFriendship(u, v).status = "accepted"

GetUserFriends(u) == {v \in Related(u) : AreFriends(u, v)}

(* Mutation: the clause for rejected requests is missing. *)
GetSentRequestsPendingOnly(u) ==
    {v \in Related(u) : GetFriendship(u, v) = [status |-> "pending", action |-> u]}

GetFriendshipRequests(u) == {v \in Related(u) : IsIncoming(GetFriendship(u, v), u)}

GetSentRequests(u) == {v \in Related(u) : IsOutgoing(GetFriendship(u, v), u)}

(* What the handler shows as "all users": the profiles of everybody but u  *)
(* and the users that have a row with u.                                   *)
GetAllUsers(u) == Accounts \ (Related(u) \cup {u})

(* One scan of u's rows counts them by kind. *)
CountUserRelations(u) ==
    LET Count(P(_)) == Cardinality({v \in Related(u) : P(GetFriendship(u, v))})
    IN  [accepted |-> Count(LAMBDA r : r.status = "accepted"),
         pending  |-> Count(LAMBDA r : r.status = "pending" /\ r.action # u)
                      + Count(LAMBDA r : r.status = "rejected" /\ r.action = u),
         sent     |-> Count(LAMBDA r : r.status = "pending" /\ r.action = u)
                      + Count(LAMBDA r : r.status = "rejected" /\ r.action # u),
         blocked  |-> Count(LAMBDA r : r.status = "blocked")]

(* The ids a search by name is restricted to; for "notFriends" the caller  *)
(* excludes them instead.                                                  *)
GetUserIDsByFriendType(u, type) ==
    {v \in Related(u) :
        LET row == GetFriendship(u, v)
        IN  CASE type = "notFriends" -> TRUE
              [] type = "accepted"   -> row.status = "accepted"
              [] type = "pending"    -> IsIncoming(row, u)
              [] type = "sent"       -> IsOutgoing(row, u)
              [] type = "blocked"    -> row.status = "blocked"}

(* The users a search may return for a type, before the name filter. *)
SearchScope(u, type) ==
    IF type = "notFriends" THEN Accounts \ GetUserIDsByFriendType(u, type)
                           ELSE GetUserIDsByFriendType(u, type)

-------------------------------------------------------------------------------
(* Requests. *)

Ops     == {"send", "accept", "reject", "remove"}
Steps   == {"idle", "exists", "status", "details", "create", "read", "update",
            "delete"}
Results == {Ok, "ErrInvalidInput", "ErrNotExist", "ErrDB", "ErrAlreadyExists",
            "ErrAccessDenied", "ErrNotFound"}

Request == [op : Ops, user : Accounts, other : Users, step : Steps, res : Results]

(* A slot that has not been used by a request yet. *)
NoRequest == [op |-> "none", user |-> 0, other |-> 0, step |-> "idle", res |-> Ok]

Goto(r, step)  == req' = [req EXCEPT ![r].step = step]
Answer(r, res) == req' = [req EXCEPT ![r].step = "idle", ![r].res = res]

(* A write that was applied is answered with success, or with ErrDB when   *)
(* the connection broke (or the context was cancelled) after the commit.   *)
AnswerWrite(r) == \/ Answer(r, Ok)
                  \/ Faults /\ Answer(r, "ErrDB")

(* The gateway passes on a request of a signed-in user u about any id v.   *)
(* Only a friend request to oneself is refused before any call is made.    *)
Receive(r, op, u, v) ==
    LET first == CASE op = "send"               -> "exists"
                   [] op \in {"accept", "reject"} -> "read"
                   [] op = "remove"             -> "delete"
        self  == op = "send" /\ u = v
    IN  /\ req[r].step = "idle"
        /\ req' = [req EXCEPT ![r] =
                     [op |-> op, user |-> u, other |-> v,
                      step |-> IF self THEN "idle" ELSE first,
                      res  |-> IF self THEN "ErrInvalidInput" ELSE Ok]]
        /\ UNCHANGED <<rows, asked>>

(* SendFriendRequest: the auth service knows whether the target exists. *)
CheckUserExists(r) ==
    /\ req[r].step = "exists"
    /\ IF req[r].other \in Accounts THEN Goto(r, "status")
                                    ELSE Answer(r, "ErrNotExist")
    /\ UNCHANGED <<rows, asked>>

(* Mutation: the case for friends is missing. *)
CheckStatusNotFriends(r) ==
    /\ req[r].step = "status"
    /\ LET status == GetFriendship(req[r].user, req[r].other).status
       IN  CASE status = "pending"  -> Goto(r, "details")
             [] status = "blocked"  -> Answer(r, "ErrAccessDenied")
             [] OTHER               -> Goto(r, "create")
    /\ UNCHANGED <<rows, asked>>

(* SendFriendRequest: GetFriendshipStatus and the switch on its answer.    *)
(* No row and a rejected request both lead to the upsert.                  *)
CheckStatus(r) ==
    /\ req[r].step = "status"
    /\ LET status == GetFriendship(req[r].user, req[r].other).status
       IN  CASE status = "accepted" -> Answer(r, "ErrAlreadyExists")
             [] status = "pending"  -> Goto(r, "details")
             [] status = "blocked"  -> Answer(r, "ErrAccessDenied")
             [] OTHER               -> Goto(r, "create")
    /\ UNCHANGED <<rows, asked>>

(* Mutation: a row that is gone is not handled. *)
ReadDetailsNoError(r) ==
    /\ req[r].step = "details"
    /\ GetFriendship(req[r].user, req[r].other) # NoRow
    /\ Answer(r, "ErrAlreadyExists")
    /\ UNCHANGED <<rows, asked>>

(* SendFriendRequest: the second read behind a pending status.  Both       *)
(* branches after it answer the same; a row that is gone by now is ErrDB.  *)
ReadDetails(r) ==
    /\ req[r].step = "details"
    /\ IF GetFriendship(req[r].user, req[r].other) = NoRow
         THEN Answer(r, "ErrDB")
         ELSE Answer(r, "ErrAlreadyExists")
    /\ UNCHANGED <<rows, asked>>

(* SendFriendRequest: the upsert. *)
SendFriendRequest(r) ==
    /\ req[r].step = "create"
    /\ CreateFriendship(req[r].user, req[r].other)
    /\ AnswerWrite(r)

(* Mutation: the sender may answer as well. *)
MayAnswerOwn(row, u) == row.status = "pending"

(* What the service requires of the row before it accepts or rejects: a    *)
(* pending request that the user has not sent himself.                     *)
MayAnswer(row, u) == row.status = "pending" /\ row.action # u

(* AcceptFriendRequest and RejectFriendRequest: read and check.  A missing *)
(* row comes back as ErrFriendshipNotFound, which is not the ErrNotFound   *)
(* the service looks for, so it is answered as a database error.           *)
ReadRequest(r) ==
    /\ req[r].step = "read"
    /\ LET row == GetFriendship(req[r].user, req[r].other)
       IN  IF row = NoRow
             THEN Answer(r, "ErrDB")
             ELSE IF MayAnswer(row, req[r].user) THEN Goto(r, "update")
                                                 ELSE Answer(r, "ErrNotFound")
    /\ UNCHANGED <<rows, asked>>

Decision(op) == IF op = "accept" THEN "accepted" ELSE "rejected"

(* Mutation: the decision is an upsert. *)
DecideFriendRequestUpsert(r) ==
    /\ req[r].step = "update"
    /\ UpdateFriendshipStatus(req[r].user, req[r].other, Decision(req[r].op))
    /\ AnswerWrite(r)

(* AcceptFriendRequest and RejectFriendRequest: the update.  No row left   *)
(* to update is an error of the store, answered as ErrDB.                  *)
DecideFriendRequest(r) ==
    LET u == req[r].user
        v == req[r].other
    IN  /\ req[r].step = "update"
        /\ IF GetFriendship(u, v) = NoRow
             THEN Answer(r, "ErrDB") /\ UNCHANGED <<rows, asked>>
             ELSE UpdateFriendshipStatus(u, v, Decision(req[r].op)) /\ AnswerWrite(r)

(* RemoveFriend: one DELETE, whatever the status of the row. *)
RemoveFriend(r) ==
    LET u == req[r].user
        v == req[r].other
    IN  /\ req[r].step = "delete"
        /\ IF GetFriendship(u, v) = NoRow
             THEN Answer(r, "ErrDB") /\ UNCHANGED <<rows, asked>>
             ELSE DeleteFriendship(u, v) /\ AnswerWrite(r)

(* Any call a request makes may fail before it has an effect. *)
Fail(r) ==
    /\ Faults
    /\ req[r].step # "idle"
    /\ Answer(r, "ErrDB")
    /\ UNCHANGED <<rows, asked>>

-------------------------------------------------------------------------------
Init ==
    /\ rows = [p \in Users \X Users |-> NoRow]
    /\ req = [r \in Requests |-> NoRequest]
    /\ asked = {}

Step(r) ==
    \/ CheckUserExists(r)
    \/ CheckStatus(r)
    \/ ReadDetails(r)
    \/ SendFriendRequest(r)
    \/ ReadRequest(r)
    \/ DecideFriendRequest(r)
    \/ RemoveFriend(r)

Next ==
    \E r \in Requests :
        \/ \E op \in Ops, u \in Accounts, v \in Users : Receive(r, op, u, v)
        \/ Step(r)
        \/ Fail(r)

Spec == Init /\ [][Next]_vars

(* A request that has begun takes its next step: goroutines of the service *)
(* are scheduled and every call they wait for returns or times out.        *)
FairSpec == Spec /\ \A r \in Requests : WF_vars(Step(r))

-------------------------------------------------------------------------------
(* Properties. *)

(* Every variable keeps its type: a row has one of the statuses of the     *)
(* enum (and nobody ever writes "blocked"), a request is at one of the     *)
(* steps of service/friend.go.                                             *)
TypeOK ==
    /\ rows \in [Users \X Users -> {NoRow} \cup [status : Status \ {"blocked"}, action : Users]]
    /\ req \in [Requests -> {NoRequest} \cup Request]
    /\ asked \subseteq Accounts \X Users

(* The statements of repository/db/friend.go never rely on a constraint of *)
(* the table to stop them: whatever requests run together, a row joins two *)
(* different accounts, the smaller id first, and its action user is one of *)
(* the two (no_self_friendship, ordered_friendship,                        *)
(* action_user_in_relationship and the foreign keys).                      *)
TableConstraints ==
    \A u, v \in Users :
        rows[<<u, v>>] # NoRow =>
            /\ u < v
            /\ u \in Accounts /\ v \in Accounts
            /\ rows[<<u, v>>].action \in {u, v}

(* Nobody becomes a friend, and nobody is turned down, without having      *)
(* asked: if u is the one who accepted or rejected, then the other user    *)
(* has sent u a request before.  This survives every interleaving of the   *)
(* check in AcceptFriendRequest/RejectFriendRequest with other requests.   *)
NobodyDecidedUnasked ==
    \A u, v \in Users :
        LET row == GetFriendship(u, v)
        IN  row.status \in {"accepted", "rejected"} /\ row.action = u
                => <<v, u>> \in asked

(* The inductive invariant behind the two invariants above.  A pending row *)
(* stems from a request of its action user; a request that got past a      *)
(* check keeps what the check established, however the row has changed     *)
(* since: the target of a friend request is another account, and whoever   *)
(* is about to decide has been asked.                                      *)
PendingBacked ==
    \A u, v \in Users :
        LET row == GetFriendship(u, v)
        IN  row.status = "pending" /\ row.action = u => <<u, v>> \in asked

RequestsBacked ==
    \A r \in Requests :
        LET u == req[r].user
            v == req[r].other
        IN  /\ req[r].step \in {"exists", "status", "details", "create"} => u # v
            /\ req[r].step \in {"status", "details", "create"} => v \in Accounts
            /\ req[r].step = "update" => <<v, u>> \in asked

IInv ==
    /\ TypeOK
    /\ TableConstraints
    /\ NobodyDecidedUnasked
    /\ PendingBacked
    /\ RequestsBacked

(* What a user is shown adds up, at every moment: each other account is in *)
(* exactly one of his four lists (friends, incoming, sent, all users), the *)
(* lists of two users mirror each other, the counters are the lengths of   *)
(* the lists, and a search by type looks through the list of that type; of *)
(* those who are no friends, the user himself is one.                      *)
RelationLists ==
    \A u \in Accounts :
        LET lists  == <<GetUserFriends(u), GetFriendshipRequests(u),
                        GetSentRequests(u), GetAllUsers(u)>>
            counts == CountUserRelations(u)
        IN  /\ \A v \in Accounts \ {u} : \E i \in 1..4 :
                   \A j \in 1..4 : v \in lists[j] <=> i = j
            /\ \A i \in 1..4 : lists[i] \subseteq Accounts \ {u}
            /\ \A v \in Accounts \ {u} :
                   /\ v \in GetUserFriends(u) <=> u \in GetUserFriends(v)
                   /\ v \in GetSentRequests(u) <=> u \in GetFriendshipRequests(v)
            /\ counts = [accepted |-> Cardinality(lists[1]),
                         pending  |-> Cardinality(lists[2]),
                         sent     |-> Cardinality(lists[3]),
                         blocked  |-> 0]
            /\ <<SearchScope(u, "accepted"), SearchScope(u, "pending"),
                 SearchScope(u, "sent"), SearchScope(u, "notFriends")>>
                  = <<lists[1], lists[2], lists[3], lists[4] \cup {u}>>

(* A decision that was checked before a RemoveFriend and is written after  *)
(* it cannot bring the relation back: where there is no row, only a new    *)
(* friend request makes one.                                               *)
NoResurrection ==
    [][\A p \in Users \X Users :
          rows[p] = NoRow => rows'[p] = NoRow \/ rows'[p].status = "pending"]_vars

(* What the comments at AcceptFriendRequest and UpdateFriendshipStatus say *)
(* of a decision: the one who decides has received the pending request, he *)
(* is not its sender.  The check is made on an earlier read than the       *)
(* update, so this holds only as long as requests do not overlap.          *)
NobodyDecidesOwnRequest ==
    [][\A p \in Users \X Users :
          rows[p].status = "pending" /\ rows'[p].status \in {"accepted", "rejected"}
              => rows'[p].action # rows[p].action]_vars

(* The table read as a graph on unordered pairs of accounts. *)
KeyOf(p) == CHOOSE k \in p \X p : k[1] < k[2]

Relations == [p \in {{u, v} : u, v \in Accounts} \ {{u} : u \in Accounts} |-> rows[KeyOf(p)]]

Graph == INSTANCE FriendGraph WITH NoOne <- 0, rel <- Relations

(* With one request at a time, the four operations of service/friend.go,   *)
(* reads, checks and writes together, act as the atomic operations of      *)
(* FriendGraph.                                                            *)
ImplementsFriendGraph == Graph!Spec

(* What that rests on: a check a request has made still stands when it     *)
(* writes, as nobody else wrote in between.                                *)
OneAtATime == \A q, r \in Requests : q = r

ChecksStand ==
    \A r \in Requests :
        LET row == GetFriendship(req[r].user, req[r].other)
        IN  /\ req[r].step = "create" => row = NoRow \/ row.status = "rejected"
            /\ req[r].step = "update" => MayAnswer(row, req[r].user)

(* Every request is answered: no order of steps leaves one waiting. *)
EveryRequestAnswered ==
    \A r \in Requests : req[r].step # "idle" ~> req[r].step = "idle"

===============================================================================
