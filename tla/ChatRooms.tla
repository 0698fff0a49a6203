------------------------------ MODULE ChatRooms -------------------------------
(***************************************************************************)
(* GetOrCreateChatWithUser: service/chat.go over repository/db/chat.go.    *)
(* The store searches for the chat of two users and, if there is none,     *)
(* creates it, in one transaction.  The transaction runs at READ           *)
(* COMMITTED, the default of PostgreSQL and of database/sql, and nothing   *)
(* in the schema makes a pair of members unique, so what the search saw    *)
(* may be out of date by the time the transaction commits.                 *)
(*                                                                         *)
(* The state is what is committed, and the requests.  Rows a transaction   *)
(* has inserted are seen by nobody else before it commits.                 *)
(***************************************************************************)
EXTENDS Errors, UserIds, FiniteSets

CONSTANTS
    Accounts,   \* the ids that have a row in users; a request may name any
    Requests,   \* the requests that may be in progress at the same time
    MaxChats,   \* bound: the ids the identity column hands out
    Faults      \* whether a call to the database or the auth service may fail

ASSUME AccountsAssumption == Accounts \subseteq Users
ASSUME MaxChatsAssumption == MaxChats \in Nat

VARIABLES
    chats,      \* the committed rows of chats: their ids
    members,    \* the committed rows of chat_members: <<chat, user>>
    nextChat,   \* the next value of the identity column of chats
    req         \* the requests

roomsVars == <<chats, members, nextChat, req>>

ChatIds == 1..MaxChats
NoChat  == 0

(* The chats that a pair of users has. *)
ChatsOf(u, v) == {c \in chats : <<c, u>> \in members /\ <<c, v>> \in members}

-------------------------------------------------------------------------------
Steps   == {"idle", "exists", "find", "insert", "commit"}
Results == {Ok, "ErrNotExist", "ErrInvalidInput", "ErrDB"}

(* chat is the id inserted by the transaction and, in the end, the answer. *)
Request == [user : Accounts, other : Users, step : Steps,
            chat : {NoChat} \cup ChatIds, res : Results]

(* A slot that has not been used by a request yet. *)
Unused == [user |-> NoUser, other |-> NoUser, step |-> "idle", chat |-> NoChat, res |-> Ok]

Goto(r, step) == req' = [req EXCEPT ![r].step = step]
Answer(r, res, c) == req' = [req EXCEPT ![r].step = "idle", ![r].res = res, ![r].chat = c]

(* A signed-in user u asks for the chat with v. *)
GetOrCreateChatWithUser(r, u, v) ==
    /\ req[r].step = "idle"
    /\ req' = [req EXCEPT ![r] = [user |-> u, other |-> v, step |-> "exists",
                                  chat |-> NoChat, res |-> Ok]]
    /\ UNCHANGED <<chats, members, nextChat>>

(* The service asks the auth service for v, and refuses a chat with        *)
(* oneself only after that.                                                *)
CheckUserExists(r) ==
    LET u == req[r].user
        v == req[r].other
    IN  /\ req[r].step = "exists"
        /\ \/ v \notin Accounts /\ Answer(r, "ErrNotExist", NoChat)
           \/ v \in Accounts /\ u = v /\ Answer(r, "ErrInvalidInput", NoChat)
           \/ v \in Accounts /\ u # v /\ Goto(r, "find")
        /\ UNCHANGED <<chats, members, nextChat>>

(* Mutation: the search looks at one of the two members only. *)
FindChatOfOne(r) ==
    LET u == req[r].user
        v == req[r].other
        found == {c \in chats : <<c, u>> \in members}
    IN  /\ req[r].step = "find"
        /\ \/ found = {} /\ Goto(r, "insert")
           \/ \E c \in found : Answer(r, Ok, c)
        /\ UNCHANGED <<chats, members, nextChat>>

(* Mutation: no search. *)
FindChatNever(r) ==
    /\ req[r].step = "find"
    /\ Goto(r, "insert")
    /\ UNCHANGED <<chats, members, nextChat>>

(* The search: chats that count two members among the two ids.  LIMIT 1    *)
(* without an order takes any of them.                                     *)
FindChat(r) ==
    LET found == ChatsOf(req[r].user, req[r].other)
    IN  /\ req[r].step = "find"
        /\ \/ found = {} /\ Goto(r, "insert")
           \/ \E c \in found : Answer(r, Ok, c)
        /\ UNCHANGED <<chats, members, nextChat>>

(* Mutation: the chat is inserted outside the transaction. *)
InsertChatAtOnce(r) ==
    /\ req[r].step = "insert"
    /\ nextChat \in ChatIds
    /\ req' = [req EXCEPT ![r].step = "commit", ![r].chat = nextChat]
    /\ chats' = chats \cup {nextChat}
    /\ nextChat' = nextChat + 1
    /\ UNCHANGED members

(* INSERT INTO chats: the id is taken for good, also if the transaction is *)
(* rolled back later.                                                      *)
InsertChat(r) ==
    /\ req[r].step = "insert"
    /\ nextChat \in ChatIds
    /\ req' = [req EXCEPT ![r].step = "commit", ![r].chat = nextChat]
    /\ nextChat' = nextChat + 1
    /\ UNCHANGED <<chats, members>>

(* INSERT INTO chat_members and the commit.  The answer to a commit may be *)
(* lost: then the chat is there and the request is answered with ErrDB.    *)
CommitChat(r) ==
    LET c == req[r].chat
    IN  /\ req[r].step = "commit"
        /\ chats' = chats \cup {c}
        /\ members' = members \cup {<<c, req[r].user>>, <<c, req[r].other>>}
        /\ \/ Answer(r, Ok, c)
           \/ Faults /\ Answer(r, "ErrDB", NoChat)
        /\ UNCHANGED nextChat

(* Any call may fail before it has an effect; the deferred Rollback drops  *)
(* what the transaction has inserted.                                      *)
Fail(r) ==
    /\ Faults
    /\ req[r].step # "idle"
    /\ Answer(r, "ErrDB", NoChat)
    /\ UNCHANGED <<chats, members, nextChat>>

RoomsInit ==
    /\ chats = {}
    /\ members = {}
    /\ nextChat = 1
    /\ req = [r \in Requests |-> Unused]

Step(r) == CheckUserExists(r) \/ FindChat(r) \/ InsertChat(r) \/ CommitChat(r)

RoomsNext ==
    \E r \in Requests :
        \/ \E u \in Accounts, v \in Users : GetOrCreateChatWithUser(r, u, v)
        \/ Step(r)
        \/ Fail(r)

RoomsSpec == RoomsInit /\ [][RoomsNext]_roomsVars

-------------------------------------------------------------------------------
(* Properties. *)

(* Every variable keeps its type. *)
RoomsTypeOK ==
    /\ chats \subseteq ChatIds
    /\ members \subseteq ChatIds \X Accounts
    /\ nextChat \in 1..MaxChats + 1
    /\ req \in [Requests -> {Unused} \cup Request]

(* No chat is left half-made by a failed or interleaved transaction:       *)
(* whoever looks sees chats with two members, and members of chats only.   *)
ChatsArePairs ==
    /\ \A c \in chats : \E u, v \in Accounts :
           u # v /\ {w \in Accounts : <<c, w>> \in members} = {u, v}
    /\ \A m \in members : m[1] \in chats

(* A request that was answered with a chat got a chat of the two users it  *)
(* is about, whichever order they are named in.                            *)
AnswerNamesTheirChat ==
    \A r \in Requests :
        req[r] # Unused /\ req[r].step = "idle" /\ req[r].res = Ok =>
            req[r].chat \in ChatsOf(req[r].user, req[r].other)

(* What makes the invariants above inductive: a request that got past the  *)
(* checks is about two different accounts, and the id a transaction has    *)
(* inserted is its own and not in use.                                     *)
TransactionsAreSound ==
    /\ \A c \in chats : c < nextChat
    /\ \A r \in Requests :
          /\ req[r].step # "idle" => req[r] \in Request
          /\ req[r].step \in {"find", "insert", "commit"} =>
                req[r].other \in Accounts /\ req[r].user # req[r].other
          /\ req[r].step = "commit" =>
                req[r].chat \in ChatIds /\ req[r].chat < nextChat /\ req[r].chat \notin chats
    /\ \A r, s \in Requests :
          req[r].step = "commit" /\ req[s].step = "commit" /\ r # s =>
              req[r].chat # req[s].chat

RoomsIInv == RoomsTypeOK /\ ChatsArePairs /\ AnswerNamesTheirChat /\ TransactionsAreSound

(* A pair is settled when it has a chat and no transaction that is going   *)
(* to add one is in progress.                                              *)
About(r, u, v) == {req[r].user, req[r].other} = {u, v}
Settled(u, v) ==
    /\ ChatsOf(u, v) # {}
    /\ \A r \in Requests :
          req[r].step \in {"insert", "commit"} => ~About(r, u, v)

(* From then on the pair keeps exactly the chats it has, whatever is       *)
(* asked, retried or fails: duplicates can only come from transactions     *)
(* that searched before the first one had committed.                       *)
SettledForGood ==
    [][\A u, v \in Accounts :
          u # v /\ Settled(u, v) => Settled(u, v)' /\ ChatsOf(u, v)' = ChatsOf(u, v)]_roomsVars

===============================================================================
