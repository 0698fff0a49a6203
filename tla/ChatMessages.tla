----------------------------- MODULE ChatMessages -----------------------------
(***************************************************************************)
(* Messages of the chats: CreateMessage, with the goroutine it leaves      *)
(* behind to notify the other members, UpdateLastReadMessage and the       *)
(* queries of the chat list; service/chat.go over repository/db/chat.go    *)
(* and repository/db/message.go, with UploadFiles and DeleteFiles of       *)
(* service/upload.go.                                                      *)
(*                                                                         *)
(* Chats and their members are given: ChatRooms makes them and nothing     *)
(* changes them.  A message carries two positions that are taken at        *)
(* different moments: created_at, the start of its transaction, and its    *)
(* id, taken by the INSERT.  Lists are ordered by created_at, unread       *)
(* messages are counted by id.                                             *)
(***************************************************************************)
EXTENDS Errors, FiniteSets

CONSTANTS
    Users,
    Chats,          \* the ids a request may name
    Members,        \* [Chats -> SUBSET Users], {} for a chat that does not exist
    Calls,          \* the calls of CreateMessage, each made at most once
    MaxFiles,       \* bound: attachments of one message
    Faults,         \* whether the database, the disk or another service may fail
    NoUser, NoChat

ASSUME MembersAssumption == Members \in [Chats -> SUBSET Users]
ASSUME CallsAssumption == IsFiniteSet(Calls)
ASSUME MaxFilesAssumption == MaxFiles \in Nat

VARIABLES
    messages,   \* the committed rows of messages
    nextId,     \* the next value of the identity column of messages
    clock,      \* counts transaction starts
    lastRead,   \* chat_members.last_read_message_id
    files,      \* the files in ./uploads
    leftovers,  \* those of them a failed write or delete has left behind
    call,       \* the calls of CreateMessage
    events      \* the new_message events given to the hub

vars == <<messages, nextId, clock, lastRead, files, leftovers, call, events>>

(* The files of a call: UploadFile names each by a fresh uuid. *)
FileNames == Calls \X (1..MaxFiles)

-------------------------------------------------------------------------------
(* Queries over what is committed. *)

IsChatExist(chat) == Members[chat] # {}

IsMemberOfChat(u, chat) == u \in Members[chat]

In(chat) == {m \in messages : m.chat = chat}

(* Mutation: the wrong end of the order. *)
LastMessageOldest(chat) ==
    CHOOSE m \in In(chat) : \A n \in In(chat) : m.created <= n.created

(* The message with the latest created_at, as in GetUserFullChats and      *)
(* GetFullChatByIDAndSenderID.                                             *)
LastMessage(chat) ==
    CHOOSE m \in In(chat) : \A n \in In(chat) : n.created <= m.created

(* COUNT(m.id) with m.id > last_read_message_id: everybody's messages, the *)
(* member's own included.                                                  *)
UnreadCount(u, chat) == Cardinality({m \in In(chat) : m.id > lastRead[<<u, chat>>]})

(* A row of the chat list; a chat without messages is not in the list.     *)
GetUserFullChats(u) ==
    {[chat |-> c, last |-> LastMessage(c).id, read |-> lastRead[<<u, c>>],
      unread |-> UnreadCount(u, c)] : c \in {d \in Chats : u \in Members[d] /\ In(d) # {}}}

(* What the notifying goroutine reads for each recipient. *)
GetOtherChatMembers(u, chat) ==
    {[to |-> v, read |-> lastRead[<<v, chat>>], unread |-> UnreadCount(v, chat)]
        : v \in Members[chat] \ {u}}

-------------------------------------------------------------------------------
(* CreateMessage. *)

Content == [text : BOOLEAN, files : 0..MaxFiles, sticker : {"none", "known", "unknown"}]

(* A sticker comes alone; anything else has a text or attachments. *)
validateMessageContent(c) ==
    IF c.sticker # "none" THEN ~c.text /\ c.files = 0
                          ELSE c.text \/ c.files > 0

Steps == {"new", "exists", "member", "upload", "begin", "insert", "commit",
          "chat", "recipients", "send", "done"}

NoContent == [text |-> FALSE, files |-> 0, sticker |-> "none"]

Results == {"none", Ok, "ErrInvalidInput", "ErrNotFound", "ErrAccessDenied", "ErrService", "ErrDB"}

Call == [user : Users \cup {NoUser}, chat : Chats \cup {NoChat}, content : Content,
         step : Steps, created : Nat, id : Nat, last : Nat,
         recipients : SUBSET [to : Users, read : Nat, unread : Nat], res : Results]

NoCall == [user |-> NoUser, chat |-> NoChat, content |-> NoContent, step |-> "new",
           created |-> 0, id |-> 0, last |-> 0, recipients |-> {}, res |-> "none"]

(* Files are uploaded only for a message without a sticker. *)
FilesOf(r) ==
    {f \in FileNames : /\ call[r].content.sticker = "none"
                       /\ f[1] = r /\ f[2] <= call[r].content.files}

Goto(r, step) == call' = [call EXCEPT ![r].step = step]
Answer(r, res) == call' = [call EXCEPT ![r].step = "done", ![r].res = res]

Tables == <<messages, nextId, clock, lastRead>>
Disk   == <<files, leftovers>>

(* The handler passes on a message of a signed-in user; its content is     *)
(* checked before anything else.                                           *)
Receive(r, u, chat, content) ==
    LET valid == validateMessageContent(content)
    IN  /\ call[r] = NoCall
        /\ call' = [call EXCEPT ![r] =
                      [NoCall EXCEPT !.user = u, !.chat = chat, !.content = content,
                                     !.step = IF valid THEN "exists" ELSE "done",
                                     !.res = IF valid THEN "none" ELSE "ErrInvalidInput"]]
        /\ UNCHANGED <<Tables, Disk, events>>

(* Mutation: another error for a chat that is not there. *)
CheckChatNotExist(r) ==
    /\ call[r].step = "exists"
    /\ IF IsChatExist(call[r].chat) THEN Goto(r, "member") ELSE Answer(r, "ErrNotExist")
    /\ UNCHANGED <<Tables, Disk, events>>

CheckChat(r) ==
    /\ call[r].step = "exists"
    /\ IF IsChatExist(call[r].chat) THEN Goto(r, "member") ELSE Answer(r, "ErrNotFound")
    /\ UNCHANGED <<Tables, Disk, events>>

CheckMember(r) ==
    /\ call[r].step = "member"
    /\ IF IsMemberOfChat(call[r].user, call[r].chat)
         THEN Goto(r, IF FilesOf(r) # {} THEN "upload" ELSE "begin")
         ELSE Answer(r, "ErrAccessDenied")
    /\ UNCHANGED <<Tables, Disk, events>>

(* UploadFiles: all files, or a write fails and those written before it    *)
(* are deleted again.  The write that fails may leave a torn file, and a   *)
(* delete may fail, too.                                                   *)
UploadFiles(r) ==
    /\ call[r].step = "upload"
    /\ \/ /\ files' = files \cup FilesOf(r)
          /\ Goto(r, "begin")
          /\ UNCHANGED leftovers
       \/ /\ Faults
          /\ \E left \in SUBSET FilesOf(r) :
                files' = files \cup left /\ leftovers' = leftovers \cup left
          /\ Answer(r, "ErrService")
    /\ UNCHANGED <<Tables, events>>

(* BEGIN: created_at will be the time of this moment. *)
BeginTx(r) ==
    /\ call[r].step = "begin"
    /\ clock' = clock + 1
    /\ call' = [call EXCEPT ![r].step = "insert", ![r].created = clock]
    /\ UNCHANGED <<messages, nextId, lastRead, Disk, events>>

(* Mutation: the uploads stay when the message is not stored. *)
AbortKeepFiles(r) ==
    /\ Answer(r, "ErrDB")
    /\ UNCHANGED Disk

(* The store returned an error: the uploads are deleted again.  DeleteFiles *)
(* goes through them in order and stops at the first one it cannot delete.  *)
Abort(r) ==
    /\ Answer(r, "ErrDB")
    /\ \E k \in 1..MaxFiles + 1 :
          LET left == {f \in FilesOf(r) : f[2] >= k}
          IN  /\ Faults \/ left = {}
              /\ files' = (files \ FilesOf(r)) \cup left
              /\ leftovers' = leftovers \cup left

(* INSERT INTO messages, and the rows of the attachments in the same       *)
(* transaction.  The id is taken also if the insert fails, as it does for  *)
(* a sticker that does not exist.                                          *)
InsertMessage(r) ==
    /\ call[r].step = "insert"
    /\ nextId' = nextId + 1
    /\ \/ /\ call[r].content.sticker # "unknown"
          /\ call' = [call EXCEPT ![r].step = "commit", ![r].id = nextId]
          /\ UNCHANGED Disk
       \/ /\ call[r].content.sticker = "unknown"
          /\ Abort(r)
    /\ UNCHANGED <<messages, clock, lastRead, events>>

MessageRow ==
    [id : Nat, chat : Chats, author : Users, created : Nat, files : SUBSET FileNames,
     sticker : {"none", "known"}, call : Calls]

Row(r) == [id |-> call[r].id, chat |-> call[r].chat, author |-> call[r].user,
           created |-> call[r].created, files |-> FilesOf(r),
           sticker |-> call[r].content.sticker, call |-> r]

(* Mutation: the error of the commit is not looked at. *)
CommitUnchecked(r) ==
    /\ call[r].step = "commit"
    /\ \/ messages' = messages \cup {Row(r)}
       \/ Faults /\ UNCHANGED messages
    /\ call' = [call EXCEPT ![r].step = "chat", ![r].res = Ok]
    /\ UNCHANGED <<files, nextId, clock, lastRead, leftovers, events>>

(* Mutation: the cleanup runs on success, too. *)
CommitDropsFiles(r) ==
    /\ call[r].step = "commit"
    /\ messages' = messages \cup {Row(r)}
    /\ call' = [call EXCEPT ![r].step = "chat", ![r].res = Ok]
    /\ files' = files \ FilesOf(r)
    /\ UNCHANGED <<nextId, clock, lastRead, leftovers, events>>

(* COMMIT.  On success the caller gets the id and a goroutine goes on.  If *)
(* the answer is lost, the message is there but counts as failed, and its  *)
(* files are deleted.                                                      *)
Commit(r) ==
    /\ call[r].step = "commit"
    /\ messages' = messages \cup {Row(r)}
    /\ \/ call' = [call EXCEPT ![r].step = "chat", ![r].res = Ok] /\ UNCHANGED Disk
       \/ Faults /\ Abort(r)
    /\ UNCHANGED <<nextId, clock, lastRead, events>>

-------------------------------------------------------------------------------
(* The goroutine that notifies the other members. *)

(* Mutation: the recipients are read first. *)
ReadChatSecond(r) ==
    /\ call[r].step = "chat"
    /\ \/ /\ call[r].recipients = {}
          /\ call' = [call EXCEPT ![r].recipients = GetOtherChatMembers(call[r].user, call[r].chat)]
       \/ /\ call[r].recipients # {}
          /\ call' = [call EXCEPT ![r].step = "send", ![r].last = LastMessage(call[r].chat).id]
    /\ UNCHANGED <<Tables, Disk, events>>

(* GetFullChatByIDAndSenderID: the chat with its last message. *)
ReadChat(r) ==
    /\ call[r].step = "chat"
    /\ call' = [call EXCEPT ![r].step = "recipients", ![r].last = LastMessage(call[r].chat).id]
    /\ UNCHANGED <<Tables, Disk, events>>

(* GetOtherChatMembersIdByAuthorId, after the profiles have been fetched. *)
ReadRecipients(r) ==
    /\ call[r].step = "recipients"
    /\ call' = [call EXCEPT ![r].step = "send",
                            ![r].recipients = GetOtherChatMembers(call[r].user, call[r].chat)]
    /\ UNCHANGED <<Tables, Disk, events>>

(* SendJSON for every recipient: the same chat, with the recipient's own   *)
(* numbers.                                                                *)
SendEvents(r) ==
    /\ call[r].step = "send"
    /\ events' = events \cup {[to |-> m.to, chat |-> call[r].chat, for |-> call[r].id,
                               last |-> call[r].last, read |-> m.read, unread |-> m.unread]
                                  : m \in call[r].recipients}
    /\ Goto(r, "done")
    /\ UNCHANGED <<Tables, Disk>>

-------------------------------------------------------------------------------
(* Any step that calls another process may fail before it has an effect.   *)
(* The goroutine then just ends.                                           *)
Fail(r) ==
    /\ Faults
    /\ \/ call[r].step \in {"exists", "member"} /\ Answer(r, "ErrDB") /\ UNCHANGED Disk
       \/ call[r].step \in {"begin", "insert", "commit"} /\ Abort(r)
       \/ call[r].step \in {"chat", "recipients"} /\ Goto(r, "done") /\ UNCHANGED Disk
    /\ UNCHANGED <<Tables, events>>

(* Mutation: the condition on the old value is missing. *)
UpdateLastReadAnyway(u, chat, id) ==
    /\ IsMemberOfChat(u, chat)
    /\ lastRead' = [lastRead EXCEPT ![<<u, chat>>] = id]

(* One UPDATE, for the member's own row and for a larger id only.          *)
UpdateLastReadMessageByUserIDAndChatID(u, chat, id) ==
    /\ IsMemberOfChat(u, chat)
    /\ id > lastRead[<<u, chat>>]
    /\ lastRead' = [lastRead EXCEPT ![<<u, chat>>] = id]

UpdateLastReadMessage(u, chat, id) ==
    /\ UpdateLastReadMessageByUserIDAndChatID(u, chat, id)
    /\ UNCHANGED <<messages, nextId, clock, Disk, call, events>>

(* The handler: the chat and the id are whatever the client says. *)
UpdateLastReadHandler(u) ==
    \E chat \in Chats, id \in 1..Cardinality(Calls) : UpdateLastReadMessage(u, chat, id)

Init ==
    /\ messages = {}
    /\ nextId = 1
    /\ clock = 1
    /\ lastRead = [p \in Users \X Chats |-> 0]
    /\ files = {}
    /\ leftovers = {}
    /\ call = [r \in Calls |-> NoCall]
    /\ events = {}

Step(r) ==
    \/ CheckChat(r)
    \/ CheckMember(r)
    \/ UploadFiles(r)
    \/ BeginTx(r)
    \/ InsertMessage(r)
    \/ Commit(r)
    \/ ReadChat(r)
    \/ ReadRecipients(r)
    \/ SendEvents(r)

Next ==
    \/ \E r \in Calls :
          \/ \E u \in Users, chat \in Chats, content \in Content : Receive(r, u, chat, content)
          \/ Step(r)
          \/ Fail(r)
    \/ \E u \in Users : UpdateLastReadHandler(u)

Spec == Init /\ [][Next]_vars

-------------------------------------------------------------------------------
(* Properties. *)

Answered(r) == call[r].res # "none"

(* Every variable keeps its type. *)
TypeOK ==
    /\ messages \subseteq MessageRow
    /\ nextId \in Nat /\ clock \in Nat
    /\ lastRead \in [Users \X Chats -> Nat]
    /\ leftovers \subseteq files /\ files \subseteq FileNames
    /\ call \in [Calls -> Call]
    /\ events \subseteq [to : Users, chat : Chats, for : Nat, last : Nat, read : Nat, unread : Nat]

(* An answer tells the truth, within what a caller can know: Ok means that *)
(* the message is stored, an error other than ErrDB that it is not and     *)
(* never will be.  Only ErrDB leaves open whether a retry makes a second   *)
(* copy.  No other user than a member ever gets a message into a chat.     *)
AnswersAreTrue ==
    /\ \A r \in Calls :
          /\ call[r].res = Ok => \E m \in messages : m.call = r /\ m.id = call[r].id
          /\ Answered(r) /\ call[r].res \notin {Ok, "ErrDB"} =>
                 \A m \in messages : m.call # r
    /\ \A m \in messages : m.author \in Members[m.chat]

(* The attachments of a stored message are on disk, except when its author *)
(* was told that it failed (the answer to the commit was lost).            *)
AttachmentsStored ==
    \A m \in messages : m.files \subseteq files \/ call[m.call].res = "ErrDB"

(* No upload is left behind: a file belongs to a stored message or to a    *)
(* call in progress, unless a write or a delete failed on the disk itself. *)
NoOrphanFiles ==
    \A f \in files \ leftovers :
        ~Answered(f[1]) \/ \E m \in messages : f \in m.files

(* The unread counter is not rolled back (documentation of the handler):   *)
(* in the chat list of a user no chat disappears, the last read message    *)
(* never goes back, and the unread count of a chat grows only because a    *)
(* message was stored in it.                                               *)
UnreadNotRolledBack ==
    [][\A u \in Users : \A old \in GetUserFullChats(u) : \E new \in GetUserFullChats(u)' :
          /\ new.chat = old.chat
          /\ new.read >= old.read
          /\ new.unread > old.unread => In(old.chat)' # In(old.chat)]_vars

(* The numbers in one event fit together, although its last message and    *)
(* its unread count come from two queries at different times: a recipient  *)
(* who has not read the last message has something unread.                 *)
EventsAddUp == \A e \in events : e.read < e.last => e.unread > 0

(* The event for a message shows that message or a later one of the chat,  *)
(* later in the order the chat is shown in.                                *)
EventsAreFresh ==
    \A e \in events : \E m, n \in messages :
        /\ m.id = e.for /\ n.id = e.last
        /\ m.chat = n.chat /\ m.created <= n.created

(* Messages and the files on the disk agree, whatever part of a call fails. *)
DiskAgrees == TypeOK /\ AttachmentsStored /\ NoOrphanFiles

(* What a recipient is told of a chat is true and not outdated. *)
EventsAreTrue == EventsAddUp /\ EventsAreFresh

-------------------------------------------------------------------------------
(* The inductive invariant (see ChatMessagesProofs). *)

(* How far a call has come, and what the steps before have left. *)
CallOK(r) ==
    LET k == call[r]
    IN  /\ k.step = "new" => k = NoCall
        /\ k.step # "new" => k.user \in Users /\ k.chat \in Chats
        /\ k.step \in {"upload", "begin", "insert", "commit", "chat", "recipients", "send"} =>
              k.user \in Members[k.chat]
        /\ k.step \in {"commit", "chat", "recipients", "send"} => k.content.sticker # "unknown"
        /\ k.res = "none" <=> k.step \in {"new", "exists", "member", "upload", "begin",
                                          "insert", "commit"}
        /\ k.step \in {"chat", "recipients", "send"} => k.res = Ok
        /\ k.step \in {"new", "exists", "member", "upload"} => \A f \in files : f[1] # r
        /\ k.step \in {"begin", "insert", "commit"} \/ k.res = Ok => FilesOf(r) \subseteq files
        /\ k.res = Ok => Row(r) \in messages
        /\ k.step \in {"recipients", "send"} =>
              \E n \in messages : n.id = k.last /\ n.chat = k.chat /\ k.created <= n.created
        /\ k.step = "send" => \A p \in k.recipients : p.read < k.last => p.unread > 0

(* A stored message is that of a call that has come to its commit. *)
MessagesOK ==
    /\ IsFiniteSet(messages)
    /\ \A m \in messages : /\ call[m.call].res \in {Ok, "ErrDB"} /\ m.files = FilesOf(m.call)
                           /\ m.author \in Members[m.chat]

(* A chat with messages has one that is the last. *)
LastExists ==
    \A c \in Chats : In(c) # {} => \E m \in In(c) : \A n \in In(c) : n.created <= m.created

(* A file is one of those its call was to upload; what was left behind     *)
(* belongs to a call that has failed.                                      *)
FilesOK ==
    /\ \A f \in files : f \in FilesOf(f[1])
    /\ \A f \in leftovers : call[f[1]].res \notin {"none", Ok}

IInv ==
    /\ TypeOK /\ (\A r \in Calls : CallOK(r)) /\ MessagesOK /\ LastExists /\ FilesOK
    /\ NoOrphanFiles /\ EventsAreTrue

(* With IInv, for what the lists show: a transaction has a created_at, and *)
(* an insert an id, that no other message has or will have.                *)
Started(r) == call[r].step \in {"insert", "commit"}
Inserted(r) == call[r].step = "commit"

PositionsDiffer ==
    /\ \A m \in messages : m.created < clock /\ m.id < nextId
    /\ \A m, n \in messages : m.created = n.created \/ m.id = n.id => m = n
    /\ \A r \in Calls : Started(r) =>
          call[r].created < clock /\ \A m \in messages : m.created # call[r].created
    /\ \A r \in Calls : Inserted(r) =>
          call[r].id < nextId /\ \A m \in messages : m.id # call[r].id
    /\ \A r, s \in Calls :
          Started(r) /\ Started(s) /\ call[r].created = call[s].created => r = s
    /\ \A r, s \in Calls : Inserted(r) /\ Inserted(s) /\ call[r].id = call[s].id => r = s

===============================================================================
