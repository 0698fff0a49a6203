------------------------------- MODULE ChatViews -------------------------------
(***************************************************************************)
(* What users see of the chats of module ChatMessages: the pages of        *)
(* messages and of chats of service/chat.go and handler/chat.go, over the  *)
(* queries of repository/db/chat.go and repository/db/message.go.          *)
(*                                                                         *)
(* profiles is the set of users the profile service knows, lost the set of *)
(* messages whose attachments cannot be read: the list then shows them     *)
(* without.                                                                *)
(***************************************************************************)
EXTENDS ChatMessages, Pagination, Functions

CONSTANT Packs      \* the tables of stickers, which nobody writes: the
                    \* stickers of a pack, by their position

ASSUME PacksAssumption ==
    /\ IsFiniteSet(DOMAIN Packs) /\ DOMAIN Packs \subseteq 1..Half - 1
    /\ UNION {Range(Packs[p]) : p \in DOMAIN Packs} = {"known"}

(* FromProtoShortProfileMap: the profiles by user, for the users asked for. *)
GetShortProfileMapByUserIDs(ids, profiles) == [v \in ids \cap profiles |-> v]

(* A user the map does not have reads as an empty profile. *)
ProfileIn(map, u) == IF u \in DOMAIN map THEN map[u] ELSE NoUser

-------------------------------------------------------------------------------
(* The queries, as lists of rows. *)

GetMessageAttachments(m, lost) == IF m.id \in lost THEN {} ELSE m.files

(* The attachments are read only for a message without a sticker. *)
Message(m, lost) ==
    [id |-> m.id, author |-> m.author, sticker |-> m.sticker,
     files |-> IF m.sticker = "none" THEN GetMessageAttachments(m, lost) ELSE {}]

(* Mutation: the order of the ids. *)
MessagesById(chat, lost) ==
    LET rows == In(chat)
        s    == InOrder(rows, [m \in rows |-> -m.id])
    IN  [i \in DOMAIN s |-> Message(s[i], lost)]

(* The messages of a chat, the latest created_at first. *)
MessagesByChatId(chat, lost) ==
    LET rows == In(chat)
        s    == InOrder(rows, [m \in rows |-> -m.created])
    IN  [i \in DOMAIN s |-> Message(s[i], lost)]

(* The chat list, the chat with the latest message first. *)
ChatList(u) ==
    LET rows == GetUserFullChats(u)
    IN  InOrder(rows, [c \in rows |-> -LastMessage(c.chat).created])

(* The packs of the sticker picker, newest first, and what is in a pack. *)
GetStickerPacks == InOrder(DOMAIN Packs, [p \in DOMAIN Packs |-> -p])

GetStickersByPackID(p) == IF p \in DOMAIN Packs THEN Packs[p] ELSE <<>>

-------------------------------------------------------------------------------
(* The services. *)

(* Messages with their authors, whose profiles are fetched together. *)
WithAuthors(items, profiles) ==
    LET authors == {items[i].author : i \in DOMAIN items}
        map     == GetShortProfileMapByUserIDs(authors, profiles)
    IN  [i \in DOMAIN items |-> <<items[i], ProfileIn(map, items[i].author)>>]

GetMessagesByChatId(u, chat, page, limit, profiles, lost) ==
    IF ~IsMemberOfChat(u, chat) THEN [err |-> "ErrAccessDenied", items |-> <<>>]
    ELSE [Paged(MessagesByChatId(chat, lost), page, limit)
            EXCEPT !.items = WithAuthors(@, profiles)]

(* A private chat goes by the profile of the other member. *)
UserIDWith(u, chat) ==
    IF Members[chat] = {u} THEN NoUser ELSE CHOOSE v \in Members[chat] : v # u

(* Chats with their names and the authors of their last messages. *)
WithNames(items, u, profiles) ==
    LET author(c) == LastMessage(c.chat).author
        users == UNION {{author(items[i]), UserIDWith(u, items[i].chat)} : i \in DOMAIN items}
        map   == GetShortProfileMapByUserIDs(users, profiles)
    IN  [i \in DOMAIN items |->
           [row |-> items[i], name |-> ProfileIn(map, UserIDWith(u, items[i].chat)),
            author |-> ProfileIn(map, author(items[i]))]]

GetUserChats(u, page, limit, profiles) ==
    [Paged(ChatList(u), page, limit) EXCEPT !.items = WithNames(@, u, profiles)]

StickerPacks == [err |-> Ok, items |-> GetStickerPacks]
StickersByPackID(p) == [err |-> Ok, items |-> GetStickersByPackID(p)]

-------------------------------------------------------------------------------
(* The handlers. *)

GetMessagesByChatIdHandler(u, chat, page, limit, profiles, lost) ==
    Reply(page, limit, GetMessagesByChatId(u, chat, page, limit, profiles, lost))

GetUserChatsHandler(u, page, limit, profiles) ==
    Reply(page, limit, GetUserChats(u, page, limit, profiles))

(* sendJSONData or sendJSONError. *)
Respond(result) ==
    [code |-> IF result.err = Ok THEN 200 ELSE MapErrorToHTTP(result.err), items |-> result.items]

GetStickerPacksHandler == Respond(StickerPacks)

(* That the path holds no number is not looked at. *)
GetStickersByPackIDHandler(path) == Respond(StickersByPackID(PathInt32(path).id))

-------------------------------------------------------------------------------
(* Properties.  They speak of the tables only and are checked when no call *)
(* is in progress: a failure leads from every state of the tables to such  *)
(* a state.                                                                *)

Idle == \A r \in Calls : call[r].step \in {"new", "done"}

FitOnOnePage == Cardinality(messages) <= MaxLimit

(* A row c of the chat list with its author agrees with all the messages   *)
(* of the chat, although the list goes by created_at and the counter by    *)
(* ids: the last message is the first of the messages, by its author, and  *)
(* the unread count is how many of them have an id above the last read     *)
(* one.  A sticker that is shown is one that the picker offers, and a      *)
(* message has a sticker or attachments, never both.                       *)
RowAgrees(c, author, all, offered) ==
    /\ Len(all) = Cardinality(In(c.chat))
    /\ c.last = all[1][1].id /\ author = all[1][2]
    /\ c.unread = Cardinality({j \in DOMAIN all : all[j][1].id > c.read})
    /\ \A j \in DOMAIN all :
          all[j][1].sticker # "none" => all[j][1].sticker \in offered /\ all[j][1].files = {}

(* A user finds the chats he is a member of that have messages, and each   *)
(* agrees with its messages.                                               *)
ListAgrees(u, profiles, lost) ==
    LET chats   == GetUserChatsHandler(u, 1, MaxLimit, profiles).items
        packs   == Range(GetStickerPacksHandler.items)
        offered == UNION {Range(GetStickersByPackIDHandler(p).items) : p \in packs}
        all(c)  == GetMessagesByChatIdHandler(u, c, 1, MaxLimit, profiles, lost).items
    IN  /\ {chats[i].row.chat : i \in DOMAIN chats} =
              {m.chat : m \in {n \in messages : IsMemberOfChat(u, n.chat)}}
        /\ \A i \in DOMAIN chats :
              RowAgrees(chats[i].row, chats[i].author, all(chats[i].row.chat), offered)

(* The chats and their messages agree, also if attachments cannot be read  *)
(* or nobody has a profile.  The lists are looked at as far as their first *)
(* page shows them; PagesAreRight is about the rest.                       *)
ChatsAgreeWithMessages ==
    Idle /\ FitOnOnePage => \A u \in Users :
       /\ ListAgrees(u, Users, {})
       /\ ListAgrees(u, {}, {m.id : m \in messages})

(* Turning pages of one item, a user finds each of his chats once and a    *)
(* member of a chat each of its messages; somebody else is refused.        *)
PagesAreRight ==
    Idle => \A u \in Users, p \in (1..Cardinality(Calls) + 1) \cap Int32 :
       /\ PageIsRight(WithNames(ChatList(u), u, Users), p, 1, GetUserChatsHandler(u, p, 1, Users))
       /\ \A c \in Chats :
             LET answer == GetMessagesByChatIdHandler(u, c, p, 1, Users, {})
             IN  /\ IsMemberOfChat(u, c) <=> answer.code # 403
                 /\ IsMemberOfChat(u, c) =>
                       PageIsRight(WithAuthors(MessagesByChatId(c, {}), Users), p, 1, answer)

(* Users see the chats as they are, and nobody else's. *)
ChatsAreShown == ChatsAgreeWithMessages /\ PagesAreRight

===============================================================================
