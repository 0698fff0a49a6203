------------------------------ MODULE Communities ------------------------------
(***************************************************************************)
(* Communities and subscriptions (handler/community.go,                    *)
(* service/community.go, repository/db/community.go,                       *)
(* repository/dbElastic/community.go) with the files of their avatars and  *)
(* covers (service/upload.go).                                             *)
(*                                                                         *)
(* A community is a row, an entry of the search index, up to two files and *)
(* the subscriptions that refer to it.  A request reads the row and then   *)
(* writes these one after the other; requests overlap, and every call may  *)
(* fail before or after it took effect.  Of the contents of a community    *)
(* only the name is kept.                                                  *)
(***************************************************************************)
EXTENDS Pagination, SequencesExt

CONSTANTS
    Users,
    Names,
    MaxCommunities, \* bound: the communities that are ever created
    MaxReceived,    \* bound: the requests that ever arrive
    MaxFiles,       \* bound: the files that are ever written
    Requests,       \* the requests that may be in progress at the same time
    NoName, NoUser

ASSUME NullAssumption ==
    /\ NoName \notin Names /\ (\A query \in SUBSET Names : query # NoName) /\ NoUser \notin Users
    /\ {MaxCommunities, MaxReceived, MaxFiles} \subseteq Nat
    /\ IsFiniteSet(Users)

Ids == 1..MaxCommunities

(* The names of files in the order they are generated; 0 stands for nil.   *)
NoFile == 0
Files  == 1..MaxFiles

VARIABLES
    created,    \* the ids given out so far are 1..created
    communities,\* the table: a row of every community that exists
    subs,       \* community_subscriptions: pairs of community and user
    index,      \* the search index: the name of a community
    files,      \* the files in ./uploads
    req,        \* the requests in progress
    received,   \* the number of requests that arrived
    used,       \* the files written so far are named 1..used
    overlapped, \* history: communities changed by two requests at the same time
    unsure,     \* history: communities with a write that failed after it took effect
    failed,     \* history: communities with a request that did not finish its work
    left        \* history: subscriptions that were ended by their user

store == <<created, communities, subs>>
history == <<received, used, overlapped, unsure, failed, left>>
vars == <<store, index, files, req, history>>

Row == [name : Names, creator : Users,
        avatar : Files \cup {NoFile}, cover : Files \cup {NoFile}]

Ops   == {"create", "update", "delete", "subscribe", "unsubscribe"}
Steps == {"idle", "read", "avatar", "cover", "write", "index", "unlink",
          "user", "subscribe", "unsubscribe"}
Paths == [avatar : Files \cup {NoFile}, cover : Files \cup {NoFile}]

(* sent are the files that came with the request, old the paths of the row *)
(* that was read, new the ones to be written; id is 0 until it is known.   *)
Request == [op : Ops, user : Users \cup {NoUser}, id : 0..MaxCommunities,
            name : Names \cup {NoName}, sent : SUBSET {"avatar", "cover"},
            step : Steps, old : Paths, new : Paths]

NoPaths == [avatar |-> NoFile, cover |-> NoFile]
NoRequest == [op |-> "unsubscribe", user |-> NoUser, id |-> 0, name |-> NoName,
              sent |-> {}, step |-> "idle", old |-> NoPaths, new |-> NoPaths]

Busy(r) == req[r].step # "idle"
Goto(r, step) == req' = [req EXCEPT ![r].step = step]
Answer(r, code) == req' = [req EXCEPT ![r] = NoRequest]
Refuse(r, err) == Answer(r, MapErrorToHTTP(err))

Exists(c) == c \in DOMAIN communities

-------------------------------------------------------------------------------
(* Reading.  Lists are ordered by created_at, newest first, which is the   *)
(* order of the ids.                                                       *)

Newest(ids) == InOrder(ids, [c \in ids |-> -c])

IsSubscribed(c, u) == <<c, u>> \in subs

GetCommunitySubscribers(c) == {u \in Users : IsSubscribed(c, u)}

(* A community as a list shows it: with its name and subscribers_count. *)
Short(c) == <<c, communities[c].name, Cardinality(GetCommunitySubscribers(c))>>
List(ids) == LET s == Newest(ids) IN [i \in DOMAIN s |-> Short(s[i])]

GetUserSubscribedCommunityIDs(u) == {s[1] : s \in {p \in subs : p[2] = u}}

(* An inner join: only subscriptions whose community exists. *)
GetUserCommunities(u) == List({c \in DOMAIN communities : IsSubscribed(c, u)})

GetOtherCommunities(u) ==
    List({c \in DOMAIN communities : c \notin GetUserSubscribedCommunityIDs(u)})

GetCreatedCommunities(u) == List({c \in DOMAIN communities : communities[c].creator = u})

GetCommunitiesByIDs(ids) == List({c \in DOMAIN communities : c \in ids})

(* The service and its handlers: a page of a list. *)
UserCommunities(u, page, limit) == Paged(GetUserCommunities(u), page, limit)
OtherCommunities(u, page, limit) == Paged(GetOtherCommunities(u), page, limit)
CreatedCommunities(u, page, limit) == Paged(GetCreatedCommunities(u), page, limit)

GetUserCommunitiesHandler(u, page, limit) == Reply(page, limit, UserCommunities(u, page, limit))
GetOtherCommunitiesHandler(u, page, limit) == Reply(page, limit, OtherCommunities(u, page, limit))
GetCreatedCommunitiesHandler(u, page, limit) ==
    Reply(page, limit, CreatedCommunities(u, page, limit))

(* The communities of any user, who must exist; an unknown one is NoUser.  *)
GetUserCommunitiesByID(u) == List({c \in DOMAIN communities : IsSubscribed(c, u)})

UserCommunitiesByID(u, page, limit) ==
    IF u \notin Users THEN [err |-> "ErrNotExist", items |-> <<>>]
    ELSE Paged(GetUserCommunitiesByID(u), page, limit)

GetUserCommunitiesByIDHandler(u, page, limit) ==
    Reply(page, limit, UserCommunitiesByID(u, page, limit))

SubscribedCommunityIDs(u) ==
    IF u \notin Users THEN [err |-> "ErrNotExist", items |-> {}]
    ELSE [err |-> Ok, items |-> GetUserSubscribedCommunityIDs(u)]

(* sendJSONData or sendJSONError. *)
Respond(result) ==
    [code |-> IF result.err = Ok THEN 200 ELSE MapErrorToHTTP(result.err), items |-> result.items]

SubscribedCommunityIDsHandler(u) == Respond(SubscribedCommunityIDs(u))

(* One community, with the answer to whether the user is subscribed. *)
GetCommunity(u, c) ==
    IF ~Exists(c) THEN [err |-> "ErrNotFound", items |-> <<>>]
    ELSE [err |-> Ok, items |-> <<Short(c), IsSubscribed(c, u)>>]

GetCommunityHandler(u, c) == Respond(GetCommunity(u, c))

(* A page of the subscribers of a community, in some fixed order that      *)
(* stands for the order of the query, without those who have no profile.   *)
CommunitySubscribers(c, page, limit, profiles) ==
    LET result == Paged(SetToSeq(GetCommunitySubscribers(c)), page, limit)
    IN  IF ~Exists(c) THEN [err |-> "ErrNotFound", items |-> <<>>]
        ELSE [result EXCEPT !.items = Those(@, profiles)]

GetCommunitySubscribersHandler(c, page, limit, profiles) ==
    Reply(page, limit, CommunitySubscribers(c, page, limit, profiles))

(* Elasticsearch: a page of the communities, in a set of ids or not, whose *)
(* name it takes for the query.  It compares the terms of the query with   *)
(* those of a name and of its transliteration, and terms that differ in a  *)
(* few letters are alike: a query is the set of names that it accepts, of  *)
(* which nothing is assumed.  The order of the ids stands for that of the  *)
(* relevance; a negative offset is an error of the index that is read as   *)
(* an empty page.                                                          *)
SearchCommunityIDsByName(query, filter, isTerms, window) ==
    LET hits == {c \in Ids : index[c] \in query /\ (c \in filter <=> isTerms)}
    IN  IF window.offset < 0 THEN {}
        ELSE ToSet(Limited(InOrder(hits, [c \in hits |-> c]), window))

(* The rows of what the index finds among the user's communities, or among *)
(* the others for the type "recommended".                                  *)
SearchShortCommunityByNameAndType(u, query, type, page, limit) ==
    LET window == ValidatePaginationParams(page, limit)
        found  == SearchCommunityIDsByName(query, GetUserSubscribedCommunityIDs(u),
                                           type # "recommended", window)
    IN  [err |-> Ok, items |-> GetCommunitiesByIDs(found)]

(* A search without a name is refused; without a type it is among the      *)
(* user's own.                                                             *)
SearchCommunityByName(u, query, type, page, limit) ==
    IF query = NoName THEN [code |-> 400, items |-> <<>>]
    ELSE Reply(page, limit, SearchShortCommunityByNameAndType(u, query, type, page, limit))

-------------------------------------------------------------------------------
(* Requests. *)

(* The first thing a valid request does. *)
FirstUpload(q) == IF "avatar" \in q.sent THEN "avatar"
                  ELSE IF "cover" \in q.sent THEN "cover" ELSE "write"
FirstStep(q) ==
    CASE q.op = "create"      -> FirstUpload(q)
      [] q.op = "unsubscribe" -> "unsubscribe"
      [] OTHER                -> "read"

Changes(q) == q.op \in {"create", "update", "delete"}

(* A request reaches the service; one that is not valid has been answered. *)
Arrive(r, q) ==
    /\ ~Busy(r)
    /\ received < MaxReceived /\ received' = received + 1
    /\ req' = [req EXCEPT ![r] = [q EXCEPT !.step = FirstStep(q)]]
    /\ overlapped' = IF Changes(q) /\ \E s \in Requests : /\ Busy(s) /\ Changes(req[s])
                                                          /\ req[s].id = q.id /\ q.id # 0
                       THEN overlapped \cup {q.id} ELSE overlapped
    /\ UNCHANGED <<store, index, files, used, unsure, failed, left>>

(* What the query for a community may result in. *)
GetCommunityByID(c) == {"ErrDB", IF Exists(c) THEN Ok ELSE "ErrNotFound"}

(* UpdateCommunity and DeleteCommunity read the row of the community and   *)
(* check that it is the creator's.                                         *)
ReadOwnCommunity(r, step) ==
    LET q == req[r]
        c == communities[q.id]
        paths == [avatar |-> c.avatar, cover |-> c.cover]
    IN  \E err \in GetCommunityByID(q.id) :
           \/ err # Ok /\ Refuse(r, err)
           \/ err = Ok /\ c.creator # q.user /\ Refuse(r, "ErrAccessDenied")
           \/ /\ err = Ok /\ c.creator = q.user
              /\ req' = [req EXCEPT ![r].old = paths, ![r].new = paths, ![r].step = step]

UpdateCommunityReads(r) ==
    /\ req[r].step = "read" /\ req[r].op = "update"
    /\ ReadOwnCommunity(r, FirstUpload(req[r]))
    /\ UNCHANGED <<store, index, files, history>>

DeleteCommunityReads(r) ==
    /\ req[r].step = "read" /\ req[r].op = "delete"
    /\ ReadOwnCommunity(r, "write")
    /\ UNCHANGED <<store, index, files, history>>

(* Subscribe needs the community to be there, *)
SubscribeReads(r) ==
    /\ req[r].step = "read" /\ req[r].op = "subscribe"
    /\ \E err \in GetCommunityByID(req[r].id) :
          IF err = Ok THEN Goto(r, "user") ELSE Refuse(r, err)
    /\ UNCHANGED <<store, index, files, history>>

(* and the user, whom the auth service knows or not. *)
IsUserExists(u) == {"ErrDB", IF u \in Users THEN Ok ELSE "ErrNotExist"}

SubscribeAsksForUser(r) ==
    /\ req[r].step = "user"
    /\ \E err \in IsUserExists(req[r].user) :
          IF err = Ok THEN Goto(r, "subscribe") ELSE Refuse(r, err)
    /\ UNCHANGED <<store, index, files, history>>

(* Mutation: the old avatar makes room for the new one at once. *)
UploadAvatarInPlace(r) ==
    /\ req[r].step = "avatar"
    /\ \E f \in Files :
          /\ f = used + 1 /\ used' = f
          /\ files' = (files \cup {f}) \ {req[r].old.avatar}
          /\ req' = [req EXCEPT ![r].new.avatar = f,
                        ![r].step = IF "cover" \in req[r].sent THEN "cover" ELSE "write"]
    /\ UNCHANGED <<store, index, overlapped, unsure, failed, left, received>>

(* The new avatar is written under a fresh name.  The torn file that a     *)
(* full disk may leave is not counted as a file.                           *)
UploadAvatar(r) ==
    /\ req[r].step = "avatar"
    /\ \/ \E f \in Files :
             /\ f = used + 1 /\ used' = f
             /\ files' = files \cup {f}
             /\ req' = [req EXCEPT ![r].new.avatar = f,
                           ![r].step = IF "cover" \in req[r].sent THEN "cover" ELSE "write"]
       \/ Refuse(r, "ErrService") /\ UNCHANGED <<files, used>>
    /\ UNCHANGED <<store, index, overlapped, unsure, failed, left, received>>

(* The files this request has written so far. *)
Written(q) == {q.new[k] : k \in {j \in q.sent : q.new[j] # q.old[j]}}

(* Some files are deleted.  Errors are not looked at: any of them may be   *)
(* kept, and what is not done for the community c is remembered.           *)
Unlink(gone, c) ==
    \E kept \in SUBSET (gone \ {NoFile}) :
       /\ files' = files \ (gone \ kept)
       /\ failed' = IF kept = {} THEN failed ELSE failed \cup {c}

(* Mutation: a failed upload of the cover forgets the avatar. *)
UploadCoverForgets(r) ==
    /\ req[r].step = "cover"
    /\ \/ \E f \in Files :
             /\ f = used + 1 /\ used' = f
             /\ files' = files \cup {f}
             /\ req' = [req EXCEPT ![r].new.cover = f, ![r].step = "write"]
       \/ Refuse(r, "ErrService") /\ UNCHANGED <<files, used>>
    /\ UNCHANGED <<store, index, overlapped, unsure, failed, left, received>>

(* The new cover; if that fails, the new avatar is deleted again. *)
UploadCover(r) ==
    /\ req[r].step = "cover"
    /\ \/ \E f \in Files :
             /\ f = used + 1 /\ used' = f
             /\ files' = files \cup {f}
             /\ req' = [req EXCEPT ![r].new.cover = f, ![r].step = "write"]
             /\ UNCHANGED failed
       \/ Refuse(r, "ErrService") /\ Unlink(Written(req[r]), req[r].id) /\ UNCHANGED used
    /\ UNCHANGED <<store, index, overlapped, unsure, left, received>>

(* A write went wrong: the new files are deleted.  A write that may have   *)
(* been applied although it failed is not finished.                        *)
CleanUp(r) == Refuse(r, "ErrDB") /\ Unlink(Written(req[r]), req[r].id)

CleanUpApplied(r, c) ==
    /\ Refuse(r, "ErrDB")
    /\ \E kept \in SUBSET Written(req[r]) : files' = files \ (Written(req[r]) \ kept)
    /\ failed' = failed \cup {c} /\ unsure' = unsure \cup {c}

NewRow(q) == [name |-> q.name, creator |-> q.user,
              avatar |-> q.new.avatar, cover |-> q.new.cover]

(* Mutation: an id is given out again. *)
CreateCommunityAgain(r) ==
    LET q == req[r]
        c == created + 1
    IN  /\ q.step = "write" /\ q.op = "create"
        /\ communities' = [d \in DOMAIN communities \cup {c} |->
                             IF d = c THEN NewRow(q) ELSE communities[d]]
        /\ req' = [req EXCEPT ![r].id = c, ![r].step = "index"]
        /\ UNCHANGED <<created, subs, index, files, history>>

(* INSERT INTO communities: applied or not, and its answer lost or not. *)
CreateCommunity(r) ==
    LET q == req[r]
        c == created + 1
    IN  /\ q.step = "write" /\ q.op = "create"
        /\ \/ /\ created < MaxCommunities
              /\ created' = c
              /\ communities' = [d \in DOMAIN communities \cup {c} |->
                                   IF d = c THEN NewRow(q) ELSE communities[d]]
              /\ \/ /\ req' = [req EXCEPT ![r].id = c, ![r].step = "index"]
                    /\ UNCHANGED <<files, unsure, failed>>
                 \/ CleanUpApplied(r, c)
           \/ CleanUp(r) /\ UNCHANGED <<created, communities, unsure>>
        /\ UNCHANGED <<subs, index, used, overlapped, left, received>>

(* UPDATE communities WHERE id AND creator_id: no row is an error too. *)
UpdateCommunity(r) ==
    LET q == req[r]
    IN  /\ q.step = "write" /\ q.op = "update"
        /\ \/ /\ Exists(q.id) /\ communities[q.id].creator = q.user
              /\ communities' = [communities EXCEPT ![q.id] = NewRow(q)]
              /\ \/ Goto(r, "index") /\ UNCHANGED <<files, unsure, failed>>
                 \/ CleanUpApplied(r, q.id)
           \/ CleanUp(r) /\ UNCHANGED <<communities, unsure>>
        /\ UNCHANGED <<created, subs, index, used, overlapped, left, received>>

(* Mutation: subscriptions are not deleted with their community. *)
DeleteCommunityOnly(r) ==
    LET q == req[r]
    IN  /\ q.step = "write" /\ q.op = "delete"
        /\ Exists(q.id)
        /\ communities' = [c \in DOMAIN communities \ {q.id} |-> communities[c]]
        /\ Goto(r, "index")
        /\ UNCHANGED <<created, subs, files, index, history>>

(* DELETE FROM communities, with the subscriptions that refer to it. *)
DeleteCommunity(r) ==
    LET q == req[r]
    IN  /\ q.step = "write" /\ q.op = "delete"
        /\ \/ /\ Exists(q.id) /\ communities[q.id].creator = q.user
              /\ communities' = [c \in DOMAIN communities \ {q.id} |-> communities[c]]
              /\ subs' = {s \in subs : s[1] # q.id}
              /\ \/ Goto(r, "index") /\ UNCHANGED <<unsure, failed>>
                 \/ /\ Refuse(r, "ErrDB")
                    /\ unsure' = unsure \cup {q.id} /\ failed' = failed \cup {q.id}
           \/ Refuse(r, "ErrDB") /\ UNCHANGED <<communities, subs, unsure, failed>>
        /\ UNCHANGED <<created, files, index, used, overlapped, left, received>>

(* What the index holds after a request: a new document, a changed one if  *)
(* there is one, none.                                                     *)
Indexed(q) ==
    CASE q.op = "create" -> q.name
      [] q.op = "delete" -> NoName
      [] OTHER           -> IF index[q.id] = NoName THEN NoName ELSE q.name

(* Mutation: an update does not reach the index. *)
IndexCommunityOnce(r) ==
    LET q == req[r]
    IN  /\ q.step = "index"
        /\ index' = IF q.op = "update" THEN index ELSE [index EXCEPT ![q.id] = Indexed(q)]
        /\ Goto(r, IF q.op = "create" THEN "subscribe" ELSE "unlink")
        /\ UNCHANGED <<store, files, history>>

(* The index is changed, or the error is logged and forgotten. *)
IndexCommunity(r) ==
    LET q == req[r]
    IN  /\ q.step = "index"
        /\ \/ index' = [index EXCEPT ![q.id] = Indexed(q)] /\ UNCHANGED failed
           \/ failed' = failed \cup {q.id} /\ UNCHANGED index
        /\ Goto(r, IF q.op = "create" THEN "subscribe" ELSE "unlink")
        /\ UNCHANGED <<store, files, used, overlapped, unsure, left, received>>

(* UpdateCommunity deletes the files it replaced, *)
UpdateCommunityUnlinks(r) ==
    LET q == req[r]
    IN  /\ q.step = "unlink" /\ q.op = "update"
        /\ Unlink({q.old[k] : k \in q.sent}, q.id)
        /\ Answer(r, 200)
        /\ UNCHANGED <<store, index, used, overlapped, unsure, left, received>>

(* DeleteCommunity those of the row it read. *)
DeleteCommunityUnlinks(r) ==
    LET q == req[r]
    IN  /\ q.step = "unlink" /\ q.op = "delete"
        /\ Unlink({q.old.avatar, q.old.cover}, q.id)
        /\ Answer(r, 200)
        /\ UNCHANGED <<store, index, used, overlapped, unsure, left, received>>

(* INSERT INTO community_subscriptions, and what it reports; the community *)
(* must still exist.                                                       *)
InsertSubscription(s, err) ==
    \/ Exists(s[1]) /\ subs' = subs \cup {s} /\ err \in {Ok, "ErrDB"}
    \/ err = "ErrDB" /\ UNCHANGED subs

(* Mutation: the creator is not subscribed to a new community. *)
SubscribeCreatorNot(r) ==
    /\ req[r].step = "subscribe" /\ req[r].op = "create"
    /\ Answer(r, 200)
    /\ UNCHANGED <<store, index, files, history>>

(* CreateCommunity subscribes the creator; an error is only logged. *)
SubscribeCreator(r) ==
    /\ req[r].step = "subscribe" /\ req[r].op = "create"
    /\ \E err \in {Ok, "ErrDB"} : InsertSubscription(<<req[r].id, req[r].user>>, err)
    /\ failed' = IF <<req[r].id, req[r].user>> \in subs' THEN failed ELSE failed \cup {req[r].id}
    /\ Answer(r, 200)
    /\ UNCHANGED <<created, communities, index, files, used, overlapped, unsure, left, received>>

Subscribe(r) ==
    /\ req[r].step = "subscribe" /\ req[r].op = "subscribe"
    /\ \E err \in {Ok, "ErrDB"} :
          /\ InsertSubscription(<<req[r].id, req[r].user>>, err)
          /\ IF err = Ok THEN Answer(r, 200) ELSE Refuse(r, err)
    /\ UNCHANGED <<created, communities, index, files, history>>

(* DELETE FROM community_subscriptions, and what it reports. *)
DeleteSubscription(s, err) ==
    \/ /\ s \in subs /\ err \in {Ok, "ErrDB"}
       /\ subs' = subs \ {s} /\ left' = left \cup {s}
    \/ s \notin subs /\ err = "ErrNotFound" /\ UNCHANGED <<subs, left>>
    \/ err = "ErrDB" /\ UNCHANGED <<subs, left>>

Unsubscribe(r) ==
    /\ req[r].step = "unsubscribe"
    /\ \E err \in {Ok, "ErrNotFound", "ErrDB"} :
          /\ DeleteSubscription(<<req[r].id, req[r].user>>, err)
          /\ IF err = Ok THEN Answer(r, 200) ELSE Refuse(r, err)
    /\ UNCHANGED <<created, communities, index, files, used, overlapped, unsure, failed, received>>

(* The process dies and is started again. *)
Crash ==
    /\ \E r \in Requests : Busy(r)
    /\ req' = [r \in Requests |-> NoRequest]
    /\ failed' = failed \cup {req[r].id : r \in {s \in Requests : Changes(req[s])}}
    /\ UNCHANGED <<store, index, files, used, overlapped, unsure, left, received>>

Init ==
    /\ created = 0 /\ communities = <<>> /\ subs = {}
    /\ index = [c \in Ids |-> NoName]
    /\ files = {} /\ used = 0 /\ received = 0
    /\ overlapped = {} /\ unsure = {} /\ failed = {} /\ left = {}
    /\ req = [r \in Requests |-> NoRequest]

Step(r) ==
    \/ UpdateCommunityReads(r) \/ DeleteCommunityReads(r)
    \/ SubscribeReads(r) \/ SubscribeAsksForUser(r)
    \/ UploadAvatar(r) \/ UploadCover(r)
    \/ CreateCommunity(r) \/ UpdateCommunity(r) \/ DeleteCommunity(r)
    \/ IndexCommunity(r) \/ UpdateCommunityUnlinks(r) \/ DeleteCommunityUnlinks(r)
    \/ SubscribeCreator(r) \/ Subscribe(r) \/ Unsubscribe(r)

(* The handlers. *)
CreateCommunityHandler(r) ==
    \E u \in Users, n \in Names, s \in SUBSET {"avatar", "cover"} :
       Arrive(r, [NoRequest EXCEPT !.op = "create", !.user = u, !.name = n, !.sent = s])

UpdateCommunityHandler(r) ==
    \E u \in Users, c \in 1..created, n \in Names, s \in SUBSET {"avatar", "cover"} :
       Arrive(r, [NoRequest EXCEPT !.op = "update", !.user = u, !.id = c, !.name = n, !.sent = s])

DeleteCommunityHandler(r) ==
    \E u \in Users, c \in 1..created :
       Arrive(r, [NoRequest EXCEPT !.op = "delete", !.user = u, !.id = c])

SubscribeHandler(r) ==
    \E u \in Users, c \in 1..created :
       Arrive(r, [NoRequest EXCEPT !.op = "subscribe", !.user = u, !.id = c])

UnsubscribeHandler(r) ==
    \E u \in Users, c \in 1..created :
       Arrive(r, [NoRequest EXCEPT !.op = "unsubscribe", !.user = u, !.id = c])

Receive(r) ==
    \/ CreateCommunityHandler(r) \/ UpdateCommunityHandler(r) \/ DeleteCommunityHandler(r)
    \/ SubscribeHandler(r) \/ UnsubscribeHandler(r)

Next ==
    \/ \E r \in Requests : Receive(r) \/ Step(r)
    \/ Crash

Spec == Init /\ [][Next]_vars

-------------------------------------------------------------------------------
(* Properties. *)

(* The rows, the files, the index and the requests are well formed: an id  *)
(* of a community is given out once.                                       *)
TypeOK ==
    /\ created \in 0..MaxCommunities
    /\ DOMAIN communities \subseteq 1..created
    /\ \A c \in DOMAIN communities : communities[c] \in Row
    /\ subs \subseteq Ids \X Users
    /\ index \in [Ids -> Names \cup {NoName}]
    /\ used \in 0..MaxFiles /\ files \subseteq 1..used /\ received \in 0..MaxReceived
    /\ req \in [Requests -> Request]
    /\ overlapped \subseteq Ids /\ unsure \subseteq Ids
    /\ failed \subseteq 0..MaxCommunities /\ left \subseteq Ids \X Users

(* The files of a row or of paths; those a request has read of or written  *)
(* for a community.                                                        *)
Taken(paths) == {paths.avatar, paths.cover} \ {NoFile}
PathsOf(c) == Taken(communities[c])
Holds(r) == Taken(req[r].old) \cup Taken(req[r].new)

(* The files that a community names are on the disk, in spite of crashes   *)
(* and of uploads, deletions and index updates that fail: they are deleted *)
(* only after the row names others.  What can break it is two changes of a *)
(* community at the same time, and a write whose success the service did   *)
(* not learn of.                                                           *)
FilesAreServed ==
    \A c \in DOMAIN communities : c \notin overlapped \cup unsure => PathsOf(c) \subseteq files

(* Nothing is left on the disk by requests that failed in an orderly way:  *)
(* if no change overlapped another or was cut short, every file is named   *)
(* by a community or belongs to a request in progress.                     *)
NoFileLeft ==
    overlapped = {} /\ failed = {} =>
       \A f \in files : \/ \E c \in DOMAIN communities : f \in PathsOf(c)
                        \/ \E r \in Requests : f \in Holds(r)

Settled(c) ==
    /\ c \notin overlapped \cup failed
    /\ \A r \in Requests : req[r].id = c => ~Changes(req[r])

(* The search finds a community whenever the name it has now is one that   *)
(* the index takes for the query, for its subscribers among theirs and for *)
(* the others among the recommended: on exactly one page as the pages are  *)
(* turned, and on none if the name is another or the community is deleted. *)
FewCommunities == MaxCommunities * MaxLimit < Half

SearchFinds(c, u, query, limit) ==
    LET type  == IF IsSubscribed(c, u) THEN "subscriber" ELSE "recommended"
        page  == GetCommunityHandler(u, c)
        shown == [p \in 1..MaxCommunities |->
                    SearchCommunityByName(u, query, type, p, limit).items]
        on    == {p \in 1..MaxCommunities : \E i \in DOMAIN shown[p] : shown[p][i][1] = c}
    IN  IF page.code = 200 /\ page.items[1][2] \in query
        THEN \E p \in 1..MaxCommunities : on = {p}
        ELSE on = {}

FoundByName ==
    FewCommunities => \A c \in 1..created : Settled(c) =>
       \A u \in Users, query \in SUBSET Names, limit \in {1, MaxLimit + 1} :
          SearchFinds(c, u, query, limit)

(* The two lists a user chooses from show every community once, and the    *)
(* subscriptions nobody sees do not exist: the ids that posts and search   *)
(* work with are those of the list of the user's communities, and a        *)
(* community counts as many subscribers as it lists, if all have profiles  *)
(* and fit on one page.                                                    *)
ListsAgree ==
    \A u \in Users :
       LET mine   == GetUserCommunities(u)
           others == GetOtherCommunities(u)
       IN  /\ {mine[i][1] : i \in DOMAIN mine} = SubscribedCommunityIDsHandler(u).items
           /\ ToSet(mine) \cap ToSet(others) = {}
           /\ ToSet(mine) \cup ToSet(others) = ToSet(GetCommunitiesByIDs(Ids))
           /\ \A i \in DOMAIN mine :
                 mine[i][3] <= MaxLimit =>
                    mine[i][3] = Len(GetCommunitySubscribersHandler(mine[i][1], 1, MaxLimit, Users).items)

(* The creator of a community is one of its subscribers, unless he left it *)
(* or its creation did not finish.                                         *)
CreatorSubscribed ==
    \A c \in DOMAIN communities : Settled(c) =>
       communities[c].creator \in GetCommunitySubscribers(c)
         \/ <<c, communities[c].creator>> \in left

Idle == \A r \in Requests : ~Busy(r)

(* Turning the pages of a list shows each of its items once.  (A crash     *)
(* leads from every state of the tables to an idle one.)                   *)
PagesAreRight ==
    Idle => \A u \in Users, l \in {1, MaxLimit + 1}, p \in 0..MaxCommunities + 1 :
       /\ PageIsRight(GetUserCommunities(u), p, l, GetUserCommunitiesHandler(u, p, l))
       /\ PageIsRight(GetUserCommunities(u), p, l, GetUserCommunitiesByIDHandler(u, p, l))
       /\ PageIsRight(GetOtherCommunities(u), p, l, GetOtherCommunitiesHandler(u, p, l))
       /\ PageIsRight(GetCreatedCommunities(u), p, l, GetCreatedCommunitiesHandler(u, p, l))
       /\ \A c \in DOMAIN communities :
             PageIsRight(SetToSeq(GetCommunitySubscribers(c)), p, l,
                         GetCommunitySubscribersHandler(c, p, l, Users))

(* Communities and the files on the disk agree. *)
DiskAgrees == TypeOK /\ FilesAreServed /\ NoFileLeft

(* Whoever belongs to a community is shown so, on every list and page. *)
MembersAreShown == ListsAgree /\ CreatorSubscribed /\ PagesAreRight

-------------------------------------------------------------------------------
(* What the properties need to be inductive (see CommunitiesProofs). *)

StepsOf(op) ==
    CASE op = "create"    -> {"avatar", "cover", "write", "index", "subscribe"}
      [] op = "update"    -> {"read", "avatar", "cover", "write", "index", "unlink"}
      [] op = "delete"    -> {"read", "write", "index", "unlink"}
      [] op = "subscribe" -> {"read", "user", "subscribe"}
      [] OTHER            -> {"idle", "unsubscribe"}

Kinds == {"avatar", "cover"}

(* Before and after the write to the table. *)
Prepares(q) == q.step \in {"avatar", "cover", "write"}
Finishes(q) == q.step \in {"index", "subscribe", "unlink"}

(* Whether the file of a kind that came with a request is written. *)
Uploaded(q, k) ==
    k \in q.sent /\ (q.step = "write" \/ Finishes(q) \/ (q.step = "cover" /\ k = "avatar"))

Distinct(paths) == paths.avatar = paths.cover => paths.avatar = NoFile

(* How far a request has come: what is written is new, the rest is as it   *)
(* was read.                                                               *)
Sound(q) ==
    /\ q.step \in StepsOf(q.op)
    /\ IF q.step = "idle" THEN q = NoRequest ELSE q.user \in Users
    /\ q.op \in {"create", "update"} => q.name \in Names
    /\ IF q.step = "idle" \/ (q.op = "create" /\ Prepares(q)) THEN q.id = 0 ELSE q.id \in 1..created
    /\ ~Changes(q) \/ q.step = "read" => q.old = NoPaths /\ q.new = NoPaths
    /\ q.op = "create" => q.old = NoPaths
    /\ q.op \notin {"create", "update"} => q.sent = {}
    /\ q.step \in Kinds => q.step \in q.sent
    /\ \A k \in Kinds : IF Uploaded(q, k) THEN q.new[k] \notin Taken(q.old) \cup {NoFile}
                                          ELSE q.new[k] = q.old[k]
    /\ Distinct(q.old) /\ Distinct(q.new)

(* A file belongs to one community and to the requests that change it, or  *)
(* to one request that creates a community.                                *)
FilesHaveOneOwner ==
    /\ \A c \in DOMAIN communities : Distinct(communities[c]) /\ PathsOf(c) \subseteq 1..used
    /\ \A r \in Requests : Holds(r) \subseteq 1..used
    /\ \A c, d \in DOMAIN communities : \A f \in PathsOf(c) : f \in PathsOf(d) => c = d
    /\ \A r \in Requests, c \in DOMAIN communities : \A f \in Holds(r) :
          f \in PathsOf(c) => Changes(req[r]) /\ req[r].id = c
    /\ \A r, s \in Requests : \A f \in Holds(r) :
          f \in Holds(s) /\ r # s =>
             Changes(req[r]) /\ Changes(req[s]) /\ req[r].id = req[s].id /\ req[r].id # 0

(* Two requests that change the same community were noticed. *)
OverlapsAreNoted ==
    \A r, s \in Requests :
       Changes(req[r]) /\ Changes(req[s]) /\ req[r].id = req[s].id /\ req[r].id # 0 /\ r # s =>
          req[r].id \in overlapped

Clear(c) == c \notin overlapped \cup unsure
Quiet == overlapped = {} /\ failed = {}

(* What a request knows of its community is right, unless another request  *)
(* interferes: until it writes the row, the paths it has read are those of *)
(* the row and what it has uploaded is on disk; then the row has its own.  *)
KnowsTheRow(q) ==
    Changes(q) /\ Clear(q.id) =>
       /\ Prepares(q) /\ q.op # "create" =>
             /\ Exists(q.id)
             /\ q.old.avatar = communities[q.id].avatar /\ q.old.cover = communities[q.id].cover
       /\ Finishes(q) /\ q.op # "delete" =>
             /\ Exists(q.id)
             /\ q.new.avatar = communities[q.id].avatar /\ q.new.cover = communities[q.id].cover
       /\ Prepares(q) => \A k \in Kinds : Uploaded(q, k) => q.new[k] \in files

(* A request that deleted a community, or created it, knows that. *)
KnowsItsFate(q) ==
    /\ q.op = "delete" /\ Finishes(q) => ~Exists(q.id)
    /\ q.op = "create" /\ Finishes(q) /\ Exists(q.id) => communities[q.id].creator = q.user

(* The creator is subscribed, left, or about to be subscribed.             *)
CreatorJoins ==
    \A c \in DOMAIN communities : c \notin overlapped \cup failed =>
       \/ communities[c].creator \in GetCommunitySubscribers(c)
       \/ <<c, communities[c].creator>> \in left
       \/ \E r \in Requests : req[r].op = "create" /\ req[r].id = c

(* The index holds the name of a community, or a request is about to bring *)
(* it there.                                                               *)
NameOf(c) == IF Exists(c) THEN communities[c].name ELSE NoName
IndexFollows ==
    \A c \in 1..created : c \notin overlapped \cup failed =>
       IF \E r \in Requests : req[r].id = c /\ req[r].step = "index"
         THEN \A r \in Requests : req[r].id = c /\ req[r].step = "index" =>
                                     Indexed(req[r]) = NameOf(c)
         ELSE index[c] = NameOf(c)

IInv ==
    /\ DiskAgrees /\ FilesHaveOneOwner /\ OverlapsAreNoted /\ unsure \subseteq failed
    /\ \A r \in Requests : Sound(req[r]) /\ KnowsTheRow(req[r]) /\ KnowsItsFate(req[r])

(* A subscription goes with its community. *)
SubsAreLive == \A s \in subs : Exists(s[1])

(* The same with what the index and the subscriptions need. *)
SInv == CreatorJoins /\ IndexFollows /\ SubsAreLive

===============================================================================
