------------------------------ MODULE FriendViews ------------------------------
(***************************************************************************)
(* What users see of the relations of module Friendship: the lists, the    *)
(* search, the status and the counters of service/friend.go, behind        *)
(* grpc/friend.go and handler/friend.go.                                   *)
(*                                                                         *)
(* profiles is the set of users with a profile, matching the set of users  *)
(* whose name the search index finds for a query.  A profile is its user.  *)
(* The order of the items within a page is not kept: the service asks for  *)
(* the profiles of a page of ids, and that query has no order.             *)
(***************************************************************************)
EXTENDS Friendship, Pagination, SequencesExt

(* Ids are 32-bit numbers. *)
ASSUME IdsAssumption == Accounts \subseteq 1..Half - 1

(* The lists are read in a fixed order; that of the ids stands for it. *)
Sorted(ids) == InOrder(ids, [u \in ids |-> u])

GetShortProfileByUserIDs(ids, profiles) == Those(ids, profiles)

-------------------------------------------------------------------------------
(* The service. *)

GetFriends(u, page, limit, profiles) ==
    LET result == Paged(Sorted(GetUserFriends(u)), page, limit)
    IN  [result EXCEPT !.items = GetShortProfileByUserIDs(@, profiles)]

GetFriendRequests(u, page, limit, profiles) ==
    LET result == Paged(Sorted(GetFriendshipRequests(u)), page, limit)
    IN  [result EXCEPT !.items = GetShortProfileByUserIDs(@, profiles)]

SentRequests(u, page, limit, profiles) ==
    LET result == Paged(Sorted(GetSentRequests(u)), page, limit)
    IN  [result EXCEPT !.items = GetShortProfileByUserIDs(@, profiles)]

(* The query for all users has a LIMIT but no ORDER BY: a page may be any  *)
(* that is a page in some order.  These are the possible results.          *)
AllUsers(u, page, limit, profiles) ==
    {Paged(order, page, limit) : order \in SetToSeqs(GetAllUsers(u) \cap profiles)}

(* No row is no status. *)
GetFriendshipStatus(u, v) == [err |-> Ok, items |-> GetFriendship(u, v).status]

RelationsCount(u) ==
    IF u \in Accounts THEN [err |-> Ok, items |-> CountUserRelations(u)]
    ELSE [err |-> "ErrNotExist", items |-> <<>>]

RelationTypes == {"accepted", "pending", "sent", "blocked", "notFriends"}

(* The index answers with a page of the users it finds; a negative offset  *)
(* is an error of the index that is read as an empty page.                 *)
SearchUserIDsByFullNameWithFilter(matching, scope, window) ==
    IF window.offset < 0 THEN <<>> ELSE Limited(Sorted(matching \cap scope), window)

SearchShortProfiles(u, matching, type, page, limit, profiles) ==
    IF type \notin RelationTypes THEN [err |-> "ErrDB", items |-> <<>>]
    ELSE LET found == SearchUserIDsByFullNameWithFilter(
                         matching, SearchScope(u, type), ValidatePaginationParams(page, limit))
         IN  [err |-> Ok, items |-> GetShortProfileByUserIDs(found, profiles)]

-------------------------------------------------------------------------------
(* Its gRPC wrapper, and what the handlers make of a status: most turn it  *)
(* into a domain error, two pass it on as it is, which is always a 500.    *)

Grpc(result) ==
    [status |-> IF result.err = Ok THEN "OK" ELSE ToGrpcError(result.err), items |-> result.items]

Code(resp) == IF resp.status = "OK" THEN 200 ELSE MapErrorToHTTP(FromGrpcError(resp.status))
RawCode(resp) == IF resp.status = "OK" THEN 200 ELSE MapErrorToHTTP(resp.status)

(* An answer, if the parameters of the page are integers. *)
Shown(page, limit, code, resp) ==
    IF DecodeQueryParams(page, limit) THEN [code |-> code, items |-> resp.items]
    ELSE [code |-> 400, items |-> <<>>]

GetFriendsHandler(u, page, limit, profiles) ==
    LET resp == Grpc(GetFriends(u, page, limit, profiles))
    IN  Shown(page, limit, Code(resp), resp)

GetFriendRequestsHandler(u, page, limit, profiles) ==
    LET resp == Grpc(GetFriendRequests(u, page, limit, profiles))
    IN  Shown(page, limit, Code(resp), resp)

GetSentRequestsHandler(u, page, limit, profiles) ==
    LET resp == Grpc(SentRequests(u, page, limit, profiles))
    IN  Shown(page, limit, Code(resp), resp)

GetAllUsersHandler(u, page, limit, profiles) ==
    {Shown(page, limit, Code(Grpc(result)), Grpc(result)) :
       result \in AllUsers(u, page, limit, profiles)}

(* The other user comes from the path. *)
GetFriendshipStatusHandler(u, path) ==
    LET v    == PathInt32(path)
        resp == Grpc(GetFriendshipStatus(u, v.id))
    IN  IF v.err # Ok THEN [code |-> MapErrorToHTTP(v.err), items |-> <<>>]
        ELSE [code |-> Code(resp), items |-> resp.items]

CountUserRelationsHandler(path) ==
    LET v    == PathInt32(path)
        resp == Grpc(RelationsCount(v.id))
    IN  IF v.err # Ok THEN [code |-> MapErrorToHTTP(v.err), items |-> <<>>]
        ELSE [code |-> RawCode(resp), items |-> resp.items]

(* Without a type the search is among friends. *)
SearchProfilesByFullName(u, matching, type, page, limit, profiles) ==
    LET t    == IF type = "" THEN "accepted" ELSE type
        resp == Grpc(SearchShortProfiles(u, matching, t, page, limit, profiles))
    IN  Shown(page, limit, RawCode(resp), resp)

-------------------------------------------------------------------------------
(* Properties.  They speak of the table only, so it is enough to look at   *)
(* it when no request is in progress.                                      *)

Idle == \A r \in Requests : req[r].step = "idle"

ItemsOf(answer) == {answer.items[i] : i \in DOMAIN answer.items}

FitOnOnePage == Cardinality(Accounts) <= MaxLimit

(* The pages of a user's friends and of his incoming and sent requests     *)
(* show each of them exactly once, whatever page and limit are asked for:  *)
(* missing ones, negative ones, and pages so far that their offset is      *)
(* negative in 32 bits, or small again.                                    *)
AskedPages ==
    -1..Cardinality(Accounts) + 1 \cup {Half \div 2, 3 * (Half \div 4), Half - 1}

PagesAreRight ==
    Idle => \A u \in Accounts, l \in {-1, 1, MaxLimit}, p \in AskedPages :
       /\ PageIsRight(Sorted(GetUserFriends(u)), p, l, GetFriendsHandler(u, p, l, Accounts))
       /\ PageIsRight(Sorted(GetFriendshipRequests(u)), p, l,
                      GetFriendRequestsHandler(u, p, l, Accounts))
       /\ PageIsRight(Sorted(GetSentRequests(u)), p, l, GetSentRequestsHandler(u, p, l, Accounts))

(* As far as a first page shows the lists: a search that matches everybody *)
(* finds what the list of its type shows, the counters count the lists,    *)
(* and the status of a relation is accepted exactly for the friends.  The  *)
(* users nobody is related to are shown in every order; the search among   *)
(* those who are no friends also finds the one who searches.  What a       *)
(* search without a type is about is left open: the code takes accepted,   *)
(* the documentation of the handler says notFriends.                       *)
ShownRelations ==
    Idle /\ FitOnOnePage => \A u \in Accounts :
       LET search(type) == ItemsOf(SearchProfilesByFullName(u, Accounts, type, 1, MaxLimit, Accounts))
           friends == ItemsOf(GetFriendsHandler(u, 1, MaxLimit, Accounts))
           counts  == CountUserRelationsHandler(u).items
       IN  /\ search("accepted") = friends
           /\ search("pending") = ItemsOf(GetFriendRequestsHandler(u, 1, MaxLimit, Accounts))
           /\ search("sent") = ItemsOf(GetSentRequestsHandler(u, 1, MaxLimit, Accounts))
           /\ \A answer \in GetAllUsersHandler(u, 1, MaxLimit, Accounts) :
                 search("notFriends") = ItemsOf(answer) \cup {u}
           /\ counts.accepted = Cardinality(friends)
           /\ counts.pending + counts.sent = Cardinality(search("pending") \cup search("sent"))
           /\ \A v \in Accounts \ {u} :
                 v \in friends <=> GetFriendshipStatusHandler(u, v).items = "accepted"

(* The queries agree with each other, and what is shown with the queries. *)
RelationsAreShown == RelationLists /\ PagesAreRight /\ ShownRelations

===============================================================================
