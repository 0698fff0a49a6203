------------------------------- MODULE PostViews -------------------------------
(***************************************************************************)
(* What users see of the posts and comments of module Posts: the queries   *)
(* (repository/db/post.go, repository/db/comment.go), the services that    *)
(* add the authors' profiles and the handlers that answer with a page.     *)
(*                                                                         *)
(* A result of a service is a record of an error and items, an answer one  *)
(* of a code and items.  profiles is the set of users the profile service  *)
(* knows.  Lists are ordered by created_at, newest first, which is the     *)
(* order of the ids.                                                       *)
(***************************************************************************)
EXTENDS Posts, Pagination

Newest(ids) == InOrder(ids, [x \in ids |-> -x])

Result(items) == [err |-> Ok, items |-> items]
Failure(err) == [err |-> err, items |-> <<>>]

(* sendJSONData or sendJSONError. *)
Respond(result) ==
    [code |-> IF result.err = Ok THEN 200 ELSE MapErrorToHTTP(result.err), items |-> result.items]

-------------------------------------------------------------------------------
(* The queries. *)

LikeCount(p) == Cardinality({u \in Users : IsLiked(p, u)})

GetPostCommentsCount(p) == Cardinality({c \in DOMAIN comments : comments[c].post = p})

(* A row of posts, with the counts and whether user u likes it. *)
PostDB(p, u) ==
    [id |-> p, author |-> posts[p].author, inside |-> posts[p].inside,
     media |-> posts[p].media, likes |-> LikeCount(p),
     comments |-> GetPostCommentsCount(p), liked |-> IsLiked(p, u)]

PostList(ids, u) ==
    LET s == Newest(ids) IN [i \in DOMAIN s |-> PostDB(s[i], u)]

(* The feed: posts of users and of the communities the user subscribes to. *)
PostsPaginatedList(u) ==
    PostList({p \in DOMAIN posts : ~posts[p].inside \/ u \in subscribers}, u)

GetPostsByUser(u, author) ==
    PostList({p \in DOMAIN posts : posts[p].author = author /\ ~posts[p].inside}, u)

GetCommunityPosts(u) == PostList({p \in DOMAIN posts : posts[p].inside}, u)

Comment(c) == [id |-> c, post |-> comments[c].post, author |-> comments[c].author]

GetCommentsByPost(p) ==
    LET s == Newest({c \in DOMAIN comments : comments[c].post = p})
    IN  [i \in DOMAIN s |-> Comment(s[i])]

-------------------------------------------------------------------------------
(* The services.  An item gets the name of its author, or a default if he  *)
(* has no profile.                                                         *)

enrichPostWithProfile(post, profiles) ==
    <<post, IF post.author \in profiles THEN post.author ELSE NoUser>>

enrichPostsWithProfiles(list, profiles) ==
    [i \in DOMAIN list |-> enrichPostWithProfile(list[i], profiles)]

enrichCommentWithProfile(comment, profiles) ==
    <<comment, IF comment.author \in profiles THEN comment.author ELSE NoUser>>

enrichCommentsWithProfiles(list, profiles) ==
    [i \in DOMAIN list |-> enrichCommentWithProfile(list[i], profiles)]

(* One page of a list, enriched. *)
PostsPaginate(u, page, limit, profiles) ==
    LET result == Paged(PostsPaginatedList(u), page, limit)
    IN  [result EXCEPT !.items = enrichPostsWithProfiles(@, profiles)]

GetPost(u, p, profiles) ==
    IF p \notin DOMAIN posts THEN Failure("ErrPostNotFound")
    ELSE Result(<<enrichPostWithProfile(PostDB(p, u), profiles)>>)

(* A user who does not exist is NoUser. *)
GetUserPosts(u, author, page, limit, profiles) ==
    LET result == Paged(GetPostsByUser(u, author), page, limit)
    IN  IF author \notin Users THEN Failure("ErrNotExist")
        ELSE [result EXCEPT !.items = enrichPostsWithProfiles(@, profiles)]

CommunityPosts(u, page, limit, profiles) ==
    LET result == Paged(GetCommunityPosts(u), page, limit)
    IN  IF ~community THEN Failure("ErrNotFound")
        ELSE [result EXCEPT !.items = enrichPostsWithProfiles(@, profiles)]

GetComment(c, profiles) ==
    IF c \notin DOMAIN comments THEN Failure("ErrNotFound")
    ELSE Result(<<enrichCommentWithProfile(Comment(c), profiles)>>)

GetPostComments(p, page, limit, profiles) ==
    LET result == Paged(GetCommentsByPost(p), page, limit)
    IN  IF p \notin DOMAIN posts THEN Failure("ErrNotFound")
        ELSE [result EXCEPT !.items = enrichCommentsWithProfiles(@, profiles)]

(* A post that does not exist has no comments. *)
PostCommentsCount(p) == Result(<<GetPostCommentsCount(p)>>)

-------------------------------------------------------------------------------
(* The handlers. *)

PostsPaginateHandler(u, page, limit, profiles) ==
    Reply(page, limit, PostsPaginate(u, page, limit, profiles))

GetPostHandler(u, p, profiles) == Respond(GetPost(u, p, profiles))

GetUserPostsHandler(u, author, page, limit, profiles) ==
    Reply(page, limit, GetUserPosts(u, author, page, limit, profiles))

GetCommunityPostsHandler(u, page, limit, profiles) ==
    Reply(page, limit, CommunityPosts(u, page, limit, profiles))

GetCommentHandler(c, profiles) == Respond(GetComment(c, profiles))

GetPostCommentsHandler(p, page, limit, profiles) ==
    Reply(page, limit, GetPostComments(p, page, limit, profiles))

GetPostCommentsCountHandler(p) == Respond(PostCommentsCount(p))

-------------------------------------------------------------------------------
(* Properties.  They speak of the tables only and are checked when no      *)
(* request is in progress: a crash leads from every state of the tables to *)
(* such a state.                                                           *)

Idle == \A r \in Requests : ~Busy(r)

IdsOf(answer) == {answer.items[i][1].id : i \in DOMAIN answer.items}

FitOnOnePage ==
    Cardinality(DOMAIN posts) <= MaxLimit /\ Cardinality(DOMAIN comments) <= MaxLimit

(* Every post is shown as long as it exists, also one whose author has no  *)
(* profile: by itself, by the list of its author or of its community, and  *)
(* in the feed of everybody who may see it.  The number of comments it     *)
(* shows is the length of their list, each of which can be fetched, and    *)
(* no comment or like is left without its post.  The lists are looked at   *)
(* as far as their first page shows them; PagesAreRight is about the rest. *)
EveryPostShown ==
    Idle /\ FitOnOnePage => \A u \in Users, profiles \in {{}, {Creator}} :
       LET feed   == PostsPaginateHandler(u, 1, MaxLimit, profiles)
           inside == IdsOf(GetCommunityPostsHandler(u, 1, MaxLimit, profiles))
           own    == UNION {IdsOf(GetUserPostsHandler(u, v, 1, MaxLimit, profiles)) : v \in Users}
       IN  /\ own \cup inside = DOMAIN posts
           /\ IdsOf(feed) = own \cup (IF u \in subscribers THEN inside ELSE {})
           /\ \A p \in 1..created :
                 LET one == GetPostHandler(u, p, profiles)
                     all == GetPostCommentsHandler(p, 1, MaxLimit, profiles)
                 IN  /\ p \in DOMAIN posts <=> one.code = 200
                     /\ all.code = one.code
                     /\ GetPostCommentsCountHandler(p).items = <<Len(all.items)>>
                     /\ p \in DOMAIN posts => one.items[1][1].comments = Len(all.items)
                     /\ \A c \in IdsOf(all) : GetCommentHandler(c, profiles).code = 200
           /\ \A c \in 1..commented : GetCommentHandler(c, profiles).code = 200
                 => c \in IdsOf(GetPostCommentsHandler(comments[c].post, 1, MaxLimit, profiles))
           /\ {l[1] : l \in likes} \subseteq DOMAIN posts

(* Turning the pages of posts and comments shows each of them once. *)
PagesAreRight ==
    Idle => \A u \in Users, l \in {1, MaxLimit + 1}, p \in 0..MaxPosts + 1 :
       LET view(list) == enrichPostsWithProfiles(list, Users)
       IN  /\ PageIsRight(view(PostsPaginatedList(u)), p, l, PostsPaginateHandler(u, p, l, Users))
           /\ \A v \in Users : PageIsRight(view(GetPostsByUser(u, v)), p, l,
                                           GetUserPostsHandler(u, v, p, l, Users))
           /\ community => PageIsRight(view(GetCommunityPosts(u)), p, l,
                                       GetCommunityPostsHandler(u, p, l, Users))
           /\ \A o \in DOMAIN posts :
                 PageIsRight(enrichCommentsWithProfiles(GetCommentsByPost(o), Users), p, l,
                             GetPostCommentsHandler(o, p, l, Users))

(* Every post is where it belongs and shown there once: those of the       *)
(* community are its creator's, and lists, pages and counters agree.       *)
PostsAreShown == CommunityPostsByCreator /\ EveryPostShown /\ PagesAreRight

-------------------------------------------------------------------------------
(* With IInv an inductive invariant (see PostsProofs): comments and likes  *)
(* go with their post.                                                     *)
GoWithPosts ==
    /\ \A c \in DOMAIN comments : comments[c].post \in DOMAIN posts
    /\ \A l \in likes : l[1] \in DOMAIN posts

===============================================================================
