-------------------------------- MODULE Posts --------------------------------
(***************************************************************************)
(* Posts with their attachments and photos, likes and comments             *)
(* (handler/post.go, handler/comment.go, service/post.go,                  *)
(* service/comment.go, repository/db/post.go, repository/db/comment.go).   *)
(*                                                                         *)
(* A request reads rows, writes files, writes rows in a transaction and    *)
(* deletes files; requests overlap and every call may fail before or after *)
(* it took effect.  Posts belong to their author alone or to a community,  *)
(* whose life (Communities) is part of the environment here.  Texts are    *)
(* left out.                                                               *)
(***************************************************************************)
EXTENDS Errors, Integers, FiniteSets, SequencesExt

CONSTANTS
    Users,
    Creator,        \* the creator of the community
    MaxPosts,       \* bound: the posts that are ever created
    MaxComments,    \* bound: the comments that are ever created
    MaxReceived,    \* bound: the requests that ever arrive
    MaxFiles,       \* bound: the files that are ever written
    Requests,       \* the requests that may be in progress at the same time
    NoUser

ASSUME PostsAssumption ==
    /\ Creator \in Users /\ NoUser \notin Users
    /\ {MaxPosts, MaxComments, MaxReceived, MaxFiles} \subseteq Nat

Ops == {"create", "update", "delete", "like", "comment", "edit", "uncomment"}

VARIABLES
    created,    \* the ids of posts given out so far are 1..created
    posts,      \* the table posts with post_attachments and post_photos
    likes,      \* post_likes: pairs of post and user
    commented,  \* the ids of comments given out so far are 1..commented
    comments,   \* the table comments
    community,  \* whether the community exists
    subscribers,\* community_subscriptions
    files,      \* the files in ./uploads
    used,       \* the files written so far are named 1..used
    req,        \* the requests in progress
    received,   \* the number of requests that arrived
    overlapped, \* history: posts changed by two requests at the same time
    unsure,     \* history: posts with a write that failed after it took effect
    cut,        \* history: a request ended without deleting its files
    odd         \* history: likes with an odd number of clicks answered 200

tables == <<created, posts, likes, commented, comments>>
world == <<community, subscribers>>
disk == <<files, used>>
history == <<overlapped, unsure, cut, odd>>
vars == <<tables, world, disk, req, received, history>>

Kinds == {"attachments", "photos"}
Media == [Kinds -> Seq(1..MaxFiles)]
NoMedia == [k \in Kinds |-> <<>>]
FilesOf(media) == UNION {ToSet(media[k]) : k \in Kinds}

Steps == {"idle", "read", "media", "album", "attachments", "photos", "rights", "write",
          "unlink", "snapshot", "toggle", "insert", "profile", "lookup", "change"}

(* sent is the number of files of each kind; old the media of the row that *)
(* was read, new the ones to be written; seen what the statement of a like *)
(* saw when it began.                                                      *)
Request == [op : Ops, user : Users \cup {NoUser}, id : Nat, inside : BOOLEAN,
            sent : [Kinds -> Nat], step : Steps, old : Media, new : Media,
            seen : BOOLEAN]

NoRequest == [op |-> "like", user |-> NoUser, id |-> 0, inside |-> FALSE,
              sent |-> [k \in Kinds |-> 0], step |-> "idle", old |-> NoMedia,
              new |-> NoMedia, seen |-> FALSE]

Busy(r) == req[r].step # "idle"
Goto(r, step) == req' = [req EXCEPT ![r].step = step]
Answer(r, code) == req' = [req EXCEPT ![r] = NoRequest]
Refuse(r, err) == Answer(r, MapErrorToHTTP(err))

Without(f, x) == [y \in DOMAIN f \ {x} |-> f[y]]
With(f, x, v) == [y \in DOMAIN f \cup {x} |-> IF y = x THEN v ELSE f[y]]

IsLiked(p, u) == <<p, u>> \in likes

-------------------------------------------------------------------------------
(* Requests. *)

(* What follows the uploads: a post in the community is checked first. *)
AfterUploads(q) == IF q.op = "create" /\ q.inside THEN "rights" ELSE "write"

(* Attachments are uploaded before photos, and only if there are any. *)
FirstUpload(q) ==
    IF q.sent["attachments"] > 0 THEN "attachments"
    ELSE IF q.sent["photos"] > 0 THEN "photos" ELSE AfterUploads(q)
NextUpload(q) ==
    IF q.step = "attachments" /\ q.sent["photos"] > 0 THEN "photos" ELSE AfterUploads(q)

Changes(q) == q.op \in {"update", "delete"}

(* A request reaches the service; one that is not valid has been answered. *)
Arrive(r, q, step) ==
    /\ ~Busy(r)
    /\ received < MaxReceived /\ received' = received + 1
    /\ req' = [req EXCEPT ![r] = [q EXCEPT !.step = step]]
    /\ overlapped' = IF Changes(q) /\ \E s \in Requests : /\ Busy(s) /\ Changes(req[s])
                                                          /\ req[s].id = q.id
                       THEN overlapped \cup {q.id} ELSE overlapped
    /\ UNCHANGED <<tables, world, disk, unsure, cut, odd>>

(* What the query for a post may result in. *)
GetPostByID(p) == {"ErrDB", IF p \in DOMAIN posts THEN Ok ELSE "ErrPostNotFound"}

(* UpdatePost and DeletePost read the row of the post and check that it is *)
(* the author's.                                                           *)
ReadOwnPost(r) ==
    LET q == req[r]
    IN  \E err \in GetPostByID(q.id) :
           \/ err # Ok /\ Refuse(r, err)
           \/ err = Ok /\ posts[q.id].author # q.user /\ Refuse(r, "ErrAccessDenied")
           \/ err = Ok /\ posts[q.id].author = q.user /\ Goto(r, "media")

UpdatePostReads(r) ==
    /\ req[r].step = "read" /\ req[r].op = "update"
    /\ ReadOwnPost(r)
    /\ UNCHANGED <<tables, world, disk, received, history>>

DeletePostReads(r) ==
    /\ req[r].step = "read" /\ req[r].op = "delete"
    /\ ReadOwnPost(r)
    /\ UNCHANGED <<tables, world, disk, received, history>>

(* CreateComment only needs the post to be there. *)
CreateCommentReads(r) ==
    /\ req[r].step = "read" /\ req[r].op = "comment"
    /\ \E err \in GetPostByID(req[r].id) :
          \/ err # Ok /\ Refuse(r, IF err = "ErrDB" THEN err ELSE "ErrNotFound")
          \/ err = Ok /\ Goto(r, "insert")
    /\ UNCHANGED <<tables, world, disk, received, history>>

(* The media of a post are read after its row, by getPostMedia, in one     *)
(* query for each kind, so that they may be those of later versions, or    *)
(* none.  What is not sent anew is kept.                                   *)
MediaNow(p) == IF p \in DOMAIN posts THEN posts[p].media ELSE NoMedia
KeepMedia(r, k, step) ==
    LET m == MediaNow(req[r].id)[k]
    IN  req' = [req EXCEPT ![r].old[k] = m, ![r].new[k] = m, ![r].step = step]

getPostAttachments(r) ==
    /\ req[r].step = "media"
    /\ KeepMedia(r, "attachments", "album") \/ Refuse(r, "ErrDB")
    /\ UNCHANGED <<tables, world, disk, received, history>>

getPostPhotos(r) ==
    LET q == req[r]
    IN  /\ q.step = "album"
        /\ \/ KeepMedia(r, "photos", IF q.op = "update" THEN FirstUpload(q) ELSE "write")
           \/ Refuse(r, "ErrDB")
        /\ UNCHANGED <<tables, world, disk, received, history>>

NewFiles(n) == [i \in 1..n |-> used + i]

(* DeleteFiles goes through a list and stops at the first file it cannot   *)
(* delete: the sets of files it may leave.                                 *)
Left(list) == {ToSet(SubSeq(list, i, Len(list))) : i \in 1..Len(list) + 1}
LeftOf(media) == {a \cup p : a \in Left(media["attachments"]), p \in Left(media["photos"])}

(* What a request that fails deletes of its new files: CreatePost all of   *)
(* them, UpdatePost only those by which there are more than before.        *)
Deleted(q) == [k \in Kinds |-> SubSeq(q.new[k], Len(q.old[k]) + 1, Len(q.new[k]))]
WrittenBy(q) == UNION {ToSet(q.new[k]) : k \in {j \in Kinds : q.sent[j] > 0 /\ q.new[j] # q.old[j]}}
CleanUpBeside(q, torn) ==
    LET gone == FilesOf(Deleted(q))
    IN  \E kept \in LeftOf(Deleted(q)) :
           /\ files' = (files \ (gone \ kept)) \cup torn
           /\ cut' = (cut \/ kept # {} \/ torn # {} \/ WrittenBy(q) \ gone # {})
CleanUp(q) == CleanUpBeside(q, {})

(* Mutation: photos that cannot be written leave the attachments behind. *)
UploadFilesForget(r) ==
    LET q == req[r]
        n == q.sent[q.step]
    IN  /\ q.step \in Kinds
        /\ \/ /\ used + n <= MaxFiles
              /\ used' = used + n /\ files' = files \cup ToSet(NewFiles(n))
              /\ req' = [req EXCEPT ![r].new[q.step] = NewFiles(n),
                            ![r].step = NextUpload(q)]
           \/ Refuse(r, "ErrService") /\ UNCHANGED disk
        /\ UNCHANGED <<tables, world, received, history>>

(* UploadFiles writes the files of a kind.  If one cannot be written those *)
(* before it are deleted, but an error of that is ignored, and what was    *)
(* written of the last one stays: some of the files may remain.  If the    *)
(* photos fail, the attachments are deleted as after any failure.          *)
UploadFiles(r) ==
    LET q == req[r]
        n == q.sent[q.step]
    IN  /\ q.step \in Kinds
        /\ \/ /\ used + n <= MaxFiles
              /\ used' = used + n /\ files' = files \cup ToSet(NewFiles(n))
              /\ req' = [req EXCEPT ![r].new[q.step] = NewFiles(n),
                            ![r].step = NextUpload(q)]
              /\ UNCHANGED cut
           \/ \E m \in 0..n :
                 /\ used + m <= MaxFiles /\ used' = used + m
                 /\ Refuse(r, "ErrService") /\ CleanUpBeside(q, ToSet(NewFiles(m)))
        /\ UNCHANGED <<tables, world, received, overlapped, unsure, odd>>

(* Mutation: any subscriber may post in the community. *)
CheckCommunitySubscriber(r) ==
    LET q == req[r]
    IN  /\ q.step = "rights"
        /\ community /\ Goto(r, "write")
        /\ UNCHANGED <<tables, world, disk, received, history>>

(* Only the creator of an existing community posts in it; any error of the *)
(* query is ErrNotFound.  The files written before this check stay.        *)
CheckCommunity(r) ==
    LET q == req[r]
    IN  /\ q.step = "rights"
        /\ \/ community /\ q.user = Creator /\ Goto(r, "write") /\ UNCHANGED cut
           \/ /\ \/ Refuse(r, "ErrNotFound")
                 \/ community /\ q.user # Creator /\ Refuse(r, "ErrAccessDenied")
              /\ cut' = (cut \/ WrittenBy(q) # {})
        /\ UNCHANGED <<tables, world, disk, received, overlapped, unsure, odd>>

(* Mutation: the id of a post is not taken from its sequence. *)
CreatePostAgain(r) ==
    LET q == req[r]
        row == [author |-> q.user, inside |-> q.inside, media |-> q.new]
    IN  /\ q.step = "write" /\ q.op = "create"
        /\ posts' = With(posts, created + 1, row)
        /\ Answer(r, 200)
        /\ UNCHANGED <<created, likes, commented, comments, world, disk, received, history>>

(* INSERT INTO posts, post_attachments and post_photos in one transaction, *)
(* and what it reports; the community must still exist.                    *)
InsertPost(q, err) ==
    LET p == created + 1
        row == [author |-> q.user, inside |-> q.inside, media |-> q.new]
    IN  \/ /\ created < MaxPosts /\ (q.inside => community)
           /\ created' = p /\ posts' = With(posts, p, row)
           /\ \/ err = Ok /\ UNCHANGED unsure
              \/ err = "ErrDB" /\ unsure' = unsure \cup {p}
        \/ err = "ErrDB" /\ UNCHANGED <<created, posts, unsure>>

(* An error deletes the new files. *)
CreatePost(r) ==
    LET q == req[r]
    IN  /\ q.step = "write" /\ q.op = "create"
        /\ \E err \in {Ok, "ErrDB"} :
              /\ InsertPost(q, err)
              /\ \/ err = Ok /\ Answer(r, 200) /\ UNCHANGED <<files, cut>>
                 \/ err # Ok /\ Refuse(r, err) /\ CleanUp(q)
        /\ UNCHANGED <<likes, commented, comments, world, used, received, overlapped, odd>>

(* UPDATE posts and both lists of media in one transaction. *)
UpdatePost(r) ==
    LET q == req[r]
    IN  /\ q.step = "write" /\ q.op = "update"
        /\ \/ /\ q.id \in DOMAIN posts
              /\ posts' = [posts EXCEPT ![q.id].media = q.new]
              /\ \/ Goto(r, "unlink") /\ UNCHANGED <<files, cut, unsure>>
                 \/ Refuse(r, "ErrDB") /\ CleanUp(q) /\ unsure' = unsure \cup {q.id}
           \/ Refuse(r, "ErrDB") /\ CleanUp(q) /\ UNCHANGED <<posts, unsure>>
        /\ UNCHANGED <<created, likes, commented, comments, world, used, received,
                       overlapped, odd>>

(* What goes with a set of posts: their likes and comments. *)
Cascade(gone) ==
    /\ posts' = [p \in DOMAIN posts \ gone |-> posts[p]]
    /\ likes' = {l \in likes : l[1] \notin gone}
    /\ comments' = [c \in {d \in DOMAIN comments : comments[d].post \notin gone} |-> comments[c]]

(* Mutation: comments are not deleted with their post. *)
DeletePostOnly(r) ==
    LET q == req[r]
    IN  /\ q.step = "write" /\ q.op = "delete"
        /\ q.id \in DOMAIN posts
        /\ posts' = Without(posts, q.id)
        /\ Goto(r, "unlink")
        /\ UNCHANGED <<created, likes, commented, comments, world, disk, received, history>>

(* DELETE FROM posts; no row is an error. *)
DeletePost(r) ==
    LET q == req[r]
    IN  /\ q.step = "write" /\ q.op = "delete"
        /\ \/ /\ q.id \in DOMAIN posts /\ Cascade({q.id})
              /\ \/ Goto(r, "unlink") /\ UNCHANGED cut
                 \/ Refuse(r, "ErrDB") /\ cut' = TRUE
           \/ Refuse(r, "ErrDB") /\ UNCHANGED <<posts, likes, comments, cut>>
        /\ UNCHANGED <<created, commented, world, disk, received, overlapped, unsure, odd>>

(* The old files of the kinds that an update replaces. *)
ReplacedFiles(q) == [k \in Kinds |-> IF q.sent[k] > 0 THEN q.old[k] ELSE <<>>]

(* The last step of a request: files are deleted, except some of those     *)
(* that may be left.  Errors are only logged.                              *)
DeleteFiles(r, gone, leaving) ==
    /\ \E kept \in leaving : files' = files \ (gone \ kept) /\ cut' = (cut \/ kept # {})
    /\ Answer(r, 200)
    /\ UNCHANGED <<tables, world, used, received, overlapped, unsure, odd>>

(* Mutation: an update deletes all the files it has read. *)
UpdatePostUnlinksAll(r) ==
    /\ req[r].step = "unlink" /\ req[r].op = "update"
    /\ DeleteFiles(r, FilesOf(req[r].old), LeftOf(req[r].old))

UpdatePostUnlinks(r) ==
    LET old == ReplacedFiles(req[r])
    IN  /\ req[r].step = "unlink" /\ req[r].op = "update"
        /\ DeleteFiles(r, FilesOf(old), LeftOf(old))

(* DeletePost puts all its files into one list. *)
DeletePostUnlinks(r) ==
    LET old == req[r].old
    IN  /\ req[r].step = "unlink" /\ req[r].op = "delete"
        /\ DeleteFiles(r, FilesOf(old), Left(old["attachments"] \o old["photos"]))

(* A like is one statement.  It begins: this is what its DELETE sees. *)
LikeSnapshot(r) ==
    /\ req[r].step = "snapshot"
    /\ req' = [req EXCEPT ![r].step = "toggle", ![r].seen = IsLiked(req[r].id, req[r].user)]
    /\ UNCHANGED <<tables, world, disk, received, history>>

Clicked(l) == odd' = IF l \in odd THEN odd \ {l} ELSE odd \cup {l}

(* Mutation: a like that is there already is taken for the new one. *)
UpdateLikeIgnoringConflicts(r) ==
    LET q == req[r]
        l == <<q.id, q.user>>
    IN  /\ q.step = "toggle"
        /\ q.id \in DOMAIN posts
        /\ likes' = IF q.seen THEN likes \ {l} ELSE likes \cup {l}
        /\ Answer(r, 200) /\ Clicked(l)
        /\ UNCHANGED <<created, posts, commented, comments, world, disk, received,
                       overlapped, unsure, cut>>

(* The service learns that the statement succeeded, or not. *)
LikeAnswered(r, l) ==
    \/ Answer(r, 200) /\ Clicked(l) /\ UNCHANGED unsure
    \/ Refuse(r, "ErrDB") /\ unsure' = unsure \cup {req[r].id} /\ UNCHANGED odd

(* The statement ends, after those that held the row: it deletes the like  *)
(* it saw if that is still there, otherwise it inserts one, which fails if *)
(* somebody else did or if there is no such post.                          *)
UpdateLikeOnPostByUserID(r) ==
    LET q == req[r]
        l == <<q.id, q.user>>
    IN  /\ q.step = "toggle"
        /\ \/ /\ \/ q.seen /\ l \in likes /\ likes' = likes \ {l}
                 \/ l \notin likes /\ q.id \in DOMAIN posts /\ likes' = likes \cup {l}
              /\ LikeAnswered(r, l)
           \/ Refuse(r, "ErrDB") /\ UNCHANGED <<likes, unsure, odd>>
        /\ UNCHANGED <<created, posts, commented, comments, world, disk, received,
                       overlapped, cut>>

(* INSERT INTO comments; the post must still exist. *)
CreateComment(r) ==
    LET q == req[r]
        c == commented + 1
    IN  /\ q.step = "insert"
        /\ \/ /\ commented < MaxComments /\ q.id \in DOMAIN posts
              /\ commented' = c
              /\ comments' = With(comments, c, [post |-> q.id, author |-> q.user, edited |-> FALSE])
              /\ Goto(r, "profile") \/ Refuse(r, "ErrDB")
           \/ Refuse(r, "ErrDB") /\ UNCHANGED <<commented, comments>>
        /\ UNCHANGED <<created, posts, likes, world, disk, received, history>>

(* The answer shows the author's profile; without it the request fails,    *)
(* although the comment is there.                                          *)
CommentAnswered(r) ==
    /\ req[r].step = "profile"
    /\ Answer(r, 200) \/ Refuse(r, "ErrService")
    /\ UNCHANGED <<tables, world, disk, received, history>>

(* What the query for a comment may result in. *)
GetCommentByID(c) == {"ErrDB", IF c \in DOMAIN comments THEN Ok ELSE "ErrNotFound"}

(* UpdateComment and DeleteComment read the comment and compare its author. *)
ReadOwnComment(r) ==
    LET q == req[r]
    IN  \E err \in GetCommentByID(q.id) :
           \/ err # Ok /\ Refuse(r, err)
           \/ err = Ok /\ comments[q.id].author # q.user /\ Refuse(r, "ErrAccessDenied")
           \/ err = Ok /\ comments[q.id].author = q.user /\ Goto(r, "change")

UpdateCommentReads(r) ==
    /\ req[r].step = "lookup" /\ req[r].op = "edit"
    /\ ReadOwnComment(r)
    /\ UNCHANGED <<tables, world, disk, received, history>>

DeleteCommentReads(r) ==
    /\ req[r].step = "lookup" /\ req[r].op = "uncomment"
    /\ ReadOwnComment(r)
    /\ UNCHANGED <<tables, world, disk, received, history>>

(* UPDATE and DELETE of a comment, and what they report; no row is an error. *)
ChangeComment(c, err) ==
    \/ /\ c \in DOMAIN comments /\ err \in {Ok, "ErrDB"}
       /\ comments' = [comments EXCEPT ![c].edited = TRUE]
    \/ err = "ErrDB" /\ UNCHANGED comments

RemoveComment(c, err) ==
    \/ /\ c \in DOMAIN comments /\ err \in {Ok, "ErrDB"}
       /\ comments' = Without(comments, c)
    \/ err = "ErrDB" /\ UNCHANGED comments

UpdateComment(r) ==
    /\ req[r].step = "change" /\ req[r].op = "edit"
    /\ \E err \in {Ok, "ErrDB"} :
          ChangeComment(req[r].id, err) /\ IF err = Ok THEN Answer(r, 200) ELSE Refuse(r, err)
    /\ UNCHANGED <<created, posts, likes, commented, world, disk, received, history>>

DeleteComment(r) ==
    /\ req[r].step = "change" /\ req[r].op = "uncomment"
    /\ \E err \in {Ok, "ErrDB"} :
          RemoveComment(req[r].id, err) /\ IF err = Ok THEN Answer(r, 200) ELSE Refuse(r, err)
    /\ UNCHANGED <<created, posts, likes, commented, world, disk, received, history>>

(* Communities: its posts go with the community, their files do not. *)
CommunityDeleted ==
    LET gone == {p \in DOMAIN posts : posts[p].inside}
    IN  /\ community /\ community' = FALSE /\ subscribers' = {}
        /\ Cascade(gone)
        /\ cut' = (cut \/ \E p \in gone : posts[p].media # NoMedia)
        /\ UNCHANGED <<created, commented, disk, req, received, overlapped, unsure, odd>>

Subscribed(u) ==
    /\ community /\ subscribers' = subscribers \cup {u} /\ u \notin subscribers
    /\ UNCHANGED <<tables, community, disk, req, received, history>>

(* The process dies and is started again. *)
Crash ==
    /\ \E r \in Requests : Busy(r)
    /\ req' = [r \in Requests |-> NoRequest]
    /\ cut' = TRUE
    /\ UNCHANGED <<tables, world, disk, received, overlapped, unsure, odd>>

Init ==
    /\ created = 0 /\ posts = <<>> /\ likes = {} /\ commented = 0 /\ comments = <<>>
    /\ community = TRUE /\ subscribers = {Creator}
    /\ files = {} /\ used = 0
    /\ req = [r \in Requests |-> NoRequest] /\ received = 0
    /\ overlapped = {} /\ unsure = {} /\ cut = FALSE /\ odd = {}

Step(r) ==
    \/ UpdatePostReads(r) \/ DeletePostReads(r) \/ CreateCommentReads(r)
    \/ getPostAttachments(r) \/ getPostPhotos(r) \/ UploadFiles(r) \/ CheckCommunity(r)
    \/ CreatePost(r) \/ UpdatePost(r) \/ DeletePost(r)
    \/ UpdatePostUnlinks(r) \/ DeletePostUnlinks(r)
    \/ LikeSnapshot(r) \/ UpdateLikeOnPostByUserID(r)
    \/ CreateComment(r) \/ CommentAnswered(r)
    \/ UpdateCommentReads(r) \/ DeleteCommentReads(r) \/ UpdateComment(r) \/ DeleteComment(r)

(* Bound: no file, a photo, an attachment and a photo, or two attachments. *)
Sent == {s \in [Kinds -> 0..2] : /\ s["attachments"] + s["photos"] <= 2 /\ s["photos"] <= 1
                                 /\ s # [attachments |-> 1, photos |-> 0]}

(* The handlers. *)
CreatePostHandler(r) ==
    \E u \in Users, i \in BOOLEAN, s \in Sent :
       LET q == [NoRequest EXCEPT !.op = "create", !.user = u, !.inside = i, !.sent = s]
       IN  Arrive(r, q, FirstUpload(q))

UpdatePostHandler(r) ==
    \E u \in Users, p \in 1..created, s \in Sent :
       Arrive(r, [NoRequest EXCEPT !.op = "update", !.user = u, !.id = p, !.sent = s], "read")

DeletePostHandler(r) ==
    \E u \in Users, p \in 1..created :
       Arrive(r, [NoRequest EXCEPT !.op = "delete", !.user = u, !.id = p], "read")

UpdateLikeOnPostHandler(r) ==
    \E u \in Users, p \in 1..created :
       Arrive(r, [NoRequest EXCEPT !.op = "like", !.user = u, !.id = p], "snapshot")

CreateCommentHandler(r) ==
    \E u \in Users, p \in 1..created :
       Arrive(r, [NoRequest EXCEPT !.op = "comment", !.user = u, !.id = p], "read")

UpdateCommentHandler(r) ==
    \E u \in Users, c \in 1..commented :
       Arrive(r, [NoRequest EXCEPT !.op = "edit", !.user = u, !.id = c], "lookup")

DeleteCommentHandler(r) ==
    \E u \in Users, c \in 1..commented :
       Arrive(r, [NoRequest EXCEPT !.op = "uncomment", !.user = u, !.id = c], "lookup")

Receive(r) ==
    \/ CreatePostHandler(r) \/ UpdatePostHandler(r) \/ DeletePostHandler(r)
    \/ UpdateLikeOnPostHandler(r)
    \/ CreateCommentHandler(r) \/ UpdateCommentHandler(r) \/ DeleteCommentHandler(r)

Next ==
    \/ \E r \in Requests : Receive(r) \/ Step(r)
    \/ \E u \in Users : Subscribed(u)
    \/ CommunityDeleted
    \/ Crash

Spec == Init /\ [][Next]_vars

-------------------------------------------------------------------------------
(* Properties. *)

(* The rows, the files and the requests are well formed: an id is given    *)
(* out once, and likes and comments belong to posts that were created.     *)
TypeOK ==
    /\ created \in 0..MaxPosts /\ DOMAIN posts \subseteq 1..created
    /\ \A p \in DOMAIN posts : posts[p] \in [author : Users, inside : BOOLEAN, media : Media]
    /\ likes \subseteq (1..created) \X Users
    /\ commented \in 0..MaxComments /\ DOMAIN comments \subseteq 1..commented
    /\ \A c \in DOMAIN comments :
          comments[c] \in [post : 1..created, author : Users, edited : BOOLEAN]
    /\ community \in BOOLEAN /\ subscribers \subseteq Users
    /\ used \in 0..MaxFiles /\ files \subseteq 1..used
    /\ req \in [Requests -> Request]
    /\ received \in 0..MaxReceived
    /\ overlapped \cup unsure \subseteq 1..MaxPosts
    /\ cut \in BOOLEAN /\ odd \subseteq (1..created) \X Users

(* The files of a post can be fetched, in spite of crashes and of calls    *)
(* that fail.  What can break it is two changes of a post at the same time *)
(* and a write whose success the service did not learn of.                 *)
FilesAreServed ==
    \A p \in DOMAIN posts : p \notin overlapped \cup unsure => FilesOf(posts[p].media) \subseteq files

(* Files without a post come from a known place: an update that failed     *)
(* after its upload, a post refused by the community after it, a community *)
(* deleted with its posts, an upload, a deletion or a process that did not *)
(* finish, or two changes at the same time.  A failed creation leaves none.*)
NoFileLeft ==
    ~cut /\ overlapped = {} /\ unsure = {} =>
       \A f \in files : \/ \E p \in DOMAIN posts : f \in FilesOf(posts[p].media)
                        \/ \E r \in Requests :
                              f \in FilesOf(req[r].new) \cup FilesOf(req[r].old)

(* A user likes a post exactly if an odd number of his clicks succeeded,   *)
(* however they overlap.                                                   *)
LikesAreToggled ==
    \A p \in DOMAIN posts \ unsure, u \in Users : IsLiked(p, u) <=> <<p, u>> \in odd

(* What is in the community was written by its creator, and nothing of it  *)
(* outlives it, whenever the community is deleted.                         *)
CommunityPostsByCreator ==
    \A p \in DOMAIN posts : posts[p].inside => community /\ posts[p].author = Creator

(* Posts and the files on the disk agree. *)
DiskAgrees == TypeOK /\ FilesAreServed /\ NoFileLeft

-------------------------------------------------------------------------------
(* The inductive invariant (see PostsProofs). *)

StepsOf(op) ==
    CASE op = "create"  -> {"attachments", "photos", "rights", "write"}
      [] op = "update"  -> {"read", "media", "album", "attachments", "photos", "write",
                             "unlink"}
      [] op = "delete"  -> {"read", "media", "album", "write", "unlink"}
      [] op = "like"    -> {"idle", "snapshot", "toggle"}
      [] op = "comment" -> {"read", "insert", "profile"}
      [] OTHER          -> {"lookup", "change"}

(* Whether the files of a kind that came with a request are written. *)
Uploaded(q, k) ==
    /\ q.sent[k] > 0
    /\ q.step \in {"rights", "write", "unlink"} \/ (q.step = "photos" /\ k = "attachments")

(* How far a request has come: what is written is new, the rest is as it   *)
(* was read.                                                               *)
RequestOK(r) ==
    LET q == req[r]
    IN  /\ q.step \in StepsOf(q.op)
        /\ q.step = "idle" => q = NoRequest
        /\ q.step # "idle" => q.user \in Users
        /\ q.op \in {"update", "delete", "like", "comment"} /\ q.step # "idle" => q.id \in 1..created
        /\ q.op \notin {"create", "update", "delete"} \/ q.step \in {"read", "media"} =>
              q.old = NoMedia /\ q.new = NoMedia
        /\ q.step = "album" => q.old["photos"] = <<>>
        /\ q.op = "create" => q.old = NoMedia
        /\ q.op = "delete" => \A k \in Kinds : q.sent[k] = 0
        /\ q.step \in Kinds => q.sent[q.step] > 0
        /\ \A k \in Kinds : IF Uploaded(q, k) THEN ToSet(q.new[k]) \cap FilesOf(q.old) = {}
                                              ELSE q.new[k] = q.old[k]
        /\ q.op = "create" /\ q.inside /\ q.step = "write" => q.user = Creator
        /\ q.op = "delete" /\ q.step = "unlink" => q.id \notin DOMAIN posts

(* No file is both an attachment and a photo. *)
Distinct(media) == ToSet(media["attachments"]) \cap ToSet(media["photos"]) = {}

Clear(p) == p \notin overlapped \cup unsure
Quiet == ~cut /\ overlapped = {} /\ unsure = {}

(* The files a request has read of or written for a post. *)
Holds(r) == FilesOf(req[r].old) \cup FilesOf(req[r].new)

(* A file belongs to one post and to the requests that change that post,   *)
(* or to one request that creates a post.                                  *)
FilesHaveOneOwner ==
    /\ \A p \in DOMAIN posts : /\ FilesOf(posts[p].media) \subseteq 1..used
                               /\ Clear(p) => Distinct(posts[p].media)
    /\ \A r \in Requests : Holds(r) \subseteq 1..used
    /\ \A p, o \in DOMAIN posts : \A f \in FilesOf(posts[p].media) :
          f \in FilesOf(posts[o].media) => p = o
    /\ \A r \in Requests, p \in DOMAIN posts : \A f \in Holds(r) :
          f \in FilesOf(posts[p].media) => Changes(req[r]) /\ req[r].id = p
    /\ \A r, s \in Requests : \A f \in Holds(r) :
          f \in Holds(s) /\ r # s => Changes(req[r]) /\ Changes(req[s]) /\ req[r].id = req[s].id

(* Two requests that change the same post were noticed. *)
OverlapsAreNoted ==
    \A r, s \in Requests :
       Changes(req[r]) /\ Changes(req[s]) /\ req[r].id = req[s].id /\ r # s =>
          req[r].id \in overlapped

(* What a request knows of its post is right, unless another request       *)
(* interferes: the media it has read are those of the post until it writes *)
(* its own, and what it has uploaded is on disk.                           *)
KnowsThePost(r) ==
    LET q == req[r]
    IN  /\ Changes(q) /\ Clear(q.id) /\ q.id \in DOMAIN posts =>
              /\ q.step = "album" => q.old["attachments"] = posts[q.id].media["attachments"]
              /\ q.step \in {"attachments", "photos", "write"} => q.old = posts[q.id].media
              /\ q.step = "unlink" => q.new = posts[q.id].media
        /\ Changes(q) /\ Quiet /\ q.id \notin DOMAIN posts =>
              /\ q.step \in {"album", "attachments", "photos", "write"} => q.old = NoMedia
              /\ q.step = "unlink" /\ q.op = "update" => q.new = NoMedia
        /\ q.op = "create" \/ (Changes(q) /\ Clear(q.id)) => Distinct(q.old) /\ Distinct(q.new)
        /\ q.op = "create" \/ (q.op = "update" /\ Clear(q.id) /\ q.step # "unlink") =>
              \A k \in Kinds : Uploaded(q, k) => ToSet(q.new[k]) \subseteq files

IInv ==
    /\ DiskAgrees /\ LikesAreToggled /\ CommunityPostsByCreator
    /\ FilesHaveOneOwner /\ OverlapsAreNoted
    /\ \A r \in Requests : RequestOK(r) /\ KnowsThePost(r)

===============================================================================
