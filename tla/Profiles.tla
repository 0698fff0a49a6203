------------------------------- MODULE Profiles -------------------------------
(***************************************************************************)
(* The profile service (service/profile.go over repository/db/profile.go   *)
(* and repository/dbElastic/profile.go, grpc/profile.go,                   *)
(* handler/profile.go) with the files it keeps (service/upload.go,         *)
(* handler/uploads.go).                                                    *)
(*                                                                         *)
(* A profile is a row, an entry of the search index and the file of an     *)
(* avatar.  The three are written one after the other by requests that may *)
(* overlap, fail between any two writes, or end in a crash of the process. *)
(* Of a profile only the name is kept.  header_path is never written: the  *)
(* handler of /profile/header and GrpcProfileHandler.UpdateHeader call     *)
(* UpdateAvatar.                                                           *)
(***************************************************************************)
EXTENDS Errors, FiniteSets

CONSTANTS
    Users,
    Names,
    Files,      \* bound: the file names that are ever generated
    Requests,   \* the requests that may be in progress at the same time
    NoFile, NoName, NoUser

ASSUME NullAssumption ==
    NoFile \notin Files /\ "outside" \notin Files /\ NoName \notin Names /\ NoUser \notin Users

VARIABLES
    name,       \* profiles: the name of a user, NoName if there is no row
    avatar,     \* profiles: avatar_path
    index,      \* the search index: the name of a user
    files,      \* the files in ./uploads
    req,        \* the requests in progress
    used,       \* history: the file names that were generated
    overlapped, \* history: users who had two requests at the same time
    failed      \* history: users one of whose requests failed half-way

rows == <<name, avatar>>
history == <<used, overlapped, failed>>
vars == <<rows, index, files, req, history>>

Ops   == {"create", "profile", "avatar", "header", "delete"}
Steps == {"idle", "check", "insert", "read", "upload", "remove", "avatar", "row",
          "index", "clear", "unlink"}

(* count is the number of files sent, new the one written, old the avatar  *)
(* that was read.                                                          *)
Request == [op : Ops, user : Users \cup {NoUser}, name : Names \cup {NoName},
            valid : BOOLEAN, count : 0..2, step : Steps,
            new : Files \cup {NoFile}, old : Files \cup {NoFile}]

NoRequest == [op |-> "delete", user |-> NoUser, name |-> NoName, valid |-> TRUE,
              count |-> 0, step |-> "idle", new |-> NoFile, old |-> NoFile]

Busy(r) == req[r].step # "idle"
Goto(r, step) == req' = [req EXCEPT ![r].step = step]
Answer(r, code) == req' = [req EXCEPT ![r] = NoRequest]

(* The answer of the gateway to an error of the service, through           *)
(* grpc/profile.go.                                                        *)
Refuse(r, err) == Answer(r, GatewayCode(err))

Note(r) == failed' = failed \cup {req[r].user}

(* After a write: on to the next step, or an error although it was applied. *)
Continue(r, step) == \/ Goto(r, step) /\ UNCHANGED failed
                     \/ Refuse(r, "ErrDB") /\ Note(r)
Finish(r) == \/ Answer(r, 200) /\ UNCHANGED failed
             \/ Refuse(r, "ErrDB") /\ Note(r)

-------------------------------------------------------------------------------
(* Reading. *)

(* A profile as the code holds it, and as a protobuf message, where a      *)
(* missing avatar is an absent field.                                      *)
Profile(u) == [user |-> u, name |-> name[u], avatar |-> avatar[u]]

ToProtoProfile(p) ==
    [UserID |-> p.user, FullName |-> p.name,
     AvatarPath |-> IF p.avatar = NoFile THEN {} ELSE {p.avatar}]

FromProtoProfile(m) ==
    [user |-> m.UserID, name |-> m.FullName,
     avatar |-> IF m.AvatarPath = {} THEN NoFile ELSE CHOOSE f \in m.AvatarPath : TRUE]

HasRow(u) == name[u] # NoName

(* The same for the short profile that lists show. *)
ToProtoShortProfile(p) ==
    [UserID |-> p.user, FullName |-> p.name,
     AvatarPath |-> IF p.avatar = NoFile THEN {} ELSE {p.avatar}]

FromProtoShortProfile(m) ==
    [user |-> m.UserID, name |-> m.FullName,
     avatar |-> IF m.AvatarPath = {} THEN NoFile ELSE CHOOSE f \in m.AvatarPath : TRUE]

(* The queries: the row of a user, the rows of some users, the same as a   *)
(* map, and the rows of all others, of nobody if there are no ids.         *)
GetProfileByUserID(u) == IF HasRow(u) THEN Ok ELSE "ErrNotFound"

GetShortProfileByUserIDs(ids) == {Profile(u) : u \in {v \in ids : HasRow(v)}}

GetShortProfileMapByUserIDs(ids) == [u \in {v \in ids : HasRow(v)} |-> Profile(u)]

GetOtherShortProfileByUserIDs(ids) ==
    IF ids = {} THEN {} ELSE GetShortProfileByUserIDs(Users \ ids)

(* What the service makes of a query, which may fail. *)
Served(profiles) == {[err |-> Ok, profiles |-> profiles], [err |-> "ErrDB"]}

ShortProfileByUserIDs(ids) == Served(GetShortProfileByUserIDs(ids))
ShortProfileMapByUserIDs(ids) == Served(GetShortProfileMapByUserIDs(ids))
OtherShortProfileByUserIDs(ids) == Served(GetOtherShortProfileByUserIDs(ids))

(* The answers of the gRPC service: a status and protobuf messages. *)
GrpcGetProfileByUserID(u) ==
    IF GetProfileByUserID(u) = Ok THEN [status |-> "OK", profile |-> ToProtoProfile(Profile(u))]
    ELSE [status |-> ToGrpcError(GetProfileByUserID(u)), profile |-> <<>>]

ToProtoShortProfileSlice(profiles) == {ToProtoShortProfile(p) : p \in profiles}
ToProtoOtherShortProfileSlice(profiles) == {ToProtoShortProfile(p) : p \in profiles}
ToProtoShortProfileMap(map) == [u \in DOMAIN map |-> ToProtoShortProfile(map[u])]

GrpcGetShortProfileByUserIDs(ids) ==
    {IF s.err = Ok THEN [status |-> "OK", profiles |-> ToProtoShortProfileSlice(s.profiles)]
     ELSE [status |-> ToGrpcError(s.err)] : s \in ShortProfileByUserIDs(ids)}

GrpcGetShortProfileMapByUserIDs(ids) ==
    {IF s.err = Ok THEN [status |-> "OK", profiles |-> ToProtoShortProfileMap(s.profiles)]
     ELSE [status |-> ToGrpcError(s.err)] : s \in ShortProfileMapByUserIDs(ids)}

GrpcGetOtherShortProfileByUserIDs(ids) ==
    {IF s.err = Ok THEN [status |-> "OK", profiles |-> ToProtoOtherShortProfileSlice(s.profiles)]
     ELSE [status |-> ToGrpcError(s.err)] : s \in OtherShortProfileByUserIDs(ids)}

(* What the gateway makes of them. *)
GetProfileByUserIDHandler(u) ==
    LET resp == GrpcGetProfileByUserID(u)
    IN  IF resp.status # "OK"
          THEN [code |-> MapErrorToHTTP(FromGrpcError(resp.status)), profile |-> <<>>]
        ELSE [code |-> 200, profile |-> FromProtoProfile(resp.profile)]

FromProtoShortProfileSlice(messages) == {FromProtoShortProfile(m) : m \in messages}
FromProtoOtherShortProfileSlice(messages) == {FromProtoShortProfile(m) : m \in messages}
FromProtoShortProfileMap(map) == [u \in DOMAIN map |-> FromProtoShortProfile(map[u])]

(* A search in the index for a name, among the users of a filter or        *)
(* without them.                                                           *)
SearchUserIDsByFullNameWithFilter(n, filter, isTerms) ==
    {u \in Users : index[u] = n /\ (u \in filter <=> isTerms)}

(* Serving a file: what the path names is outside of the directory, the    *)
(* directory itself, a file or nothing.                                    *)
Uploads(path) ==
    IF path = "outside" THEN "ErrAccessDenied"
    ELSE IF path \in files THEN Ok ELSE "ErrNotExist"

UploadsHandler(path) == IF Uploads(path) = Ok THEN 200 ELSE MapErrorToHTTP(Uploads(path))

-------------------------------------------------------------------------------
(* Requests. *)

(* A request reaches the profile service. *)
Arrive(r, q) ==
    /\ ~Busy(r)
    /\ req' = [req EXCEPT ![r] = [q EXCEPT !.step = "check"]]
    /\ overlapped' = IF \E s \in Requests : Busy(s) /\ req[s].user = q.user
                       THEN overlapped \cup {q.user} ELSE overlapped
    /\ UNCHANGED <<rows, index, files, used, failed>>

(* Only one file can become an avatar.  An update of the profile goes on   *)
(* without one, the others are refused.                                    *)
FirstOfUpdateProfile(q) == IF q.count = 1 THEN "read" ELSE "row"
FirstOfUpdateAvatar(q) == IF q.count = 1 THEN "read" ELSE "refuse"

FirstStep(q) ==
    CASE q.op = "create"                 -> "insert"
      [] q.op = "delete"                 -> "clear"
      [] q.op = "profile"                -> FirstOfUpdateProfile(q)
      [] OTHER                           -> FirstOfUpdateAvatar(q)

(* Mutation: the number of files is not looked at. *)
CheckInputTrusting(r) ==
    /\ req[r].step = "check"
    /\ \/ ~req[r].valid /\ Refuse(r, "ErrInvalidInput")
       \/ req[r].valid /\ req' = [req EXCEPT ![r].step = FirstStep(req[r]), ![r].count = 0]
    /\ UNCHANGED <<rows, index, files, history>>

(* MultipartFiles, the decoding of the body, the validation. *)
CheckInput(r) ==
    LET step == FirstStep(req[r])
    IN  /\ req[r].step = "check"
        /\ \/ (~req[r].valid \/ step = "refuse") /\ Refuse(r, "ErrInvalidInput")
           \/ /\ req[r].valid /\ step # "refuse"
              /\ req' = [req EXCEPT ![r].step = step, ![r].count = 0]
        /\ UNCHANGED <<rows, index, files, history>>

(* CreateProfile: INSERT, which fails if there is a row. *)
CreateProfile(r) ==
    LET u == req[r].user
    IN  /\ req[r].step = "insert"
        /\ \/ /\ name[u] = NoName
              /\ name' = [name EXCEPT ![u] = req[r].name]
              /\ Continue(r, "index")
           \/ /\ name[u] # NoName
              /\ Refuse(r, "ErrDB") /\ UNCHANGED <<name, failed>>
        /\ UNCHANGED <<avatar, index, files, used, overlapped>>

(* UpdateProfile and UpdateAvatar: the old avatar is read.  A user without *)
(* a row is ErrDB.                                                         *)
GetAvatarByUserID(r) ==
    LET u == req[r].user
    IN  /\ req[r].step = "read"
        /\ \/ /\ name[u] # NoName
              /\ req' = [req EXCEPT ![r].step = "upload", ![r].old = avatar[u]]
           \/ name[u] = NoName /\ Refuse(r, "ErrDB")
        /\ UNCHANGED <<rows, index, files, history>>

(* The new file is written under a fresh name. *)
UploadFile(r) ==
    /\ req[r].step = "upload"
    /\ \E f \in Files \ used :
          /\ files' = files \cup {f}
          /\ used' = used \cup {f}
          /\ req' = [req EXCEPT ![r].step = "remove", ![r].new = f]
    /\ UNCHANGED <<rows, index, overlapped, failed>>

(* Mutation: old files are kept. *)
HandleFileUploadKeeps(r) ==
    /\ req[r].step = "remove"
    /\ Goto(r, "avatar")
    /\ UNCHANGED <<rows, index, files, history>>

(* HandleFileUpload deletes the old file before the row names the new one, *)
(* and does not look at the error.                                         *)
HandleFileUpload(r) ==
    /\ req[r].step = "remove"
    /\ Goto(r, "avatar")
    /\ \/ files' = files \ {req[r].old} /\ UNCHANGED failed
       \/ UNCHANGED files /\ Note(r)
    /\ UNCHANGED <<rows, index, used, overlapped>>

UpdateAvatar(r) ==
    /\ req[r].step = "avatar"
    /\ avatar' = [avatar EXCEPT ![req[r].user] = req[r].new]
    /\ IF req[r].op = "profile" THEN Continue(r, "row") ELSE Finish(r)
    /\ UNCHANGED <<name, index, files, used, overlapped>>

(* UPDATE profiles: no row, no effect, no error. *)
UpdateProfile(r) ==
    LET u == req[r].user
    IN  /\ req[r].step = "row"
        /\ name' = [name EXCEPT ![u] = IF @ = NoName THEN @ ELSE req[r].name]
        /\ Continue(r, "index")
        /\ UNCHANGED <<avatar, index, files, used, overlapped>>

(* Mutation: the first index entry stays. *)
IndexProfileOnce(r) ==
    LET u == req[r].user
    IN  /\ req[r].step = "index"
        /\ index' = [index EXCEPT ![u] = IF @ = NoName THEN req[r].name ELSE @]
        /\ Finish(r)
        /\ UNCHANGED <<rows, files, used, overlapped>>

(* The index: a registration indexes a document, an update needs one.      *)
IndexProfile(r) ==
    LET u == req[r].user
    IN  /\ req[r].step = "index"
        /\ \/ /\ req[r].op = "create" \/ index[u] # NoName
              /\ index' = [index EXCEPT ![u] = req[r].name]
              /\ Finish(r)
           \/ /\ req[r].op # "create" /\ index[u] = NoName
              /\ Refuse(r, "ErrDB") /\ Note(r) /\ UNCHANGED index
        /\ UNCHANGED <<rows, files, used, overlapped>>

(* Mutation: the transaction is rolled back, but the path returned. *)
DeleteAvatarRolledBack(r) ==
    LET u == req[r].user
    IN  /\ req[r].step = "clear"
        /\ avatar[u] # NoFile
        /\ req' = [req EXCEPT ![r].step = "unlink", ![r].old = avatar[u]]
        /\ UNCHANGED <<rows, index, files, history>>

(* DeleteAvatarByUserID of the store: SELECT FOR UPDATE and UPDATE in one  *)
(* transaction.  A NULL cannot be scanned into a string: without an avatar *)
(* it is an error.                                                         *)
DeleteAvatarByUserID(r) ==
    LET u == req[r].user
    IN  /\ req[r].step = "clear"
        /\ \/ /\ avatar[u] # NoFile
              /\ avatar' = [avatar EXCEPT ![u] = NoFile]
              /\ \/ /\ req' = [req EXCEPT ![r].step = "unlink", ![r].old = avatar[u]]
                    /\ UNCHANGED failed
                 \/ Refuse(r, "ErrDB") /\ Note(r)
           \/ /\ avatar[u] = NoFile
              /\ Refuse(r, "ErrDB") /\ UNCHANGED <<avatar, failed>>
        /\ UNCHANGED <<name, index, files, used, overlapped>>

(* DeleteFile, after it. *)
DeleteFile(r) ==
    /\ req[r].step = "unlink"
    /\ files' = files \ {req[r].old}
    /\ Answer(r, 200)
    /\ UNCHANGED <<rows, index, history>>

(* A call that changes something fails without an effect.                  *)
Fail(r) ==
    /\ req[r].step \in {"insert", "upload", "avatar", "row", "index", "clear", "unlink"}
    /\ Refuse(r, "ErrDB")
    /\ Note(r)
    /\ UNCHANGED <<rows, index, files, used, overlapped>>

(* The process dies and is started again. *)
Crash ==
    /\ \E r \in Requests : Busy(r)
    /\ req' = [r \in Requests |-> NoRequest]
    /\ failed' = failed \cup {req[r].user : r \in {s \in Requests : Busy(s)}}
    /\ UNCHANGED <<rows, index, files, used, overlapped>>

Init ==
    /\ name = [u \in Users |-> NoName]
    /\ avatar = [u \in Users |-> NoFile]
    /\ index = [u \in Users |-> NoName]
    /\ files = {} /\ used = {} /\ overlapped = {} /\ failed = {}
    /\ req = [r \in Requests |-> NoRequest]

Step(r) ==
    \/ CheckInput(r) \/ CreateProfile(r)
    \/ GetAvatarByUserID(r) \/ UploadFile(r) \/ HandleFileUpload(r) \/ UpdateAvatar(r)
    \/ UpdateProfile(r) \/ IndexProfile(r)
    \/ DeleteAvatarByUserID(r) \/ DeleteFile(r)

(* The handlers, and CreateProfile as a registration calls it.  A request  *)
(* brings along a profile, which may be invalid, and any number of files.  *)
CreateProfileCall(r) ==
    \E u \in Users, n \in Names, v \in BOOLEAN :
       Arrive(r, [NoRequest EXCEPT !.op = "create", !.user = u, !.name = n, !.valid = v])

UpdateProfileHandler(r) ==
    \E u \in Users, n \in Names, v \in BOOLEAN, c \in 0..2 :
       Arrive(r, [NoRequest EXCEPT !.op = "profile", !.user = u, !.name = n, !.valid = v,
                                   !.count = c])

UpdateAvatarHandler(r) ==
    \E u \in Users, c \in 0..2 :
       Arrive(r, [NoRequest EXCEPT !.op = "avatar", !.user = u, !.count = c])

(* It calls UpdateAvatar. *)
UpdateHeaderHandler(r) ==
    \E u \in Users, c \in 0..2 :
       Arrive(r, [NoRequest EXCEPT !.op = "header", !.user = u, !.count = c])

DeleteAvatarHandler(r) ==
    \E u \in Users : Arrive(r, [NoRequest EXCEPT !.op = "delete", !.user = u])

Receive(r) ==
    \/ CreateProfileCall(r) \/ UpdateProfileHandler(r) \/ UpdateAvatarHandler(r)
    \/ UpdateHeaderHandler(r) \/ DeleteAvatarHandler(r)

Next ==
    \/ \E r \in Requests : Receive(r) \/ Step(r) \/ Fail(r)
    \/ Crash

Spec == Init /\ [][Next]_vars

-------------------------------------------------------------------------------
(* Properties. *)

(* The rows, the files, the index and the requests are well formed: what   *)
(* is stored has passed the checks of its input.                           *)
TypeOK ==
    /\ name \in [Users -> Names \cup {NoName}]
    /\ avatar \in [Users -> Files \cup {NoFile}]
    /\ index \in [Users -> Names \cup {NoName}]
    /\ files \subseteq used /\ used \subseteq Files
    /\ req \in [Requests -> Request]
    /\ overlapped \subseteq Users /\ failed \subseteq Users

BusyWith(u) == \E r \in Requests : Busy(r) /\ req[r].user = u

(* An avatar that a profile names can be fetched, however the requests of  *)
(* its user overlap: the file is missing only while an update that has     *)
(* deleted it is about to name another one, or after a request failed or   *)
(* the process crashed in that window.                                     *)
AvatarIsServed ==
    \A u \in Users : avatar[u] # NoFile =>
       \/ UploadsHandler(avatar[u]) = 200
       \/ \E r \in Requests : /\ req[r].step = "avatar" /\ req[r].user = u
                              /\ req[r].old = avatar[u]
       \/ u \in failed

(* No file is left behind: if no user ever had two requests at the same    *)
(* time or one that failed, every file on the disk is the avatar of a      *)
(* profile or belongs to a request in progress.                            *)
NoFileLeft ==
    overlapped = {} /\ failed = {} =>
       \A f \in files : \/ \E u \in Users : avatar[u] = f
                        \/ \E r \in Requests : f \in {req[r].new, req[r].old}

(* The search finds a profile by the name its page shows, once the         *)
(* requests of its user are done, if they never overlapped and none        *)
(* failed.  What a search, a list of posts and the list of people to meet  *)
(* show of a user is what the page shows, through both conversions.        *)
FoundByName ==
    \A u \in Users :
       LET page == GetProfileByUserIDHandler(u)
           mine == IF page.code = 200 THEN {page.profile} ELSE {}
           others == {NoUser} \cup (Users \ {u})
       IN  /\ \A resp \in GrpcGetShortProfileByUserIDs({u}) :
                 resp.status = "OK" => FromProtoShortProfileSlice(resp.profiles) = mine
           /\ \A resp \in GrpcGetShortProfileMapByUserIDs(Users) :
                 resp.status = "OK" =>
                    LET map == FromProtoShortProfileMap(resp.profiles)
                    IN  {map[v] : v \in {u} \cap DOMAIN map} = mine
           /\ \A resp \in GrpcGetOtherShortProfileByUserIDs(others) :
                 resp.status = "OK" => FromProtoOtherShortProfileSlice(resp.profiles) = mine
           /\ u \notin overlapped \cup failed /\ ~BusyWith(u) =>
                 \A n \in Names :
                    u \in SearchUserIDsByFullNameWithFilter(n, {u}, TRUE)
                      <=> page.code = 200 /\ page.profile.name = n

(* Profiles and the files on the disk agree. *)
DiskAgrees == TypeOK /\ AvatarIsServed /\ NoFileLeft

-------------------------------------------------------------------------------
(* What the properties need to be inductive (module ProfilesProofs). *)

(* What a request holds at each of its steps. *)
Sound(q) ==
    /\ IF q.step = "idle" THEN q = NoRequest ELSE q.user \in Users
    /\ q.step \in {"check", "insert", "read", "clear"} => q.new = NoFile /\ q.old = NoFile
    /\ q.step \in {"upload", "unlink"} => q.new = NoFile
    /\ (q.step = "insert" => q.op = "create") /\ (q.step = "row" => q.op = "profile")

RequestsAreSound == \A r \in Requests : Sound(req[r])

(* Two requests of a user at the same time are remembered. *)
OverlapsAreNoted ==
    \A r, s \in Requests :
       r # s /\ Busy(r) /\ Busy(s) /\ req[r].user = req[s].user => req[r].user \in overlapped

(* The request has written a file that is not yet an avatar. *)
Offers(q) == q.step \in {"remove", "avatar"}

(* A file is the avatar of one user, only requests of this user hold it as *)
(* the old one, and it is on the disk and nobody's avatar until the        *)
(* request that wrote it makes it one.                                     *)
FilesHaveOneOwner ==
    /\ \A u \in Users : avatar[u] \in used \cup {NoFile}
    /\ \A u, v \in Users : avatar[u] = avatar[v] /\ avatar[u] # NoFile => u = v
    /\ \A r \in Requests, u \in Users :
          avatar[u] = req[r].old /\ avatar[u] # NoFile =>
             u = req[r].user /\ req[r].step # "unlink"
    /\ \A r \in Requests : {req[r].new, req[r].old} \subseteq used \cup {NoFile}
    /\ \A r \in Requests : Offers(req[r]) =>
          /\ req[r].new \in files
          /\ \A u \in Users : avatar[u] # req[r].new
          /\ \A s \in Requests : req[s].old # req[r].new /\ (s # r => req[s].new # req[r].new)

(* If nothing overlapped or failed, the avatar that an update read is the  *)
(* one of the profile until it is replaced, and gone once it is.           *)
Alone(q) ==
    /\ q.step \in {"upload", "remove", "avatar"} => q.old = avatar[q.user]
    /\ q.step \in {"avatar", "row", "index"} => q.old \notin files
    /\ q.step \in {"row", "index"} => q.new \in {NoFile, avatar[q.user]}

UpdatesAreAlone == overlapped = {} /\ failed = {} => \A r \in Requests : Alone(req[r])

(* The index is behind the row only while the request that changed the row *)
(* is about to change it too.                                              *)
IndexFollows ==
    \A u \in Users \ (overlapped \cup failed) :
       \/ index[u] = name[u] /\ \A r \in Requests : req[r].user = u => req[r].step # "index"
       \/ \E r \in Requests :
             /\ req[r].user = u /\ req[r].step = "index"
             /\ \/ req[r].name = name[u]
                \/ req[r].op = "profile" /\ name[u] = NoName /\ index[u] = NoName

IInv ==
    /\ DiskAgrees
    /\ RequestsAreSound /\ OverlapsAreNoted /\ FilesHaveOneOwner /\ UpdatesAreAlone
    /\ IndexFollows

===============================================================================
