---------------------------- MODULE ProfilesProofs ----------------------------
(***************************************************************************)
(* Proofs about Profiles, for any number of users, names, files and        *)
(* requests at the same time.  They rest on the inductive invariant IInv   *)
(* (module Profiles).                                                      *)
(***************************************************************************)
EXTENDS Profiles, TLAPS

-------------------------------------------------------------------------------
(* Requests. *)

Becomes(r, q) == req' = [req EXCEPT ![r] = q]

(* A request that is not there. *)
LEMMA NoRequestFacts ==
    /\ NoRequest \in Request
    /\ NoRequest.step = "idle" /\ NoRequest.user = NoUser
    /\ NoRequest.new = NoFile /\ NoRequest.old = NoFile
    /\ Sound(NoRequest) /\ ~Offers(NoRequest)
  BY DEF NoRequest, Request, Ops, Steps, Sound, Offers

(* The fields of a request are what they are. *)
LEMMA RequestFacts ==
    ASSUME NEW q \in Request
    PROVE  /\ q.op \in Ops /\ q.user \in Users \cup {NoUser} /\ q.name \in Names \cup {NoName}
           /\ q.step \in Steps
           /\ q.new \in Files \cup {NoFile} /\ q.old \in Files \cup {NoFile}
  BY DEF Request

(* A request that goes on holds what it held. *)
LEMMA GotoFacts ==
    ASSUME NEW p \in Request, NEW step \in Steps, NEW q, q = [p EXCEPT !.step = step]
    PROVE  /\ q \in Request
           /\ q.step = step /\ q.op = p.op /\ q.user = p.user /\ q.name = p.name
           /\ q.new = p.new /\ q.old = p.old
  BY DEF Request

(* All other requests stay what they are. *)
LEMMA BecomesFacts ==
    ASSUME IInv, NEW r \in Requests, NEW q \in Request, Becomes(r, q)
    PROVE  /\ req' \in [Requests -> Request]
           /\ req'[r] = q
           /\ \A s \in Requests : s # r => req'[s] = req[s]
  BY DEF Becomes, IInv, DiskAgrees, TypeOK

(* The parts of the invariant at a request. *)
LEMMA AtRequest ==
    ASSUME IInv, NEW r \in Requests
    PROVE  /\ req[r] \in Request /\ Sound(req[r])
           /\ (Busy(r) => req[r].user \in Users)
           /\ (~Busy(r) => req[r] = NoRequest)
  BY DEF IInv, DiskAgrees, TypeOK, RequestsAreSound, Sound, Busy

(* The types of the rest. *)
LEMMA AtRows ==
    ASSUME IInv
    PROVE  /\ name \in [Users -> Names \cup {NoName}]
           /\ avatar \in [Users -> Files \cup {NoFile}]
           /\ index \in [Users -> Names \cup {NoName}]
           /\ files \subseteq used /\ used \subseteq Files /\ NoFile \notin files
           /\ overlapped \subseteq Users /\ failed \subseteq Users
           /\ req \in [Requests -> Request]
  BY NullAssumption DEF IInv, DiskAgrees, TypeOK

-------------------------------------------------------------------------------
(* The parts of the invariant, when one request changes. *)

(* Requests stay sound. *)
LEMMA SoundKept ==
    ASSUME IInv, NEW r \in Requests, NEW q \in Request, Becomes(r, q), Sound(q)
    PROVE  RequestsAreSound'
<1>1. \A s \in Requests : Sound(req'[s])
  BY BecomesFacts, AtRequest
<1>2. RequestsAreSound' <=> \A s \in Requests : Sound(req'[s])
  BY DEF RequestsAreSound, Sound
<1> QED BY <1>1, <1>2

(* Requests that were not there before do not overlap. *)
LEMMA OverlapKept ==
    ASSUME IInv, NEW r \in Requests, NEW q \in Request, Becomes(r, q),
           q.step # "idle" => Busy(r) /\ q.user = req[r].user,
           overlapped \subseteq overlapped'
    PROVE  OverlapsAreNoted'
  BY BecomesFacts DEF IInv, OverlapsAreNoted, Busy

(* A request that changes no avatar and takes no name of a file, and that  *)
(* deletes no file that another one has just written.                      *)
LEMMA OwnersKept ==
    ASSUME IInv, NEW r \in Requests, NEW q \in Request, Becomes(r, q),
           UNCHANGED <<avatar, used>>,
           q.new \in {NoFile, req[r].new}, q.old \in {NoFile, req[r].old},
           q.old # NoFile => q.user = req[r].user,
           Offers(q) => Offers(req[r]) /\ q.new = req[r].new,
           q.step = "unlink" => req[r].step = "unlink",
           files' = files \/ \E f : files' = files \ {f} /\ f = req[r].old
    PROVE  FilesHaveOneOwner'
<1>1. /\ \A u \in Users : avatar[u] \in used \cup {NoFile}
      /\ \A u, v \in Users : avatar[u] = avatar[v] /\ avatar[u] # NoFile => u = v
      /\ \A s \in Requests, u \in Users :
            avatar[u] = req[s].old /\ avatar[u] # NoFile =>
               u = req[s].user /\ req[s].step # "unlink"
      /\ \A s \in Requests : {req[s].new, req[s].old} \subseteq used \cup {NoFile}
  BY DEF IInv, FilesHaveOneOwner
<1>2. ASSUME NEW s \in Requests, Offers(req[s])
      PROVE  /\ req[s].new \in files
             /\ \A u \in Users : avatar[u] # req[s].new
             /\ \A t \in Requests : req[t].old # req[s].new /\ (t # s => req[t].new # req[s].new)
  BY <1>2 DEF IInv, FilesHaveOneOwner
<1>3. req'[r] = q /\ \A s \in Requests : s # r => req'[s] = req[s]
  BY BecomesFacts
<1>4. ASSUME NEW s \in Requests, Offers(req'[s])
      PROVE  /\ req'[s].new \in files'
             /\ \A u \in Users : avatar'[u] # req'[s].new
             /\ \A t \in Requests :
                   req'[t].old # req'[s].new /\ (t # s => req'[t].new # req'[s].new)
  <2>1. Offers(req[s]) /\ req'[s].new = req[s].new
    BY <1>3, <1>4
  <2>2. req[s].new # NoFile
    BY <1>2, <2>1, AtRows
  <2>3. req'[s].new \in files'
    BY <1>2, <2>1
  <2>4. ASSUME NEW t \in Requests
        PROVE  req'[t].old # req'[s].new /\ (t # s => req'[t].new # req'[s].new)
    <3>1. req'[t].old \in {NoFile, req[t].old} /\ req'[t].new \in {NoFile, req[t].new}
      BY <1>3
    <3> QED BY <1>2, <2>1, <2>2, <3>1
  <2> QED BY <1>2, <2>1, <2>3, <2>4
<1>5. ASSUME NEW s \in Requests, NEW u \in Users, avatar[u] = req'[s].old, avatar[u] # NoFile
      PROVE  u = req'[s].user /\ req'[s].step # "unlink"
  BY <1>1, <1>3, <1>5
<1>6. \A s \in Requests : {req'[s].new, req'[s].old} \subseteq used \cup {NoFile}
  BY <1>1, <1>3
<1>7. avatar' = avatar /\ used' = used
  OBVIOUS
<1> QED BY <1>1, <1>4, <1>5, <1>6, <1>7 DEF FilesHaveOneOwner, Offers

(* A request that makes its new file the avatar, takes the avatar away or  *)
(* leaves it, and does not hold the new file any longer.                   *)
LEMMA OwnersChange ==
    ASSUME IInv, NEW r \in Requests, NEW q \in Request, Becomes(r, q),
           NEW u \in Users, u = req[r].user, UNCHANGED <<files, used>>,
           NEW f, avatar' = [avatar EXCEPT ![u] = f],
           f \in {avatar[u], NoFile} \/ (Offers(req[r]) /\ f = req[r].new),
           ~Offers(q), q.new \in {NoFile, req[r].new}, q.old # NoFile => q.user = u,
           \/ q.step # "unlink" /\ q.old \in {NoFile, req[r].old}
           \/ f = NoFile /\ q.old = avatar[u]
    PROVE  FilesHaveOneOwner'
<1>1. /\ \A v \in Users : avatar[v] \in used \cup {NoFile}
      /\ \A v, w \in Users : avatar[v] = avatar[w] /\ avatar[v] # NoFile => v = w
      /\ \A s \in Requests, v \in Users :
            avatar[v] = req[s].old /\ avatar[v] # NoFile =>
               v = req[s].user /\ req[s].step # "unlink"
      /\ \A s \in Requests : {req[s].new, req[s].old} \subseteq used \cup {NoFile}
      /\ \A s \in Requests : Offers(req[s]) =>
            /\ req[s].new \in files
            /\ \A v \in Users : avatar[v] # req[s].new
            /\ \A t \in Requests : req[t].old # req[s].new /\ (t # s => req[t].new # req[s].new)
  BY DEF IInv, FilesHaveOneOwner
<1>2. req'[r] = q /\ \A s \in Requests : s # r => req'[s] = req[s]
  BY BecomesFacts
<1>3. avatar'[u] = f /\ \A v \in Users : v # u => avatar'[v] = avatar[v]
  BY AtRows
<1>4. \A v \in Users : avatar'[v] \in used \cup {NoFile}
  BY <1>1, <1>3
<1>5. \A v, w \in Users : avatar'[v] = avatar'[w] /\ avatar'[v] # NoFile => v = w
  BY <1>1, <1>3
<1>6. ASSUME NEW s \in Requests, NEW v \in Users, avatar'[v] = req'[s].old, avatar'[v] # NoFile
      PROVE  v = req'[s].user /\ req'[s].step # "unlink"
  <2>1. CASE s = r
    BY <1>1, <1>2, <1>3, <1>6, <2>1
  <2>2. CASE s # r
    BY <1>1, <1>2, <1>3, <1>6, <2>2
  <2> QED BY <2>1, <2>2
<1>7. \A s \in Requests : {req'[s].new, req'[s].old} \subseteq used \cup {NoFile}
  BY <1>1, <1>2
<1>8. ASSUME NEW s \in Requests, Offers(req'[s])
      PROVE  /\ req'[s].new \in files
             /\ \A v \in Users : avatar'[v] # req'[s].new
             /\ \A t \in Requests :
                   req'[t].old # req'[s].new /\ (t # s => req'[t].new # req'[s].new)
  <2>1. s # r /\ req'[s] = req[s] /\ Offers(req[s])
    BY <1>2, <1>8
  <2>2. req[s].new \in files /\ req[s].new # NoFile
    BY <1>1, <2>1, AtRows
  <2>3. \A v \in Users : avatar'[v] # req[s].new
    BY <1>1, <1>3, <2>1, <2>2
  <2>4. \A t \in Requests : req'[t].old # req[s].new /\ (t # s => req'[t].new # req[s].new)
    BY <1>1, <1>2, <2>1, <2>2
  <2> QED BY <2>1, <2>2, <2>3, <2>4
<1> QED BY <1>4, <1>5, <1>6, <1>7, <1>8 DEF FilesHaveOneOwner, Offers

(* A request that has read the avatar of its user. *)
LEMMA OwnersRead ==
    ASSUME IInv, NEW r \in Requests, NEW q \in Request, Becomes(r, q),
           UNCHANGED <<avatar, files, used>>, NEW u \in Users, q.user = u,
           q.old = avatar[u], q.new = NoFile, ~Offers(q), q.step # "unlink"
    PROVE  FilesHaveOneOwner'
<1>1. /\ \A v \in Users : avatar[v] \in used \cup {NoFile}
      /\ \A v, w \in Users : avatar[v] = avatar[w] /\ avatar[v] # NoFile => v = w
      /\ \A s \in Requests, v \in Users :
            avatar[v] = req[s].old /\ avatar[v] # NoFile =>
               v = req[s].user /\ req[s].step # "unlink"
      /\ \A s \in Requests : {req[s].new, req[s].old} \subseteq used \cup {NoFile}
      /\ \A s \in Requests : Offers(req[s]) =>
            /\ req[s].new \in files
            /\ \A v \in Users : avatar[v] # req[s].new
            /\ \A w \in Requests : req[w].old # req[s].new /\ (w # s => req[w].new # req[s].new)
  BY DEF IInv, FilesHaveOneOwner
<1>2. req'[r] = q /\ \A s \in Requests : s # r => req'[s] = req[s]
  BY BecomesFacts
<1>3. ASSUME NEW s \in Requests, NEW v \in Users, avatar[v] = req'[s].old, avatar[v] # NoFile
      PROVE  v = req'[s].user /\ req'[s].step # "unlink"
  <2>1. CASE s = r
    BY <1>1, <1>2, <1>3, <2>1
  <2>2. CASE s # r
    BY <1>1, <1>2, <1>3, <2>2
  <2> QED BY <2>1, <2>2
<1>4. \A s \in Requests : {req'[s].new, req'[s].old} \subseteq used \cup {NoFile}
  BY <1>1, <1>2
<1>5. ASSUME NEW s \in Requests, Offers(req'[s])
      PROVE  /\ req'[s].new \in files'
             /\ \A v \in Users : avatar[v] # req'[s].new
             /\ \A w \in Requests :
                   req'[w].old # req'[s].new /\ (w # s => req'[w].new # req'[s].new)
  <2>1. s # r /\ req'[s] = req[s] /\ Offers(req[s])
    BY <1>2, <1>5
  <2>2. req[s].new \in files /\ req[s].new # NoFile /\ \A v \in Users : avatar[v] # req[s].new
    BY <1>1, <2>1, AtRows
  <2>3. \A w \in Requests : req'[w].old # req[s].new /\ (w # s => req'[w].new # req[s].new)
    BY <1>1, <1>2, <2>1, <2>2
  <2> QED BY <2>1, <2>2, <2>3
<1> QED BY <1>1, <1>3, <1>4, <1>5 DEF FilesHaveOneOwner, Offers

(* A request that has written a file under a fresh name. *)
LEMMA OwnersWrite ==
    ASSUME IInv, NEW r \in Requests, NEW q \in Request, Becomes(r, q), avatar' = avatar,
           NEW f, f \notin used, f # NoFile, files' = files \cup {f}, used' = used \cup {f},
           q.new = f, q.old = req[r].old, q.user = req[r].user, q.step # "unlink"
    PROVE  FilesHaveOneOwner'
<1>1. /\ \A v \in Users : avatar[v] \in used \cup {NoFile}
      /\ \A v, w \in Users : avatar[v] = avatar[w] /\ avatar[v] # NoFile => v = w
      /\ \A s \in Requests, v \in Users :
            avatar[v] = req[s].old /\ avatar[v] # NoFile =>
               v = req[s].user /\ req[s].step # "unlink"
      /\ \A s \in Requests : {req[s].new, req[s].old} \subseteq used \cup {NoFile}
      /\ \A s \in Requests : Offers(req[s]) =>
            /\ req[s].new \in files
            /\ \A v \in Users : avatar[v] # req[s].new
            /\ \A w \in Requests : req[w].old # req[s].new /\ (w # s => req[w].new # req[s].new)
  BY DEF IInv, FilesHaveOneOwner
<1>2. req'[r] = q /\ \A s \in Requests : s # r => req'[s] = req[s]
  BY BecomesFacts
<1>3. ASSUME NEW s \in Requests, NEW v \in Users, avatar[v] = req'[s].old, avatar[v] # NoFile
      PROVE  v = req'[s].user /\ req'[s].step # "unlink"
  <2>1. CASE s = r
    BY <1>1, <1>2, <1>3, <2>1
  <2>2. CASE s # r
    BY <1>1, <1>2, <1>3, <2>2
  <2> QED BY <2>1, <2>2
<1>4. \A s \in Requests : {req'[s].new, req'[s].old} \subseteq used' \cup {NoFile}
  BY <1>1, <1>2
<1>5. \A s \in Requests : req[s].old # f /\ req[s].new # f
  BY <1>1
<1>6. ASSUME NEW s \in Requests, Offers(req'[s])
      PROVE  /\ req'[s].new \in files'
             /\ \A v \in Users : avatar[v] # req'[s].new
             /\ \A w \in Requests :
                   req'[w].old # req'[s].new /\ (w # s => req'[w].new # req'[s].new)
  <2>1. CASE s = r
    <3>1. \A v \in Users : avatar[v] # f
      BY <1>1
    <3>2. \A w \in Requests : req'[w].old # f /\ (w # r => req'[w].new # f)
      BY <1>2, <1>5
    <3> QED BY <1>2, <2>1, <3>1, <3>2
  <2>2. CASE s # r
    <3>1. req'[s] = req[s] /\ Offers(req[s])
      BY <1>2, <1>6, <2>2
    <3>2. req[s].new \in files /\ req[s].new # f /\ \A v \in Users : avatar[v] # req[s].new
      BY <1>1, <1>5, <3>1
    <3>3. \A w \in Requests : req'[w].old # req[s].new /\ (w # s => req'[w].new # req[s].new)
      BY <1>1, <1>2, <3>1, <3>2
    <3> QED BY <3>1, <3>2, <3>3
  <2> QED BY <2>1, <2>2
<1>7. \A v \in Users : avatar[v] \in used' \cup {NoFile}
  BY <1>1
<1> QED BY <1>1, <1>3, <1>4, <1>6, <1>7 DEF FilesHaveOneOwner, Offers

(* What AvatarIsServed says of one user. *)
OnDisk(u) ==
    avatar[u] # NoFile =>
       \/ avatar[u] \in files
       \/ \E r \in Requests : /\ req[r].step = "avatar" /\ req[r].user = u
                              /\ req[r].old = avatar[u]
       \/ u \in failed

(* Serving a file, and a file that is there. *)
LEMMA ServedFile ==
    ASSUME NEW f
    PROVE  /\ UploadsHandler(f) = 200 => f \in files
           /\ f \in files /\ f # "outside" => UploadsHandler(f) = 200
  BY DEF UploadsHandler, Uploads, MapErrorToHTTP, Ok

LEMMA ServedFacts ==
    ASSUME files \subseteq Files
    PROVE  AvatarIsServed <=> \A u \in Users : OnDisk(u)
  BY ServedFile, NullAssumption DEF AvatarIsServed, OnDisk

LEMMA ServedFactsPrimed ==
    ASSUME files' \subseteq Files
    PROVE  AvatarIsServed' <=> \A u \in Users : OnDisk(u)'
<1>1. ASSUME NEW f
      PROVE  /\ UploadsHandler(f)' = 200 => f \in files'
             /\ f \in files' /\ f # "outside" => UploadsHandler(f)' = 200
  BY DEF UploadsHandler, Uploads, MapErrorToHTTP, Ok
<1> QED BY <1>1, NullAssumption DEF AvatarIsServed, OnDisk

(* Avatars that no step names another way, when a step deletes at most the *)
(* old file of a request that is about to name another one.                *)
LEMMA ServedKept ==
    ASSUME IInv, NEW r \in Requests, NEW q \in Request, Becomes(r, q),
           files' \subseteq Files, avatar' = avatar, failed \subseteq failed',
           \A u \in Users : avatar[u] \in files /\ avatar[u] \notin files' =>
              q.step = "avatar" /\ q.user = u /\ q.old = avatar[u],
           req[r].step = "avatar" => req[r].user \in failed'
    PROVE  AvatarIsServed'
<1>1. \A u \in Users : OnDisk(u)
  BY AtRows, ServedFacts DEF IInv, DiskAgrees
<1>2. req'[r] = q /\ \A s \in Requests : s # r => req'[s] = req[s]
  BY BecomesFacts
<1>3. ASSUME NEW u \in Users
      PROVE  OnDisk(u)'
  BY <1>1, <1>2 DEF OnDisk
<1> QED BY <1>3, ServedFactsPrimed

(* A step that writes at most a file that its request holds then leaves    *)
(* none behind, if the request still holds what it held or what it drops   *)
(* is an avatar or gone.                                                   *)
LEMMA LeftKept ==
    ASSUME IInv, NEW r \in Requests, NEW q \in Request, Becomes(r, q),
           files' \subseteq files \cup {q.new}, avatar' = avatar,
           overlapped \subseteq overlapped', failed \subseteq failed',
           overlapped' = {} /\ failed' = {} =>
              \A f \in {req[r].new, req[r].old} \cap files' :
                 f \in {q.new, q.old} \/ \E u \in Users : avatar[u] = f
    PROVE  NoFileLeft'
<1> SUFFICES ASSUME overlapped' = {} /\ failed' = {}, NEW f \in files'
             PROVE  \/ \E u \in Users : avatar'[u] = f
                    \/ \E s \in Requests : f \in {req'[s].new, req'[s].old}
  BY DEF NoFileLeft
<1>1. req'[r] = q /\ \A s \in Requests : s # r => req'[s] = req[s]
  BY BecomesFacts
<1>2. overlapped = {} /\ failed = {}
  OBVIOUS
<1>3. \/ f = q.new
      \/ \E u \in Users : avatar[u] = f
      \/ \E s \in Requests : f \in {req[s].new, req[s].old}
  BY <1>2 DEF IInv, DiskAgrees, NoFileLeft
<1>4. CASE \E u \in Users : avatar[u] = f
  BY <1>4
<1>5. ASSUME NEW s \in Requests, f \in {req[s].new, req[s].old}
      PROVE  \/ \E u \in Users : avatar'[u] = f
             \/ \E t \in Requests : f \in {req'[t].new, req'[t].old}
  <2>1. CASE s = r
    <3>1. f \in {q.new, q.old} \/ \E u \in Users : avatar[u] = f
      BY <1>5, <2>1
    <3> QED BY <1>1, <3>1
  <2>2. CASE s # r
    BY <1>1, <1>5, <2>2
  <2> QED BY <2>1, <2>2
<1> QED BY <1>1, <1>3, <1>4, <1>5

(* The updates of other users do not notice the step of a request. *)
LEMMA AloneKept ==
    ASSUME IInv, NEW r \in Requests, NEW q \in Request, Becomes(r, q),
           \A s \in Requests : req[s].old \notin files => req[s].old \notin files',
           \A u \in Users : u # req[r].user => avatar'[u] = avatar[u],
           avatar' = avatar \/ Busy(r),
           overlapped \subseteq overlapped', failed \subseteq failed',
           overlapped' = {} /\ failed' = {} => Alone(q)'
    PROVE  UpdatesAreAlone'
<1> SUFFICES ASSUME overlapped' = {} /\ failed' = {}, NEW s \in Requests
             PROVE  Alone(req[s])'
  BY DEF UpdatesAreAlone
<1>1. req'[r] = q /\ \A p \in Requests : p # r => req'[p] = req[p]
  BY BecomesFacts
<1>2. overlapped = {} /\ failed = {}
  OBVIOUS
<1>3. CASE s = r
  BY <1>1, <1>3 DEF Alone
<1>4. CASE s # r
  <2>1. Alone(req[s])
    BY <1>2 DEF IInv, UpdatesAreAlone
  <2>2. req'[s] = req[s]
    BY <1>1, <1>4
  <2>3. Busy(s) => req[s].user \in Users
    BY AtRequest
  <2>4. Busy(s) => avatar'[req[s].user] = avatar[req[s].user]
    BY <1>2, <1>4, <2>3 DEF IInv, OverlapsAreNoted
  <2> QED BY <2>1, <2>2, <2>4 DEF Alone, Busy
<1> QED BY <1>3, <1>4

(* What IndexFollows says of one user. *)
Follows(u) ==
    \/ index[u] = name[u] /\ \A r \in Requests : req[r].user = u => req[r].step # "index"
    \/ \E r \in Requests :
          /\ req[r].user = u /\ req[r].step = "index"
          /\ \/ req[r].name = name[u]
             \/ req[r].op = "profile" /\ name[u] = NoName /\ index[u] = NoName

(* The index of other users does not notice the step of a request. *)
LEMMA IndexKept ==
    ASSUME IInv, NEW r \in Requests, NEW q \in Request, Becomes(r, q),
           \A u \in Users : u # req[r].user \/ ~Busy(r) => name'[u] = name[u] /\ index'[u] = index[u],
           Busy(r) => q = NoRequest \/ q.user = req[r].user,
           ~Busy(r) => q.step # "index",
           overlapped \subseteq overlapped', failed \subseteq failed',
           \A u \in Users : Busy(r) /\ u = req[r].user /\ u \notin overlapped' \cup failed' => Follows(u)'
    PROVE  IndexFollows'
<1> SUFFICES ASSUME NEW u \in Users, u \notin overlapped' \cup failed'
             PROVE  Follows(u)'
  BY DEF IndexFollows, Follows
<1>1. req'[r] = q /\ \A s \in Requests : s # r => req'[s] = req[s]
  BY BecomesFacts
<1>2. Follows(u)
  BY DEF IInv, IndexFollows, Follows
<1>3. CASE Busy(r) /\ u = req[r].user
  BY <1>3
<1>4. CASE ~(Busy(r) /\ u = req[r].user)
  <2>1. name'[u] = name[u] /\ index'[u] = index[u]
    BY <1>4
  <2>2. req[r].user = u => req[r].step # "index"
    BY <1>4 DEF Busy
  <2>3. q.user = u => q.step # "index"
    BY <1>4, NoRequestFacts, NullAssumption
  <2> QED BY <1>1, <1>2, <2>1, <2>2, <2>3 DEF Follows
<1> QED BY <1>3, <1>4

(* And nobody's does when nothing of it changes. *)
LEMMA IndexSame ==
    ASSUME IInv, NEW r \in Requests, NEW q \in Request, Becomes(r, q),
           UNCHANGED <<name, index>>, req[r].step # "index", q.step # "index",
           overlapped \subseteq overlapped', failed \subseteq failed'
    PROVE  IndexFollows'
<1>1. req'[r] = q /\ \A s \in Requests : s # r => req'[s] = req[s]
  BY BecomesFacts
<1>2. ASSUME NEW u \in Users, u \notin overlapped' \cup failed'
      PROVE  Follows(u)'
  <2>1. Follows(u)
    BY <1>2 DEF IInv, IndexFollows, Follows
  <2> QED BY <1>1, <2>1 DEF Follows
<1> QED BY <1>2 DEF IndexFollows, Follows

-------------------------------------------------------------------------------
(* Requests that end. *)

(* A request that ends without having changed anything. *)
LEMMA DoneKeeps ==
    ASSUME IInv, NEW r \in Requests, NEW code, Answer(r, code),
           req[r].step \in {"check", "insert", "read", "clear"},
           UNCHANGED <<rows, index, files, history>>
    PROVE  IInv'
<1> PICK q : q = NoRequest
  OBVIOUS
<1>1. /\ q \in Request /\ q.step = "idle" /\ q.new = NoFile /\ q.old = NoFile
      /\ Sound(q) /\ ~Offers(q)
  BY NoRequestFacts
<1>2. Becomes(r, q)
  BY DEF Becomes, Answer
<1>3. /\ name' = name /\ avatar' = avatar /\ index' = index /\ files' = files /\ used' = used
      /\ overlapped' = overlapped /\ failed' = failed
  BY DEF rows, history
<1>4. req[r].new = NoFile /\ req[r].old = NoFile
  BY AtRequest DEF Sound
<1>5. TypeOK'
  BY <1>1, <1>2, <1>3, BecomesFacts DEF IInv, DiskAgrees, TypeOK
<1>6. RequestsAreSound'
  BY <1>1, <1>2, SoundKept
<1>7. OverlapsAreNoted'
  BY <1>1, <1>2, <1>3, OverlapKept
<1>8. FilesHaveOneOwner'
  BY <1>1, <1>2, <1>3, OwnersKept
<1>9. AvatarIsServed'
  BY <1>1, <1>2, <1>3, AtRows, ServedKept
<1>10. NoFileLeft'
  BY <1>1, <1>2, <1>3, <1>4, AtRows, LeftKept
<1>11. UpdatesAreAlone'
  <2>1. Alone(q)'
    BY <1>1 DEF Alone
  <2> QED BY <1>1, <1>2, <1>3, <2>1, AloneKept
<1>12. IndexFollows'
  BY <1>1, <1>2, <1>3, IndexSame
<1> QED BY <1>5, <1>6, <1>7, <1>8, <1>9, <1>10, <1>11, <1>12 DEF IInv, DiskAgrees

(* A request that fails, before or after a write of its own row or index   *)
(* entry: its user is remembered, and nothing else happens to the others.  *)
LEMMA NotedKeeps ==
    ASSUME IInv, NEW r \in Requests, NEW code, Answer(r, code), Busy(r), Note(r),
           UNCHANGED <<files, used, overlapped>>,
           name' \in [Users -> Names \cup {NoName}], index' \in [Users -> Names \cup {NoName}],
           \A u \in Users : u # req[r].user =>
              name'[u] = name[u] /\ index'[u] = index[u],
           \/ avatar' = avatar
           \/ avatar' = [avatar EXCEPT ![req[r].user] = NoFile]
           \/ Offers(req[r]) /\ avatar' = [avatar EXCEPT ![req[r].user] = req[r].new]
    PROVE  IInv'
<1> PICK q : q = NoRequest
  OBVIOUS
<1>1. /\ q \in Request /\ q.step = "idle" /\ q.new = NoFile /\ q.old = NoFile
      /\ Sound(q) /\ ~Offers(q)
  BY NoRequestFacts
<1>2. Becomes(r, q)
  BY DEF Becomes, Answer
<1>3. PICK u \in Users : u = req[r].user
  BY AtRequest
<1>4. failed' = failed \cup {u}
  BY <1>3 DEF Note
<1>5. files' = files /\ used' = used /\ overlapped' = overlapped
  OBVIOUS
<1>6. PICK f \in Files \cup {NoFile} :
         /\ avatar' = [avatar EXCEPT ![u] = f]
         /\ f \in {avatar[u], NoFile} \/ (Offers(req[r]) /\ f = req[r].new)
  <2>1. avatar \in [Users -> Files \cup {NoFile}] /\ req[r].new \in Files \cup {NoFile}
    BY AtRows, AtRequest, RequestFacts
  <2>2. avatar = [avatar EXCEPT ![u] = avatar[u]]
    BY <2>1
  <2> QED BY <1>3, <2>1, <2>2
<1>7. avatar' \in [Users -> Files \cup {NoFile}] /\ avatar'[u] = f
      /\ \A v \in Users : v # u => avatar'[v] = avatar[v]
  BY <1>6, AtRows
<1>8. TypeOK'
  BY <1>1, <1>2, <1>4, <1>5, <1>7, BecomesFacts DEF IInv, DiskAgrees, TypeOK
<1>9. RequestsAreSound'
  BY <1>1, <1>2, SoundKept
<1>10. OverlapsAreNoted'
  BY <1>1, <1>2, <1>5, OverlapKept
<1>11. FilesHaveOneOwner'
  BY <1>1, <1>2, <1>3, <1>5, <1>6, OwnersChange
<1>12. AvatarIsServed'
  <2>1. \A v \in Users : OnDisk(v)
    BY AtRows, ServedFacts DEF IInv, DiskAgrees
  <2>2. req'[r] = q /\ \A s \in Requests : s # r => req'[s] = req[s]
    BY <1>1, <1>2, BecomesFacts
  <2>3. ASSUME NEW v \in Users
        PROVE  OnDisk(v)'
    BY <1>3, <1>4, <1>5, <1>7, <2>1, <2>2 DEF OnDisk
  <2>4. files' \subseteq Files
    BY <1>5, AtRows
  <2> QED BY <2>3, <2>4, ServedFactsPrimed
<1>13. NoFileLeft' /\ UpdatesAreAlone'
  BY <1>4 DEF NoFileLeft, UpdatesAreAlone
<1>14. IndexFollows'
  <2>1. \A v \in Users : v = req[r].user => v \in failed'
    BY <1>3, <1>4
  <2> QED BY <1>1, <1>2, <1>4, <1>5, <2>1, IndexKept
<1> QED BY <1>8, <1>9, <1>10, <1>11, <1>12, <1>13, <1>14 DEF IInv, DiskAgrees

(* A call of a request that fails without an effect. *)
LEMMA FailKeeps ==
    ASSUME IInv, NEW r \in Requests, Fail(r)
    PROVE  IInv'
<1>1. Answer(r, GatewayCode("ErrDB")) /\ Busy(r) /\ Note(r)
  BY DEF Fail, Refuse, Busy
<1>2. UNCHANGED <<files, used, overlapped>> /\ name' = name /\ avatar' = avatar /\ index' = index
  BY DEF Fail, rows
<1> QED BY <1>1, <1>2, AtRows, NotedKeeps

(* The process dies. *)
LEMMA CrashKeeps ==
    ASSUME IInv, Crash
    PROVE  IInv'
<1>1. /\ name' = name /\ avatar' = avatar /\ index' = index /\ files' = files /\ used' = used
      /\ overlapped' = overlapped
      /\ failed' = failed \cup {req[r].user : r \in {s \in Requests : Busy(s)}}
  BY DEF Crash, rows
<1>2. /\ req' \in [Requests -> Request] /\ \A r \in Requests : req'[r] = NoRequest
  BY NoRequestFacts DEF Crash
<1>3. \A r \in Requests : Busy(r) => req[r].user \in failed' /\ req[r].user \in Users
  BY <1>1, AtRequest
<1>4. failed \subseteq failed' /\ failed' \subseteq Users
  BY <1>1, <1>3, AtRows
<1>5. failed' # {}
  BY <1>3 DEF Crash
<1>6. TypeOK'
  BY <1>1, <1>2, <1>4 DEF IInv, DiskAgrees, TypeOK
<1>7. RequestsAreSound'
  BY <1>2, NoRequestFacts DEF RequestsAreSound, Sound
<1>8. OverlapsAreNoted'
  BY <1>2, NoRequestFacts DEF OverlapsAreNoted, Busy
<1>9. FilesHaveOneOwner'
  <2>1. \A r \in Requests : req'[r].new = NoFile /\ req'[r].old = NoFile /\ ~Offers(req'[r])
    BY <1>2, NoRequestFacts
  <2> QED BY <1>1, <2>1 DEF IInv, FilesHaveOneOwner, Offers
<1>10. AvatarIsServed'
  <2>1. \A u \in Users : OnDisk(u)
    BY AtRows, ServedFacts DEF IInv, DiskAgrees
  <2>2. ASSUME NEW u \in Users
        PROVE  OnDisk(u)'
    BY <1>1, <1>3, <1>4, <2>1 DEF OnDisk, Busy
  <2> QED BY <1>1, <2>2, AtRows, ServedFactsPrimed
<1>11. NoFileLeft' /\ UpdatesAreAlone'
  BY <1>5 DEF NoFileLeft, UpdatesAreAlone
<1>12. IndexFollows'
  <2>1. ASSUME NEW u \in Users, u \notin overlapped' \cup failed'
        PROVE  index'[u] = name'[u] /\ \A r \in Requests : req'[r].step # "index"
    <3>1. \A r \in Requests : req[r].user = u => req[r].step # "index"
      BY <1>3, <2>1 DEF Busy
    <3>2. Follows(u)
      BY <1>1, <1>4, <2>1 DEF IInv, IndexFollows, Follows
    <3>3. index[u] = name[u]
      BY <3>1, <3>2 DEF Follows
    <3> QED BY <1>1, <1>2, <3>3, NoRequestFacts
  <2> QED BY <2>1 DEF IndexFollows
<1> QED BY <1>6, <1>7, <1>8, <1>9, <1>10, <1>11, <1>12 DEF IInv, DiskAgrees

-------------------------------------------------------------------------------
(* Requests that arrive. *)

(* A request that comes holds no file; if its user has another one, this   *)
(* is remembered.                                                          *)
LEMMA ArriveKeeps ==
    ASSUME IInv, NEW r \in Requests, NEW p \in Request, p.user \in Users,
           p.new = NoFile, p.old = NoFile, Arrive(r, p)
    PROVE  IInv'
<1> PICK q : q = [p EXCEPT !.step = "check"]
  OBVIOUS
<1>1. /\ q \in Request /\ q.step = "check" /\ q.user = p.user
      /\ q.new = NoFile /\ q.old = NoFile
  BY GotoFacts DEF Steps
<1>2. Becomes(r, q)
  BY DEF Becomes, Arrive
<1>3. /\ name' = name /\ avatar' = avatar /\ index' = index /\ files' = files /\ used' = used
      /\ failed' = failed
  BY DEF Arrive, rows
<1>4. /\ overlapped \subseteq overlapped' /\ overlapped' \subseteq Users
      /\ \A s \in Requests : Busy(s) /\ req[s].user = q.user => q.user \in overlapped'
  BY <1>1, AtRows DEF Arrive
<1>5. ~Busy(r) /\ req[r] = NoRequest
  BY AtRequest DEF Arrive
<1>6. req[r].new = NoFile /\ req[r].old = NoFile /\ req[r].step = "idle"
  BY <1>5, NoRequestFacts
<1>7. TypeOK'
  BY <1>1, <1>2, <1>3, <1>4, BecomesFacts DEF IInv, DiskAgrees, TypeOK
<1>8. RequestsAreSound'
  <2>1. Sound(q)
    BY <1>1 DEF Sound
  <2> QED BY <1>1, <1>2, <2>1, SoundKept
<1>9. OverlapsAreNoted'
  <2>1. req'[r] = q /\ \A s \in Requests : s # r => req'[s] = req[s]
    BY <1>1, <1>2, BecomesFacts
  <2>2. ASSUME NEW s \in Requests, NEW w \in Requests, s # w, req'[s].step # "idle",
               req'[w].step # "idle", req'[s].user = req'[w].user
        PROVE  req'[s].user \in overlapped'
    <3>1. CASE s = r
      BY <1>1, <1>4, <2>1, <2>2, <3>1 DEF Busy
    <3>2. CASE w = r
      BY <1>1, <1>4, <2>1, <2>2, <3>2 DEF Busy
    <3>3. CASE s # r /\ w # r
      BY <1>4, <2>1, <2>2, <3>3 DEF IInv, OverlapsAreNoted, Busy
    <3> QED BY <3>1, <3>2, <3>3
  <2> QED BY <2>2 DEF OverlapsAreNoted, Busy
<1>10. FilesHaveOneOwner'
  <2>1. ~Offers(q)
    BY <1>1 DEF Offers
  <2> QED BY <1>1, <1>2, <1>3, <2>1, OwnersKept
<1>11. AvatarIsServed'
  BY <1>1, <1>2, <1>3, <1>6, AtRows, ServedKept
<1>12. NoFileLeft'
  BY <1>1, <1>2, <1>3, <1>4, <1>6, AtRows, LeftKept
<1>13. UpdatesAreAlone'
  <2>1. Alone(q)'
    BY <1>1 DEF Alone
  <2> QED BY <1>1, <1>2, <1>3, <1>4, <2>1, AloneKept
<1>14. IndexFollows'
  BY <1>1, <1>2, <1>3, <1>4, <1>6, IndexSame
<1> QED BY <1>7, <1>8, <1>9, <1>10, <1>11, <1>12, <1>13, <1>14 DEF IInv, DiskAgrees

(* Whatever a handler passes on. *)
LEMMA ReceiveKeeps ==
    ASSUME IInv, NEW r \in Requests, Receive(r)
    PROVE  IInv'
<1> DEFINE Fits(p) == p \in Request /\ p.user \in Users /\ p.new = NoFile /\ p.old = NoFile
<1>1. \A p : Fits(p) /\ Arrive(r, p) => IInv'
  BY ArriveKeeps
<1>2. CASE CreateProfileCall(r)
  <2>1. PICK u \in Users, n \in Names, v \in BOOLEAN :
          Arrive(r, [NoRequest EXCEPT !.op = "create", !.user = u, !.name = n, !.valid = v])
    BY <1>2 DEF CreateProfileCall
  <2>2. Fits([NoRequest EXCEPT !.op = "create", !.user = u, !.name = n, !.valid = v])
    BY NoRequestFacts DEF Request, Ops
  <2> HIDE DEF Fits
  <2> QED BY <1>1, <2>1, <2>2
<1>3. CASE UpdateProfileHandler(r)
  <2>1. PICK u \in Users, n \in Names, v \in BOOLEAN, c \in 0..2 :
          Arrive(r, [NoRequest EXCEPT !.op = "profile", !.user = u, !.name = n, !.valid = v,
                                      !.count = c])
    BY <1>3 DEF UpdateProfileHandler
  <2>2. Fits([NoRequest EXCEPT !.op = "profile", !.user = u, !.name = n, !.valid = v,
                               !.count = c])
    BY NoRequestFacts DEF Request, Ops
  <2> HIDE DEF Fits
  <2> QED BY <1>1, <2>1, <2>2
<1>4. CASE UpdateAvatarHandler(r)
  <2>1. PICK u \in Users, c \in 0..2 :
          Arrive(r, [NoRequest EXCEPT !.op = "avatar", !.user = u, !.count = c])
    BY <1>4 DEF UpdateAvatarHandler
  <2>2. Fits([NoRequest EXCEPT !.op = "avatar", !.user = u, !.count = c])
    BY NoRequestFacts DEF Request, Ops
  <2> HIDE DEF Fits
  <2> QED BY <1>1, <2>1, <2>2
<1>5. CASE UpdateHeaderHandler(r)
  <2>1. PICK u \in Users, c \in 0..2 :
          Arrive(r, [NoRequest EXCEPT !.op = "header", !.user = u, !.count = c])
    BY <1>5 DEF UpdateHeaderHandler
  <2>2. Fits([NoRequest EXCEPT !.op = "header", !.user = u, !.count = c])
    BY NoRequestFacts DEF Request, Ops
  <2> HIDE DEF Fits
  <2> QED BY <1>1, <2>1, <2>2
<1>6. CASE DeleteAvatarHandler(r)
  <2>1. PICK u \in Users : Arrive(r, [NoRequest EXCEPT !.op = "delete", !.user = u])
    BY <1>6 DEF DeleteAvatarHandler
  <2>2. Fits([NoRequest EXCEPT !.op = "delete", !.user = u])
    BY NoRequestFacts DEF Request, Ops
  <2> HIDE DEF Fits
  <2> QED BY <1>1, <2>1, <2>2
<1> QED BY <1>2, <1>3, <1>4, <1>5, <1>6 DEF Receive

-------------------------------------------------------------------------------
(* The steps of a request that succeed. *)

(* Where a request goes after its input is checked. *)
LEMMA FirstStepFacts ==
    ASSUME NEW p \in Request, FirstStep(p) # "refuse"
    PROVE  /\ FirstStep(p) \in {"insert", "clear", "read", "row"}
           /\ FirstStep(p) = "insert" => p.op = "create"
           /\ FirstStep(p) = "row" => p.op = "profile"
  BY DEF FirstStep, FirstOfUpdateProfile, FirstOfUpdateAvatar

(* The input is checked. *)
LEMMA CheckInputKeeps ==
    ASSUME IInv, NEW r \in Requests, CheckInput(r)
    PROVE  IInv'
<1>1. req[r].step = "check" /\ UNCHANGED <<rows, index, files, history>>
  BY DEF CheckInput
<1>2. CASE Refuse(r, "ErrInvalidInput")
  BY <1>1, <1>2, DoneKeeps DEF Refuse
<1>3. CASE ~Refuse(r, "ErrInvalidInput")
  <2> PICK p \in Request : p = req[r] /\ Sound(p)
    BY AtRequest
  <2> PICK q : q = [p EXCEPT !.step = FirstStep(p), !.count = 0]
    OBVIOUS
  <2>1. FirstStep(p) # "refuse" /\ Becomes(r, q)
    BY <1>3 DEF CheckInput, Becomes
  <2>2. /\ FirstStep(p) \in {"insert", "clear", "read", "row"}
        /\ FirstStep(p) = "insert" => p.op = "create"
        /\ FirstStep(p) = "row" => p.op = "profile"
    BY <2>1, FirstStepFacts
  <2>3. p.step = "check" /\ p.new = NoFile /\ p.old = NoFile /\ p.user \in Users
    BY <1>1 DEF Sound
  <2>4. /\ q \in Request /\ q.step = FirstStep(p) /\ q.op = p.op /\ q.user = p.user
        /\ q.new = NoFile /\ q.old = NoFile
    <3>1. FirstStep(p) \in Steps
      BY <2>2 DEF Steps
    <3>2. 0 \in 0..2
      OBVIOUS
    <3>3. PICK step \in Steps, none \in 0..2 : step = FirstStep(p) /\ none = 0
      BY <3>1, <3>2
    <3>4. q = [p EXCEPT !.step = step, !.count = none]
      BY <3>3
    <3>5. /\ q \in Request /\ q.step = step /\ q.op = p.op /\ q.user = p.user
          /\ q.new = p.new /\ q.old = p.old
      BY ONLY <3>4, p \in Request, step \in Steps, none \in 0..2 DEF Request
    <3> QED BY <2>3, <3>3, <3>5
  <2>5. Sound(q) /\ ~Offers(q) /\ q.step # "unlink" /\ q.step # "index"
    BY <2>2, <2>3, <2>4 DEF Sound, Offers
  <2>6. /\ name' = name /\ avatar' = avatar /\ index' = index /\ files' = files /\ used' = used
        /\ overlapped' = overlapped /\ failed' = failed
    BY <1>1 DEF rows, history
  <2>7. TypeOK'
    BY <2>1, <2>4, <2>6, BecomesFacts DEF IInv, DiskAgrees, TypeOK
  <2>8. RequestsAreSound'
    BY <2>1, <2>4, <2>5, SoundKept
  <2>9. OverlapsAreNoted'
    BY <2>1, <2>3, <2>4, <2>6, OverlapKept DEF Busy
  <2>10. FilesHaveOneOwner'
    BY <2>1, <2>4, <2>5, <2>6, OwnersKept
  <2>11. AvatarIsServed'
    BY <2>1, <2>3, <2>4, <2>6, AtRows, ServedKept
  <2>12. NoFileLeft'
    BY <2>1, <2>3, <2>4, <2>6, AtRows, LeftKept
  <2>13. UpdatesAreAlone'
    <3>1. Alone(q)'
      BY <2>2, <2>4, <2>6, AtRows DEF Alone
    <3> QED BY <2>1, <2>4, <2>6, <3>1, AloneKept
  <2>14. IndexFollows'
    BY <2>1, <2>3, <2>4, <2>5, <2>6, IndexSame
  <2> QED BY <2>7, <2>8, <2>9, <2>10, <2>11, <2>12, <2>13, <2>14 DEF IInv, DiskAgrees
<1> QED BY <1>2, <1>3

(* A request that has changed the name in the row goes to the index.       *)
LEMMA ToIndexKeeps ==
    ASSUME IInv, NEW r \in Requests, Goto(r, "index"), req[r].step \in {"insert", "row"},
           NEW n \in Names \cup {NoName}, name' = [name EXCEPT ![req[r].user] = n],
           n = req[r].name \/ (n = NoName /\ name[req[r].user] = NoName /\ req[r].step = "row"),
           UNCHANGED <<avatar, index, files, history>>
    PROVE  IInv'
<1> PICK p \in Request : p = req[r] /\ Sound(p)
  BY AtRequest
<1> PICK q : q = [p EXCEPT !.step = "index"]
  OBVIOUS
<1>1. Becomes(r, q)
  BY DEF Becomes, Goto
<1>2. /\ q \in Request /\ q.step = "index" /\ q.op = p.op /\ q.user = p.user /\ q.name = p.name
      /\ q.new = p.new /\ q.old = p.old
  BY GotoFacts DEF Steps
<1>3. /\ avatar' = avatar /\ index' = index /\ files' = files /\ used' = used
      /\ overlapped' = overlapped /\ failed' = failed
  BY DEF history
<1>4. p.user \in Users /\ Busy(r) /\ ~Offers(p) /\ (p.step = "row" => p.op = "profile")
  BY DEF Sound, Busy, Offers
<1>5. /\ name' \in [Users -> Names \cup {NoName}] /\ name'[p.user] = n
      /\ \A u \in Users : u # p.user => name'[u] = name[u]
  BY <1>4, AtRows
<1>6. Sound(q) /\ ~Offers(q)
  BY <1>2, <1>4 DEF Sound, Offers
<1>7. TypeOK'
  BY <1>1, <1>2, <1>3, <1>5, BecomesFacts DEF IInv, DiskAgrees, TypeOK
<1>8. RequestsAreSound'
  BY <1>1, <1>2, <1>6, SoundKept
<1>9. OverlapsAreNoted'
  BY <1>1, <1>2, <1>3, <1>4, OverlapKept
<1>10. FilesHaveOneOwner'
  BY <1>1, <1>2, <1>3, <1>6, OwnersKept
<1>11. AvatarIsServed'
  BY <1>1, <1>2, <1>3, AtRows, ServedKept
<1>12. NoFileLeft'
  BY <1>1, <1>2, <1>3, AtRows, LeftKept
<1>13. UpdatesAreAlone'
  <2>1. ASSUME overlapped' = {} /\ failed' = {}
        PROVE  Alone(q)'
    <3>1. Alone(p)
      BY <1>3, <2>1 DEF IInv, UpdatesAreAlone
    <3>2. p.step = "insert" => p.new = NoFile /\ p.old = NoFile
      BY DEF Sound
    <3> QED BY <1>2, <1>3, <3>1, <3>2, AtRows DEF Alone
  <2> QED BY <1>1, <1>2, <1>3, <2>1, AloneKept
<1>14. IndexFollows'
  <2>1. ASSUME NEW u \in Users, u = req[r].user, u \notin overlapped' \cup failed'
        PROVE  Follows(u)'
    <3>1. req'[r] = q
      BY <1>1, <1>2, BecomesFacts
    <3>2. CASE n = p.name
      BY <1>2, <1>5, <2>1, <3>1, <3>2 DEF Follows
    <3>3. CASE n = NoName /\ name[u] = NoName /\ p.step = "row"
      <4>1. Follows(u)
        BY <1>3, <2>1 DEF IInv, IndexFollows, Follows
      <4>2. \A s \in Requests : req[s].user = u => req[s].step # "index"
        BY <1>3, <1>4, <2>1, <3>3 DEF IInv, OverlapsAreNoted, Busy
      <4>3. index[u] = NoName
        BY <3>3, <4>1, <4>2 DEF Follows
      <4>4. /\ req'[r].user = u /\ req'[r].step = "index" /\ req'[r].op = "profile"
            /\ name'[u] = NoName /\ index'[u] = NoName
        BY <1>2, <1>3, <1>4, <1>5, <2>1, <3>1, <3>3, <4>3
      <4> QED BY <4>4 DEF Follows
    <3> QED BY <2>1, <3>2, <3>3
  <2> QED BY <1>1, <1>2, <1>3, <1>4, <1>5, <2>1, IndexKept
<1> QED BY <1>7, <1>8, <1>9, <1>10, <1>11, <1>12, <1>13, <1>14 DEF IInv, DiskAgrees

(* A profile is inserted. *)
LEMMA CreateProfileKeeps ==
    ASSUME IInv, NEW r \in Requests, CreateProfile(r)
    PROVE  IInv'
<1> PICK p \in Request : p = req[r] /\ Sound(p)
  BY AtRequest
<1>1. p.step = "insert" /\ Busy(r) /\ p.user \in Users /\ p.name \in Names \cup {NoName}
  BY RequestFacts DEF CreateProfile, Busy, Sound
<1>2. UNCHANGED <<avatar, index, files, used, overlapped>>
  BY DEF CreateProfile
<1>3. CASE name' = [name EXCEPT ![p.user] = p.name] /\ Goto(r, "index") /\ UNCHANGED failed
  BY <1>1, <1>2, <1>3, ToIndexKeeps DEF history
<1>4. CASE name' = [name EXCEPT ![p.user] = p.name] /\ Refuse(r, "ErrDB") /\ Note(r)
  <2>1. /\ name' \in [Users -> Names \cup {NoName}]
        /\ \A u \in Users : u # p.user => name'[u] = name[u]
    BY <1>1, <1>4, AtRows
  <2> QED BY <1>1, <1>2, <1>4, <2>1, AtRows, NotedKeeps DEF Refuse
<1>5. CASE Refuse(r, "ErrDB") /\ UNCHANGED <<name, failed>>
  BY <1>1, <1>2, <1>5, DoneKeeps DEF Refuse, rows, history
<1> QED BY <1>3, <1>4, <1>5 DEF CreateProfile, Continue

(* The row of a profile is updated. *)
LEMMA UpdateProfileKeeps ==
    ASSUME IInv, NEW r \in Requests, UpdateProfile(r)
    PROVE  IInv'
<1> PICK p \in Request : p = req[r] /\ Sound(p)
  BY AtRequest
<1>1. p.step = "row" /\ Busy(r) /\ p.user \in Users /\ p.name \in Names \cup {NoName}
  BY RequestFacts DEF UpdateProfile, Busy, Sound
<1>2. UNCHANGED <<avatar, index, files, used, overlapped>>
  BY DEF UpdateProfile
<1>3. PICK n : n = IF name[p.user] = NoName THEN NoName ELSE p.name
  OBVIOUS
<1>4. n \in Names \cup {NoName} /\ name' = [name EXCEPT ![p.user] = n]
  BY <1>1, <1>3 DEF UpdateProfile
<1>5. CASE Goto(r, "index") /\ UNCHANGED failed
  BY <1>1, <1>2, <1>3, <1>4, <1>5, ToIndexKeeps DEF history
<1>6. CASE Refuse(r, "ErrDB") /\ Note(r)
  <2>1. /\ name' \in [Users -> Names \cup {NoName}]
        /\ \A u \in Users : u # p.user => name'[u] = name[u]
    BY <1>1, <1>4, AtRows
  <2> QED BY <1>1, <1>2, <1>6, <2>1, AtRows, NotedKeeps DEF Refuse
<1> QED BY <1>5, <1>6 DEF UpdateProfile, Continue

(* The old avatar is read. *)
LEMMA GetAvatarKeeps ==
    ASSUME IInv, NEW r \in Requests, GetAvatarByUserID(r)
    PROVE  IInv'
<1> PICK p \in Request : p = req[r] /\ Sound(p)
  BY AtRequest
<1>1. p.step = "read" /\ UNCHANGED <<rows, index, files, history>>
  BY DEF GetAvatarByUserID
<1>2. CASE Refuse(r, "ErrDB")
  BY <1>1, <1>2, DoneKeeps DEF Refuse
<1>3. CASE req' = [req EXCEPT ![r].step = "upload", ![r].old = avatar[p.user]]
  <2>1. p.user \in Users /\ p.new = NoFile /\ p.old = NoFile /\ Busy(r)
    BY <1>1 DEF Sound, Busy
  <2>2. PICK f \in Files \cup {NoFile} : f = avatar[p.user]
    BY <2>1, AtRows
  <2> PICK q : q = [p EXCEPT !.step = "upload", !.old = f]
    OBVIOUS
  <2>3. Becomes(r, q)
    BY <1>3, <2>2 DEF Becomes, IInv, DiskAgrees, TypeOK
  <2>4. /\ q \in Request /\ q.step = "upload" /\ q.user = p.user /\ q.new = p.new /\ q.old = f
    BY DEF Request, Steps
  <2>5. Sound(q) /\ ~Offers(q)
    BY <2>1, <2>4 DEF Sound, Offers
  <2>6. /\ name' = name /\ avatar' = avatar /\ index' = index /\ files' = files /\ used' = used
        /\ overlapped' = overlapped /\ failed' = failed
    BY <1>1 DEF rows, history
  <2>7. TypeOK'
    BY <2>3, <2>4, <2>6, BecomesFacts DEF IInv, DiskAgrees, TypeOK
  <2>8. RequestsAreSound'
    BY <2>3, <2>4, <2>5, SoundKept
  <2>9. OverlapsAreNoted'
    BY <2>1, <2>3, <2>4, <2>6, OverlapKept
  <2>10. FilesHaveOneOwner'
    BY <2>1, <2>2, <2>3, <2>4, <2>5, <2>6, OwnersRead
  <2>11. AvatarIsServed'
    BY <1>1, <2>3, <2>4, <2>6, AtRows, ServedKept
  <2>12. NoFileLeft'
    BY <2>1, <2>3, <2>4, <2>6, AtRows, LeftKept
  <2>13. UpdatesAreAlone'
    <3>1. Alone(q)'
      BY <2>2, <2>4, <2>6 DEF Alone
    <3> QED BY <2>3, <2>4, <2>6, <3>1, AloneKept
  <2>14. IndexFollows'
    BY <1>1, <2>3, <2>4, <2>6, IndexSame
  <2> QED BY <2>7, <2>8, <2>9, <2>10, <2>11, <2>12, <2>13, <2>14 DEF IInv, DiskAgrees
<1> QED BY <1>2, <1>3 DEF GetAvatarByUserID

(* The new file is written. *)
LEMMA UploadFileKeeps ==
    ASSUME IInv, NEW r \in Requests, UploadFile(r)
    PROVE  IInv'
<1> PICK p \in Request : p = req[r] /\ Sound(p)
  BY AtRequest
<1>1. p.step = "upload" /\ Busy(r) /\ p.user \in Users /\ p.new = NoFile
  BY DEF UploadFile, Busy, Sound
<1>2. PICK f \in Files \ used :
         /\ files' = files \cup {f} /\ used' = used \cup {f}
         /\ req' = [req EXCEPT ![r].step = "remove", ![r].new = f]
  BY DEF UploadFile
<1> PICK q : q = [p EXCEPT !.step = "remove", !.new = f]
  OBVIOUS
<1>3. Becomes(r, q)
  BY <1>2 DEF Becomes, IInv, DiskAgrees, TypeOK
<1>4. /\ q \in Request /\ q.step = "remove" /\ q.user = p.user /\ q.new = f /\ q.old = p.old
  BY DEF Request, Steps
<1>5. /\ name' = name /\ avatar' = avatar /\ index' = index
      /\ overlapped' = overlapped /\ failed' = failed
  BY DEF UploadFile, rows
<1>6. Sound(q)
  BY <1>1, <1>4 DEF Sound
<1>7. TypeOK'
  BY <1>2, <1>3, <1>4, <1>5, BecomesFacts DEF IInv, DiskAgrees, TypeOK
<1>8. RequestsAreSound'
  BY <1>3, <1>4, <1>6, SoundKept
<1>9. OverlapsAreNoted'
  BY <1>1, <1>3, <1>4, <1>5, OverlapKept
<1>10. FilesHaveOneOwner'
  BY <1>2, <1>3, <1>4, <1>5, NullAssumption, OwnersWrite
<1>11. AvatarIsServed'
  BY <1>1, <1>2, <1>3, <1>4, <1>5, AtRows, ServedKept
<1>12. NoFileLeft'
  BY <1>1, <1>2, <1>3, <1>4, <1>5, AtRows, LeftKept
<1>13. UpdatesAreAlone'
  <2>1. ASSUME overlapped' = {} /\ failed' = {}
        PROVE  Alone(q)'
    <3>1. Alone(p)
      BY <1>5, <2>1 DEF IInv, UpdatesAreAlone
    <3> QED BY <1>1, <1>4, <1>5, <3>1 DEF Alone
  <2>2. \A s \in Requests : req[s].old # f
    BY NullAssumption DEF IInv, FilesHaveOneOwner
  <2>3. \A s \in Requests : req[s].old \notin files => req[s].old \notin files'
    BY <1>2, <2>2
  <2> QED BY <1>3, <1>4, <1>5, <2>1, <2>3, AloneKept
<1>14. IndexFollows'
  BY <1>1, <1>3, <1>4, <1>5, IndexSame
<1> QED BY <1>7, <1>8, <1>9, <1>10, <1>11, <1>12, <1>13, <1>14 DEF IInv, DiskAgrees

(* The old file is deleted, or not. *)
LEMMA RemoveKeeps ==
    ASSUME IInv, NEW r \in Requests, HandleFileUpload(r)
    PROVE  IInv'
<1> PICK p \in Request : p = req[r] /\ Sound(p)
  BY AtRequest
<1> PICK q : q = [p EXCEPT !.step = "avatar"]
  OBVIOUS
<1>1. /\ p.step = "remove" /\ Busy(r) /\ p.user \in Users /\ Offers(p)
  BY DEF HandleFileUpload, Busy, Sound, Offers
<1>2. Becomes(r, q)
  BY DEF HandleFileUpload, Goto, Becomes
<1>3. /\ q \in Request /\ q.step = "avatar" /\ q.user = p.user /\ q.new = p.new /\ q.old = p.old
  BY GotoFacts DEF Steps
<1>4. /\ name' = name /\ avatar' = avatar /\ index' = index /\ used' = used
      /\ overlapped' = overlapped
  BY DEF HandleFileUpload, rows
<1>5. \/ files' = files \ {p.old} /\ failed' = failed
      \/ files' = files /\ failed' = failed \cup {p.user}
  BY DEF HandleFileUpload, Note
<1>6. Sound(q)
  BY <1>1, <1>3 DEF Sound
<1>7. TypeOK'
  BY <1>1, <1>2, <1>3, <1>4, <1>5, BecomesFacts DEF IInv, DiskAgrees, TypeOK
<1>8. RequestsAreSound'
  BY <1>2, <1>3, <1>6, SoundKept
<1>9. OverlapsAreNoted'
  BY <1>1, <1>2, <1>3, <1>4, OverlapKept
<1>10. FilesHaveOneOwner'
  <2>1. files' = files \/ \E f : files' = files \ {f} /\ f = req[r].old
    BY <1>5
  <2> QED BY <1>1, <1>2, <1>3, <1>4, <2>1, OwnersKept
<1>11. AvatarIsServed'
  <2>1. \A u \in Users : avatar[u] = p.old /\ avatar[u] # NoFile => u = p.user
    BY DEF IInv, FilesHaveOneOwner
  <2>2. \A u \in Users : avatar[u] \in files /\ avatar[u] \notin files' =>
           q.step = "avatar" /\ q.user = u /\ q.old = avatar[u]
    BY <1>3, <1>5, <2>1, AtRows
  <2>3. files' \subseteq Files /\ failed \subseteq failed'
    BY <1>5, AtRows
  <2> QED BY <1>1, <1>2, <1>3, <1>4, <2>2, <2>3, ServedKept
<1>12. NoFileLeft'
  BY <1>2, <1>3, <1>4, <1>5, LeftKept
<1>13. UpdatesAreAlone'
  <2>1. ASSUME overlapped' = {} /\ failed' = {}
        PROVE  Alone(q)'
    <3>1. Alone(p)
      BY <1>4, <1>5, <2>1 DEF IInv, UpdatesAreAlone
    <3>2. files' = files \ {p.old}
      BY <1>5, <2>1
    <3> QED BY <1>1, <1>3, <1>4, <3>1, <3>2 DEF Alone
  <2>2. failed \subseteq failed' /\ files' \subseteq files
    BY <1>5
  <2> QED BY <1>2, <1>3, <1>4, <2>1, <2>2, AloneKept
<1>14. IndexFollows'
  BY <1>1, <1>2, <1>3, <1>4, <1>5, IndexSame
<1> QED BY <1>7, <1>8, <1>9, <1>10, <1>11, <1>12, <1>13, <1>14 DEF IInv, DiskAgrees

(* The new file becomes the avatar, and the request goes on to the row or  *)
(* ends.                                                                   *)
LEMMA NewAvatarKeeps ==
    ASSUME IInv, NEW r \in Requests, req[r].step = "avatar", NEW q \in Request, Becomes(r, q),
           avatar' = [avatar EXCEPT ![req[r].user] = req[r].new],
           UNCHANGED <<name, index, files, history>>,
           \/ q = NoRequest
           \/ /\ q.step = "row" /\ q.op = "profile" /\ q.user = req[r].user
              /\ q.new = req[r].new /\ q.old = req[r].old
    PROVE  IInv'
<1>1. PICK u \in Users, f \in Files \cup {NoFile}, g \in Files \cup {NoFile} :
        u = req[r].user /\ f = req[r].new /\ g = req[r].old
  BY AtRequest DEF Busy, Request
<1>2. Busy(r) /\ Offers(req[r]) /\ f \in files /\ f # NoFile
  <2>1. Busy(r) /\ Offers(req[r])
    BY DEF Busy, Offers
  <2> QED BY <1>1, <2>1, AtRows DEF IInv, FilesHaveOneOwner
<1>3. /\ name' = name /\ index' = index /\ files' = files /\ used' = used
      /\ overlapped' = overlapped /\ failed' = failed
  BY DEF history
<1>4. /\ avatar' \in [Users -> Files \cup {NoFile}] /\ avatar'[u] = f
      /\ avatar' = [avatar EXCEPT ![u] = f]
      /\ \A v \in Users : v # u => avatar'[v] = avatar[v]
  BY <1>1, <1>2, AtRows
<1>5. /\ q.step \in {"idle", "row"} /\ q.new \in {NoFile, f} /\ q.old \in {NoFile, g}
      /\ q.old # NoFile => q.user = u
      /\ q.step = "row" => q.op = "profile" /\ q.user = u /\ q.new = f /\ q.old = g
  BY <1>1, NoRequestFacts
<1>6. Sound(q) /\ ~Offers(q)
  BY <1>1, NoRequestFacts DEF Sound, Offers
<1>7. TypeOK'
  BY <1>3, <1>4, BecomesFacts DEF IInv, DiskAgrees, TypeOK
<1>8. RequestsAreSound'
  BY <1>6, SoundKept
<1>9. OverlapsAreNoted'
  BY <1>1, <1>2, <1>3, <1>5, OverlapKept
<1>10. FilesHaveOneOwner'
  <2>1. f \in {avatar[u], NoFile} \/ (Offers(req[r]) /\ f = req[r].new)
    BY <1>1, <1>2
  <2>2. /\ q.new \in {NoFile, req[r].new} /\ (q.old # NoFile => q.user = u)
        /\ \/ q.step # "unlink" /\ q.old \in {NoFile, req[r].old}
           \/ f = NoFile /\ q.old = avatar[u]
    BY <1>1, <1>5
  <2>3. u = req[r].user /\ UNCHANGED <<files, used>> /\ avatar' = [avatar EXCEPT ![u] = f] /\ ~Offers(q)
    BY <1>1, <1>3, <1>4, <1>6
  <2> QED BY ONLY IInv, r \in Requests, q \in Request, u \in Users, Becomes(r, q), <2>1, <2>2, <2>3,
                  OwnersChange
<1>11. AvatarIsServed'
  <2>1. \A v \in Users : OnDisk(v)
    BY AtRows, ServedFacts DEF IInv, DiskAgrees
  <2>2. req'[r] = q /\ \A s \in Requests : s # r => req'[s] = req[s]
    BY BecomesFacts
  <2>3. ASSUME NEW v \in Users
        PROVE  OnDisk(v)'
    <3>1. CASE v = u
      BY <1>2, <1>3, <1>4, <3>1 DEF OnDisk
    <3>2. CASE v # u
      BY <1>1, <1>3, <1>4, <2>1, <2>2, <3>2 DEF OnDisk
    <3> QED BY <3>1, <3>2
  <2> QED BY <1>3, <2>3, AtRows, ServedFactsPrimed
<1>12. ASSUME overlapped' = {} /\ failed' = {}
       PROVE  g = avatar[u] /\ g \notin files
  BY <1>1, <1>3, <1>12 DEF IInv, UpdatesAreAlone, Alone
<1>13. NoFileLeft' /\ UpdatesAreAlone'
  <2>1. req'[r] = q /\ \A s \in Requests : s # r => req'[s] = req[s]
    BY BecomesFacts
  <2>2. ASSUME overlapped' = {} /\ failed' = {}, NEW h \in files
        PROVE  \/ \E v \in Users : avatar'[v] = h
               \/ \E s \in Requests : h \in {req'[s].new, req'[s].old}
    <3>1. g = avatar[u] /\ h # g
      BY <1>12, <2>2
    <3>2. \/ \E v \in Users : avatar[v] = h
          \/ \E s \in Requests : h \in {req[s].new, req[s].old}
      BY <1>3, <2>2 DEF IInv, DiskAgrees, NoFileLeft
    <3>3. ASSUME NEW v \in Users, avatar[v] = h
          PROVE  avatar'[v] = h
      BY <1>4, <3>1, <3>3
    <3>4. ASSUME NEW s \in Requests, h \in {req[s].new, req[s].old}
          PROVE  \/ avatar'[u] = h
                 \/ h \in {req'[s].new, req'[s].old}
      BY <1>1, <1>4, <2>1, <3>1, <3>4
    <3> QED BY <3>2, <3>3, <3>4
  <2>3. NoFileLeft'
    BY <1>3, <2>2 DEF NoFileLeft
  <2>4. ASSUME overlapped' = {} /\ failed' = {}
        PROVE  Alone(q)'
    BY <1>3, <1>4, <1>5, <1>12, <2>4 DEF Alone
  <2>5. UpdatesAreAlone'
    BY <1>1, <1>2, <1>3, <1>4, <2>4, AloneKept
  <2> QED BY <2>3, <2>5
<1>14. IndexFollows'
  BY <1>3, <1>5, IndexSame
<1> QED BY <1>7, <1>8, <1>9, <1>10, <1>11, <1>13, <1>14 DEF IInv, DiskAgrees

(* The row of a profile names its new avatar. *)
LEMMA UpdateAvatarKeeps ==
    ASSUME IInv, NEW r \in Requests, UpdateAvatar(r)
    PROVE  IInv'
<1> PICK p \in Request : p = req[r] /\ Sound(p)
  BY AtRequest
<1>1. p.step = "avatar" /\ Busy(r) /\ Offers(p)
  BY DEF UpdateAvatar, Busy, Offers
<1>2. avatar' = [avatar EXCEPT ![p.user] = p.new] /\ UNCHANGED <<name, index, files, used, overlapped>>
  BY DEF UpdateAvatar
<1>3. CASE Refuse(r, "ErrDB") /\ Note(r)
  BY <1>1, <1>2, <1>3, AtRows, NotedKeeps DEF Refuse
<1>4. CASE p.op = "profile" /\ Goto(r, "row") /\ UNCHANGED failed
  <2> PICK q : q = [p EXCEPT !.step = "row"]
    OBVIOUS
  <2>1. Becomes(r, q)
    BY <1>4 DEF Becomes, Goto
  <2>2. /\ q \in Request /\ q.step = "row" /\ q.op = p.op /\ q.user = p.user
        /\ q.new = p.new /\ q.old = p.old
    BY GotoFacts DEF Steps
  <2> QED BY <1>1, <1>2, <1>4, <2>1, <2>2, NewAvatarKeeps DEF history
<1>5. CASE Answer(r, 200) /\ UNCHANGED failed
  <2> PICK q : q = NoRequest
    OBVIOUS
  <2>1. Becomes(r, q) /\ q \in Request
    BY <1>5, NoRequestFacts DEF Becomes, Answer
  <2> QED BY <1>1, <1>2, <1>5, <2>1, NewAvatarKeeps DEF history
<1> QED BY <1>3, <1>4, <1>5 DEF UpdateAvatar, Continue, Finish

(* The index is changed like the row. *)
LEMMA IndexProfileKeeps ==
    ASSUME IInv, NEW r \in Requests, IndexProfile(r)
    PROVE  IInv'
<1> PICK p \in Request, u \in Users \cup {NoUser} : p = req[r] /\ u = p.user /\ Sound(p)
  BY AtRequest, RequestFacts
<1>1. p.step = "index" /\ Busy(r) /\ u \in Users /\ p.name \in Names \cup {NoName}
  BY RequestFacts DEF IndexProfile, Busy, Sound
<1>2. name' = name /\ avatar' = avatar /\ UNCHANGED <<files, used, overlapped>>
  BY DEF IndexProfile, rows
<1>3. CASE index' = [index EXCEPT ![u] = p.name] /\ Refuse(r, "ErrDB") /\ Note(r)
  <2>1. /\ index' \in [Users -> Names \cup {NoName}]
        /\ \A v \in Users : v # u => index'[v] = index[v]
    BY <1>1, <1>3, AtRows
  <2> QED BY <1>1, <1>2, <1>3, <2>1, AtRows, NotedKeeps DEF Refuse
<1>4. CASE index' = index /\ Refuse(r, "ErrDB") /\ Note(r)
  BY <1>1, <1>2, <1>4, AtRows, NotedKeeps DEF Refuse
<1>5. CASE /\ p.op = "create" \/ index[u] # NoName
           /\ index' = [index EXCEPT ![u] = p.name] /\ Answer(r, 200) /\ UNCHANGED failed
  <2> PICK q : q = NoRequest
    OBVIOUS
  <2>1. /\ q \in Request /\ q.step = "idle" /\ q.new = NoFile /\ q.old = NoFile
        /\ Sound(q) /\ ~Offers(q)
    BY NoRequestFacts
  <2>2. Becomes(r, q)
    BY <1>5 DEF Becomes, Answer
  <2>3. /\ files' = files /\ used' = used /\ overlapped' = overlapped /\ failed' = failed
    BY <1>2, <1>5
  <2>4. /\ index' \in [Users -> Names \cup {NoName}] /\ index'[u] = p.name
        /\ \A v \in Users : v # u => index'[v] = index[v]
    BY <1>1, <1>5, AtRows
  <2>7. TypeOK'
    BY <1>2, <2>1, <2>2, <2>3, <2>4, BecomesFacts DEF IInv, DiskAgrees, TypeOK
  <2>8. RequestsAreSound'
    BY <2>1, <2>2, SoundKept
  <2>9. OverlapsAreNoted'
    BY <2>1, <2>2, <2>3, OverlapKept
  <2>10. FilesHaveOneOwner'
    BY <1>2, <2>1, <2>2, <2>3, OwnersKept
  <2>11. AvatarIsServed'
    BY <1>1, <1>2, <2>1, <2>2, <2>3, AtRows, ServedKept
  <2>12. NoFileLeft'
    <3>1. ASSUME overlapped' = {} /\ failed' = {}, NEW f \in {p.new, p.old} \cap files'
          PROVE  \E v \in Users : avatar[v] = f
      <4>1. Alone(p)
        BY <2>3, <3>1 DEF IInv, UpdatesAreAlone
      <4>2. p.old \notin files /\ p.new \in {NoFile, avatar[u]}
        BY <1>1, <4>1 DEF Alone
      <4> QED BY <1>1, <2>3, <3>1, <4>2, AtRows
    <3>2. files' \subseteq files \cup {q.new}
      BY <2>3
    <3> QED BY <1>2, <2>1, <2>2, <2>3, <3>1, <3>2, LeftKept
  <2>13. UpdatesAreAlone'
    <3>1. Alone(q)'
      BY <2>1 DEF Alone
    <3> QED BY <1>2, <2>1, <2>2, <2>3, <3>1, AloneKept
  <2>14. IndexFollows'
    <3>1. ASSUME u \notin overlapped' \cup failed'
          PROVE  Follows(u)'
      <4>1. Follows(u)
        BY <1>1, <2>3, <3>1 DEF IInv, IndexFollows, Follows
      <4>2. \A s \in Requests : req[s].user = u /\ req[s].step = "index" => s = r
        BY <1>1, <2>3, <3>1 DEF IInv, OverlapsAreNoted, Busy
      <4>3. p.name = name[u]
        BY <1>1, <1>5, <4>1, <4>2 DEF Follows
      <4>4. \A s \in Requests : req'[s].user = u => req'[s].step # "index"
        BY <2>1, <2>2, <4>2, BecomesFacts
      <4> QED BY <1>2, <2>4, <4>3, <4>4 DEF Follows
    <3> QED BY <1>1, <1>2, <2>1, <2>2, <2>3, <2>4, <3>1, IndexKept
  <2> QED BY <2>7, <2>8, <2>9, <2>10, <2>11, <2>12, <2>13, <2>14 DEF IInv, DiskAgrees
<1> QED BY <1>3, <1>4, <1>5 DEF IndexProfile, Finish

(* The avatar is taken out of the row. *)
LEMMA DeleteAvatarKeeps ==
    ASSUME IInv, NEW r \in Requests, DeleteAvatarByUserID(r)
    PROVE  IInv'
<1> PICK p \in Request, u \in Users \cup {NoUser} : p = req[r] /\ u = p.user /\ Sound(p)
  BY AtRequest, RequestFacts
<1>1. p.step = "clear" /\ Busy(r) /\ u \in Users /\ p.new = NoFile /\ p.old = NoFile
  BY DEF DeleteAvatarByUserID, Busy, Sound
<1>2. UNCHANGED <<name, index, files, used, overlapped>>
  BY DEF DeleteAvatarByUserID
<1>3. CASE Refuse(r, "ErrDB") /\ UNCHANGED <<avatar, failed>>
  BY <1>1, <1>2, <1>3, DoneKeeps DEF Refuse, rows, history
<1>4. CASE avatar' = [avatar EXCEPT ![u] = NoFile] /\ Refuse(r, "ErrDB") /\ Note(r)
  BY <1>1, <1>2, <1>4, AtRows, NotedKeeps DEF Refuse
<1>5. CASE /\ avatar' = [avatar EXCEPT ![u] = NoFile] /\ UNCHANGED failed
           /\ req' = [req EXCEPT ![r].step = "unlink", ![r].old = avatar[u]]
  <2>1. PICK f \in Files \cup {NoFile} : f = avatar[u]
    BY <1>1, AtRows
  <2> PICK q : q = [p EXCEPT !.step = "unlink", !.old = f]
    OBVIOUS
  <2>2. Becomes(r, q)
    BY <1>5, <2>1 DEF Becomes, IInv, DiskAgrees, TypeOK
  <2>3. /\ q \in Request /\ q.step = "unlink" /\ q.user = p.user /\ q.new = p.new /\ q.old = f
    BY DEF Request, Steps
  <2>4. Sound(q) /\ ~Offers(q)
    BY <1>1, <2>3 DEF Sound, Offers
  <2>5. /\ name' = name /\ index' = index /\ files' = files /\ used' = used
        /\ overlapped' = overlapped /\ failed' = failed
    BY <1>2, <1>5
  <2>6. /\ avatar' \in [Users -> Files \cup {NoFile}] /\ avatar'[u] = NoFile
        /\ \A v \in Users : v # u => avatar'[v] = avatar[v]
    BY <1>1, <1>5, AtRows
  <2>7. TypeOK'
    BY <2>2, <2>3, <2>5, <2>6, BecomesFacts DEF IInv, DiskAgrees, TypeOK
  <2>8. RequestsAreSound'
    BY <2>2, <2>3, <2>4, SoundKept
  <2>9. OverlapsAreNoted'
    BY <1>1, <2>2, <2>3, <2>5, OverlapKept
  <2>10. FilesHaveOneOwner'
    BY <1>1, <1>5, <2>1, <2>2, <2>3, <2>4, <2>5, OwnersChange
  <2>11. AvatarIsServed'
    <3>1. \A v \in Users : OnDisk(v)
      BY AtRows, ServedFacts DEF IInv, DiskAgrees
    <3>2. req'[r] = q /\ \A s \in Requests : s # r => req'[s] = req[s]
      BY <2>2, <2>3, BecomesFacts
    <3>3. ASSUME NEW v \in Users
          PROVE  OnDisk(v)'
      <4>1. CASE v = u
        BY <2>6, <4>1 DEF OnDisk
      <4>2. CASE v # u
        BY <1>1, <2>5, <2>6, <3>1, <3>2, <4>2 DEF OnDisk
      <4> QED BY <4>1, <4>2
    <3> QED BY <2>5, <3>3, AtRows, ServedFactsPrimed
  <2>12. NoFileLeft'
    <3>1. req'[r] = q /\ \A s \in Requests : s # r => req'[s] = req[s]
      BY <2>2, <2>3, BecomesFacts
    <3>2. ASSUME overlapped' = {} /\ failed' = {}, NEW h \in files
          PROVE  \/ \E v \in Users : avatar'[v] = h
                 \/ \E s \in Requests : h \in {req'[s].new, req'[s].old}
      <4>1. \/ \E v \in Users : avatar[v] = h
            \/ \E s \in Requests : h \in {req[s].new, req[s].old}
        BY <2>5, <3>2 DEF IInv, DiskAgrees, NoFileLeft
      <4>2. ASSUME NEW v \in Users, avatar[v] = h
            PROVE  avatar'[v] = h \/ req'[r].old = h
        BY <2>1, <2>3, <2>6, <3>1, <4>2
      <4>3. ASSUME NEW s \in Requests, h \in {req[s].new, req[s].old}
            PROVE  h \in {req'[s].new, req'[s].old}
        BY <1>1, <3>1, <4>3, AtRows
      <4> QED BY <4>1, <4>2, <4>3
    <3> QED BY <2>5, <3>2 DEF NoFileLeft
  <2>13. UpdatesAreAlone'
    <3>1. Alone(q)'
      BY <2>3 DEF Alone
    <3> QED BY <1>1, <2>2, <2>3, <2>5, <2>6, <3>1, AloneKept
  <2>14. IndexFollows'
    BY <1>1, <2>2, <2>3, <2>5, IndexSame
  <2> QED BY <2>7, <2>8, <2>9, <2>10, <2>11, <2>12, <2>13, <2>14 DEF IInv, DiskAgrees
<1> QED BY <1>3, <1>4, <1>5 DEF DeleteAvatarByUserID

(* And its file is deleted. *)
LEMMA DeleteFileKeeps ==
    ASSUME IInv, NEW r \in Requests, DeleteFile(r)
    PROVE  IInv'
<1> PICK p \in Request : p = req[r] /\ Sound(p)
  BY AtRequest
<1> PICK q : q = NoRequest
  OBVIOUS
<1>1. p.step = "unlink" /\ p.new = NoFile
  BY DEF DeleteFile, Sound
<1>2. /\ q \in Request /\ q.step = "idle" /\ q.new = NoFile /\ q.old = NoFile
      /\ Sound(q) /\ ~Offers(q)
  BY NoRequestFacts
<1>3. Becomes(r, q)
  BY DEF Becomes, DeleteFile, Answer
<1>4. /\ name' = name /\ avatar' = avatar /\ index' = index /\ used' = used
      /\ overlapped' = overlapped /\ failed' = failed /\ files' = files \ {p.old}
  BY DEF DeleteFile, rows, history
<1>7. TypeOK'
  BY <1>2, <1>3, <1>4, BecomesFacts DEF IInv, DiskAgrees, TypeOK
<1>8. RequestsAreSound'
  BY <1>2, <1>3, SoundKept
<1>9. OverlapsAreNoted'
  BY <1>2, <1>3, <1>4, OverlapKept
<1>10. FilesHaveOneOwner'
  <2>1. files' = files \/ \E f : files' = files \ {f} /\ f = req[r].old
    BY <1>4
  <2> QED BY <1>2, <1>3, <1>4, <2>1, OwnersKept
<1>11. AvatarIsServed'
  <2>1. \A u \in Users : avatar[u] # p.old \/ avatar[u] = NoFile
    BY <1>1 DEF IInv, FilesHaveOneOwner
  <2>2. \A u \in Users : ~(avatar[u] \in files /\ avatar[u] \notin files')
    BY <1>4, <2>1, AtRows
  <2>3. files' \subseteq Files /\ failed \subseteq failed'
    BY <1>4, AtRows
  <2> QED BY <1>1, <1>2, <1>3, <1>4, <2>2, <2>3, ServedKept
<1>12. NoFileLeft'
  <2>1. \A f \in {p.new, p.old} \cap files' : f \in {q.new, q.old}
    BY <1>1, <1>2, <1>4
  <2> QED BY <1>2, <1>3, <1>4, <2>1, LeftKept
<1>13. UpdatesAreAlone'
  <2>1. Alone(q)'
    BY <1>2 DEF Alone
  <2> QED BY <1>2, <1>3, <1>4, <2>1, AloneKept
<1>14. IndexFollows'
  BY <1>1, <1>2, <1>3, <1>4, IndexSame
<1> QED BY <1>7, <1>8, <1>9, <1>10, <1>11, <1>12, <1>13, <1>14 DEF IInv, DiskAgrees

-------------------------------------------------------------------------------
(* The induction. *)

(* The invariant holds when there is nothing. *)
LEMMA InitIInv == Init => IInv
<1> SUFFICES ASSUME Init
             PROVE  IInv
  OBVIOUS
<1>1. /\ name = [u \in Users |-> NoName] /\ avatar = [u \in Users |-> NoFile]
      /\ index = [u \in Users |-> NoName] /\ files = {} /\ used = {}
      /\ overlapped = {} /\ failed = {} /\ req = [r \in Requests |-> NoRequest]
  BY DEF Init
<1>2. \A r \in Requests : /\ req[r] = NoRequest /\ req[r].step = "idle"
                          /\ req[r].new = NoFile /\ req[r].old = NoFile
                          /\ Sound(req[r]) /\ ~Offers(req[r])
  BY <1>1, NoRequestFacts
<1>3. TypeOK
  BY <1>1, NoRequestFacts DEF TypeOK
<1>4. AvatarIsServed /\ NoFileLeft
  BY <1>1 DEF AvatarIsServed, NoFileLeft
<1>5. RequestsAreSound /\ OverlapsAreNoted /\ FilesHaveOneOwner
  BY <1>1, <1>2 DEF RequestsAreSound, OverlapsAreNoted, FilesHaveOneOwner, Busy
<1>6. UpdatesAreAlone /\ IndexFollows
  BY <1>1, <1>2 DEF UpdatesAreAlone, Alone, IndexFollows
<1> QED BY <1>3, <1>4, <1>5, <1>6 DEF IInv, DiskAgrees

(* A step that changes nothing keeps it. *)
LEMMA StutterKeeps == IInv /\ UNCHANGED vars => IInv'
<1> SUFFICES ASSUME IInv, UNCHANGED vars
             PROVE  IInv'
  OBVIOUS
<1>1. /\ name' = name /\ avatar' = avatar /\ index' = index /\ files' = files /\ req' = req
      /\ used' = used /\ overlapped' = overlapped /\ failed' = failed
  BY DEF vars, rows, history
<1>2. AvatarIsServed'
  <2>1. \A u \in Users : OnDisk(u)
    BY AtRows, ServedFacts DEF IInv, DiskAgrees
  <2>2. \A u \in Users : OnDisk(u)'
    BY <1>1, <2>1 DEF OnDisk
  <2> QED BY <1>1, <2>2, AtRows, ServedFactsPrimed
<1>3. TypeOK' /\ NoFileLeft'
  BY <1>1 DEF IInv, DiskAgrees, TypeOK, NoFileLeft
<1>4. RequestsAreSound' /\ OverlapsAreNoted' /\ FilesHaveOneOwner'
  BY <1>1 DEF IInv, RequestsAreSound, Sound, OverlapsAreNoted, Busy, FilesHaveOneOwner, Offers
<1>5. UpdatesAreAlone' /\ IndexFollows'
  BY <1>1 DEF IInv, UpdatesAreAlone, Alone, IndexFollows
<1> QED BY <1>2, <1>3, <1>4, <1>5 DEF IInv, DiskAgrees

(* Every step keeps it. *)
LEMMA NextKeeps == IInv /\ [Next]_vars => IInv'
<1> SUFFICES ASSUME IInv, [Next]_vars
             PROVE  IInv'
  OBVIOUS
<1>1. CASE UNCHANGED vars
  BY <1>1, StutterKeeps
<1>2. CASE Crash
  BY <1>2, CrashKeeps
<1>3. ASSUME NEW r \in Requests, Receive(r) \/ Fail(r)
      PROVE  IInv'
  BY <1>3, ReceiveKeeps, FailKeeps
<1>4. ASSUME NEW r \in Requests, Step(r)
      PROVE  IInv'
  <2>1. CASE CheckInput(r)
    BY <2>1, CheckInputKeeps
  <2>2. CASE CreateProfile(r)
    BY <2>2, CreateProfileKeeps
  <2>3. CASE GetAvatarByUserID(r)
    BY <2>3, GetAvatarKeeps
  <2>4. CASE UploadFile(r)
    BY <2>4, UploadFileKeeps
  <2>5. CASE HandleFileUpload(r)
    BY <2>5, RemoveKeeps
  <2>6. CASE UpdateAvatar(r)
    BY <2>6, UpdateAvatarKeeps
  <2>7. CASE UpdateProfile(r)
    BY <2>7, UpdateProfileKeeps
  <2>8. CASE IndexProfile(r)
    BY <2>8, IndexProfileKeeps
  <2>9. CASE DeleteAvatarByUserID(r)
    BY <2>9, DeleteAvatarKeeps
  <2>10. CASE DeleteFile(r)
    BY <2>10, DeleteFileKeeps
  <2> QED BY <1>4, <2>1, <2>2, <2>3, <2>4, <2>5, <2>6, <2>7, <2>8, <2>9, <2>10 DEF Step
<1> QED BY <1>1, <1>2, <1>3, <1>4 DEF Next

(* So it always holds. *)
LEMMA Invariance == Spec => []IInv
  BY InitIInv, NextKeeps, PTL DEF Spec

-------------------------------------------------------------------------------
(* What the lists show. *)

(* A profile comes out of a message as it went in, also without an avatar. *)
LEMMA MessagesKeepProfiles ==
    ASSUME NEW u \in Users
    PROVE  /\ FromProtoProfile(ToProtoProfile(Profile(u))) = Profile(u)
           /\ FromProtoShortProfile(ToProtoShortProfile(Profile(u))) = Profile(u)
<1>1. \A f : f # NoFile => (CHOOSE g \in {f} : TRUE) = f
  OBVIOUS
<1>2. \A f : f # NoFile => {f} # {}
  OBVIOUS
<1> QED BY <1>1, <1>2 DEF FromProtoProfile, ToProtoProfile, FromProtoShortProfile,
      ToProtoShortProfile, Profile

(* The page of a profile: the profile if there is a row, else not found.   *)
LEMMA PageFacts ==
    ASSUME NEW u \in Users
    PROVE  /\ HasRow(u) => /\ GetProfileByUserIDHandler(u).code = 200
                           /\ GetProfileByUserIDHandler(u).profile = Profile(u)
           /\ ~HasRow(u) => GetProfileByUserIDHandler(u).code # 200
<1>1. CASE HasRow(u)
  <2>1. GrpcGetProfileByUserID(u) = [status |-> "OK", profile |-> ToProtoProfile(Profile(u))]
    BY <1>1 DEF GrpcGetProfileByUserID, GetProfileByUserID
  <2> QED BY <1>1, <2>1, MessagesKeepProfiles DEF GetProfileByUserIDHandler
<1>2. CASE ~HasRow(u)
  <2>1. GrpcGetProfileByUserID(u).status = "NotFound"
    BY <1>2 DEF GrpcGetProfileByUserID, GetProfileByUserID, Ok, ToGrpcError
  <2>2. MapErrorToHTTP(FromGrpcError("NotFound")) = 404
    BY DEF MapErrorToHTTP, FromGrpcError
  <2> QED BY <1>2, <2>1, <2>2 DEF GetProfileByUserIDHandler
<1> QED BY <1>1, <1>2

(* A status that is not OK is none of a list. *)
LEMMA ListStatus ==
    ASSUME NEW profiles, NEW s \in Served(profiles)
    PROVE  \/ s.err = Ok /\ s.profiles = profiles
           \/ s.err # Ok /\ ToGrpcError(s.err) # "OK"
  BY DEF Served, Ok, ToGrpcError

(* And so do lists of profiles. *)
LEMMA SlicesKeepProfiles ==
    ASSUME NEW S \in SUBSET Users
    PROVE  /\ FromProtoShortProfileSlice(ToProtoShortProfileSlice({Profile(v) : v \in S}))
                = {Profile(v) : v \in S}
           /\ FromProtoOtherShortProfileSlice(ToProtoOtherShortProfileSlice({Profile(v) : v \in S}))
                = {Profile(v) : v \in S}
<1> DEFINE back == {FromProtoShortProfile(m) : m \in {ToProtoShortProfile(p) : p \in {Profile(v) : v \in S}}}
<1>1. \A v \in S : FromProtoShortProfile(ToProtoShortProfile(Profile(v))) = Profile(v)
  BY MessagesKeepProfiles
<1>2. back = {Profile(v) : v \in S}
  BY <1>1
<1> QED BY <1>2 DEF FromProtoShortProfileSlice, ToProtoShortProfileSlice,
      FromProtoOtherShortProfileSlice, ToProtoOtherShortProfileSlice

(* What a user's page shows, as a set. *)
Mine(u) == {Profile(v) : v \in {w \in {u} : HasRow(w)}}

LEMMA MineFacts ==
    ASSUME NEW u \in Users
    PROVE  Mine(u) = IF GetProfileByUserIDHandler(u).code = 200
                       THEN {GetProfileByUserIDHandler(u).profile} ELSE {}
  BY PageFacts DEF Mine

(* The three lists show of a user what the page does. *)
LEMMA ListsShowPages ==
    ASSUME NEW u \in Users
    PROVE  /\ \A resp \in GrpcGetShortProfileByUserIDs({u}) :
                 resp.status = "OK" => FromProtoShortProfileSlice(resp.profiles) = Mine(u)
           /\ \A resp \in GrpcGetShortProfileMapByUserIDs(Users) :
                 resp.status = "OK" =>
                    LET map == FromProtoShortProfileMap(resp.profiles)
                    IN  {map[v] : v \in {u} \cap DOMAIN map} = Mine(u)
           /\ \A resp \in GrpcGetOtherShortProfileByUserIDs({NoUser} \cup (Users \ {u})) :
                 resp.status = "OK" => FromProtoOtherShortProfileSlice(resp.profiles) = Mine(u)
<1>1. ASSUME NEW resp \in GrpcGetShortProfileByUserIDs({u}), resp.status = "OK"
      PROVE  FromProtoShortProfileSlice(resp.profiles) = Mine(u)
  <2>1. PICK s \in ShortProfileByUserIDs({u}) :
          resp = IF s.err = Ok
                   THEN [status |-> "OK", profiles |-> ToProtoShortProfileSlice(s.profiles)]
                 ELSE [status |-> ToGrpcError(s.err)]
    BY DEF GrpcGetShortProfileByUserIDs
  <2>2. s \in Served(Mine(u))
    BY DEF ShortProfileByUserIDs, GetShortProfileByUserIDs, Mine
  <2>3. s.err = Ok /\ s.profiles = Mine(u)
    BY <1>1, <2>1, <2>2, ListStatus
  <2>4. resp.profiles = ToProtoShortProfileSlice(Mine(u))
    BY <2>1, <2>3
  <2> QED BY <2>4, SlicesKeepProfiles DEF Mine
<1>2. ASSUME NEW resp \in GrpcGetOtherShortProfileByUserIDs({NoUser} \cup (Users \ {u})),
             resp.status = "OK"
      PROVE  FromProtoOtherShortProfileSlice(resp.profiles) = Mine(u)
  <2>1. PICK s \in OtherShortProfileByUserIDs({NoUser} \cup (Users \ {u})) :
          resp = IF s.err = Ok
                   THEN [status |-> "OK", profiles |-> ToProtoOtherShortProfileSlice(s.profiles)]
                 ELSE [status |-> ToGrpcError(s.err)]
    BY DEF GrpcGetOtherShortProfileByUserIDs
  <2>2. Users \ ({NoUser} \cup (Users \ {u})) = {u} /\ {NoUser} \cup (Users \ {u}) # {}
    BY NullAssumption
  <2>3. s \in Served(Mine(u))
    BY <2>2 DEF OtherShortProfileByUserIDs, GetOtherShortProfileByUserIDs,
         GetShortProfileByUserIDs, Mine
  <2>4. s.err = Ok /\ s.profiles = Mine(u)
    BY <1>2, <2>1, <2>3, ListStatus
  <2>5. resp.profiles = ToProtoOtherShortProfileSlice(Mine(u))
    BY <2>1, <2>4
  <2> QED BY <2>5, SlicesKeepProfiles DEF Mine
<1>3. ASSUME NEW resp \in GrpcGetShortProfileMapByUserIDs(Users), resp.status = "OK",
             NEW map, map = FromProtoShortProfileMap(resp.profiles)
      PROVE  {map[v] : v \in {u} \cap DOMAIN map} = Mine(u)
  <2>1. PICK s \in ShortProfileMapByUserIDs(Users) :
          resp = IF s.err = Ok
                   THEN [status |-> "OK", profiles |-> ToProtoShortProfileMap(s.profiles)]
                 ELSE [status |-> ToGrpcError(s.err)]
    BY DEF GrpcGetShortProfileMapByUserIDs
  <2>2. s.err = Ok /\ s.profiles = GetShortProfileMapByUserIDs(Users)
    BY <1>3, <2>1, ListStatus DEF ShortProfileMapByUserIDs
  <2>3. resp.profiles = ToProtoShortProfileMap(GetShortProfileMapByUserIDs(Users))
    BY <2>1, <2>2
  <2>4. /\ DOMAIN map = {v \in Users : HasRow(v)}
        /\ \A v \in DOMAIN map :
              map[v] = FromProtoShortProfile(ToProtoShortProfile(Profile(v)))
    BY <1>3, <2>3 DEF FromProtoShortProfileMap, ToProtoShortProfileMap,
         GetShortProfileMapByUserIDs
  <2>5. \A v \in DOMAIN map : map[v] = Profile(v)
    BY <2>4, MessagesKeepProfiles
  <2> QED BY <2>4, <2>5 DEF Mine
<1> QED BY <1>1, <1>2, <1>3

(* What the index holds of a user none of whose requests is running is     *)
(* the name its page shows.                                                *)
LEMMA SearchFinds ==
    ASSUME IInv, NEW u \in Users, u \notin overlapped \cup failed, ~BusyWith(u), NEW n \in Names
    PROVE  index[u] = n <=> /\ GetProfileByUserIDHandler(u).code = 200
                            /\ GetProfileByUserIDHandler(u).profile.name = n
<1>1. \A r \in Requests : req[r].user = u => req[r].step # "index"
  BY DEF BusyWith, Busy
<1>2. index[u] = name[u]
  BY <1>1 DEF IInv, IndexFollows
<1>3. Profile(u).name = name[u] /\ (HasRow(u) <=> name[u] # NoName) /\ n # NoName
  BY NullAssumption DEF Profile, HasRow
<1> QED BY <1>2, <1>3, PageFacts

(* The page, the lists and the search agree in every state of the          *)
(* invariant.                                                              *)
LEMMA NamesAgree == IInv => FoundByName
<1> SUFFICES ASSUME IInv, NEW u \in Users
             PROVE  LET page == GetProfileByUserIDHandler(u)
                        mine == IF page.code = 200 THEN {page.profile} ELSE {}
                        others == {NoUser} \cup (Users \ {u})
                    IN  /\ \A resp \in GrpcGetShortProfileByUserIDs({u}) :
                              resp.status = "OK" => FromProtoShortProfileSlice(resp.profiles) = mine
                        /\ \A resp \in GrpcGetShortProfileMapByUserIDs(Users) :
                              resp.status = "OK" =>
                                 LET map == FromProtoShortProfileMap(resp.profiles)
                                 IN  {map[v] : v \in {u} \cap DOMAIN map} = mine
                        /\ \A resp \in GrpcGetOtherShortProfileByUserIDs(others) :
                              resp.status = "OK" => FromProtoOtherShortProfileSlice(resp.profiles) = mine
                        /\ u \notin overlapped \cup failed /\ ~BusyWith(u) =>
                              \A n \in Names :
                                 u \in SearchUserIDsByFullNameWithFilter(n, {u}, TRUE)
                                   <=> page.code = 200 /\ page.profile.name = n
  BY DEF FoundByName
<1> DEFINE page == GetProfileByUserIDHandler(u)
           mine == IF page.code = 200 THEN {page.profile} ELSE {}
           others == {NoUser} \cup (Users \ {u})
<1>1. Mine(u) = mine
  BY MineFacts, Zenon
<1>2. \A resp \in GrpcGetShortProfileByUserIDs({u}) :
        resp.status = "OK" => FromProtoShortProfileSlice(resp.profiles) = mine
  <2> HIDE DEF mine
  <2> QED BY <1>1, ListsShowPages
<1>3. \A resp \in GrpcGetShortProfileMapByUserIDs(Users) :
        resp.status = "OK" =>
           LET map == FromProtoShortProfileMap(resp.profiles)
           IN  {map[v] : v \in {u} \cap DOMAIN map} = mine
  <2> HIDE DEF mine
  <2> QED BY <1>1, ListsShowPages, Zenon
<1>4. \A resp \in GrpcGetOtherShortProfileByUserIDs(others) :
        resp.status = "OK" => FromProtoOtherShortProfileSlice(resp.profiles) = mine
  <2> HIDE DEF mine
  <2> QED BY <1>1, ListsShowPages
<1>5. u \notin overlapped \cup failed /\ ~BusyWith(u) =>
        \A n \in Names :
           u \in SearchUserIDsByFullNameWithFilter(n, {u}, TRUE)
             <=> page.code = 200 /\ page.profile.name = n
  <2>1. ASSUME u \notin overlapped \cup failed, ~BusyWith(u), NEW n \in Names
        PROVE  index[u] = n <=> page.code = 200 /\ page.profile.name = n
    BY <2>1, IInv, SearchFinds
  <2> HIDE DEF page
  <2> QED BY <2>1 DEF SearchUserIDsByFullNameWithFilter
<1> QED BY <1>2, <1>3, <1>4, <1>5, Zenon

(* However the requests of a user overlap, fail half-way or die with the   *)
(* process, the avatar a profile names is served, but for the window in    *)
(* which an update has deleted it before the row names the next one; and   *)
(* if none ever overlapped or failed, no file is left behind               *)
(* (service/profile.go, service/upload.go).                                *)
THEOREM AvatarsAreKept == Spec => []DiskAgrees
<1>1. IInv => DiskAgrees
  BY DEF IInv
<1> QED BY <1>1, Invariance, PTL

(* The page of a profile, the lists and the search show the same of a user *)
(* (grpc/profile.go, repository/dbElastic/profile.go).                     *)
THEOREM ProfilesAreFound == Spec => []FoundByName
  BY Invariance, NamesAgree, PTL

===============================================================================
