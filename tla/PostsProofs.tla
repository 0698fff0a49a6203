------------------------------ MODULE PostsProofs ------------------------------
(***************************************************************************)
(* Proofs about the posts and their files (module Posts): the posts and    *)
(* the disk agree (DiskAgrees), likes are toggled (LikesAreToggled), only  *)
(* its creator posts in the community (CommunityPostsByCreator), and what  *)
(* was posted is shown (PostsAreShown, module PostViews).                  *)
(*                                                                         *)
(* A request deletes files it has read of a row, or written itself, some   *)
(* steps ago.  That this takes no file away from anybody rests on          *)
(* FilesHaveOneOwner: what a request holds belongs to no post but the one  *)
(* it changes.  A step of a request is therefore shown to touch nothing    *)
(* but its own (Alone, KeepsItsOwn), once for all steps (StepKeeps).       *)
(***************************************************************************)
EXTENDS PostViews, PaginationProofs, TLAPS

(* Media, and the lists of files in them. *)
LEMMA MediaFacts ==
    ASSUME NEW m \in Media, NEW k \in Kinds
    PROVE  m[k] \in Seq(1..MaxFiles)
  BY DEF Media

(* The files of media are those of both kinds. *)
LEMMA FilesOfFacts ==
    ASSUME NEW m
    PROVE  /\ FilesOf(m) = ToSet(m["attachments"]) \cup ToSet(m["photos"])
           /\ \A k \in Kinds : ToSet(m[k]) \subseteq FilesOf(m)
  BY DEF FilesOf, Kinds

(* No media. *)
LEMMA NoMediaFacts ==
    /\ NoMedia \in Media /\ FilesOf(NoMedia) = {} /\ Distinct(NoMedia)
    /\ \A k \in Kinds : NoMedia[k] = <<>>
<1>1. \A k \in Kinds : NoMedia[k] = <<>>
  BY DEF NoMedia
<1>2. ToSet(<<>>) = {}
  BY DEF ToSet
<1>3. <<>> \in Seq(1..MaxFiles)
  OBVIOUS
<1>4. NoMedia \in Media
  BY <1>3 DEF NoMedia, Media
<1> QED BY <1>1, <1>2, <1>4, FilesOfFacts DEF Distinct, Kinds

(* The files of a list from a place on. *)
LEMMA SubSeqFacts ==
    ASSUME NEW s \in Seq(1..MaxFiles), NEW i \in Nat
    PROVE  /\ ToSet(SubSeq(s, i + 1, Len(s))) \subseteq ToSet(s)
           /\ i = Len(s) => ToSet(SubSeq(s, i + 1, Len(s))) = {}
<1>1. ToSet(SubSeq(s, i + 1, Len(s))) \subseteq ToSet(s)
  BY PostsAssumption DEF ToSet
<1>2. ASSUME i = Len(s) PROVE ToSet(SubSeq(s, i + 1, Len(s))) = {}
  <2>1. SubSeq(s, Len(s) + 1, Len(s)) = <<>>
    OBVIOUS
  <2> QED BY <1>2, <2>1 DEF ToSet
<1> QED BY <1>1, <1>2

(* The names of new files are new. *)
LEMMA NewFilesFacts ==
    ASSUME NEW n \in Nat, used \in Nat, used + n <= MaxFiles
    PROVE  NewFiles(n) \in Seq(1..MaxFiles) /\ ToSet(NewFiles(n)) = used + 1..used + n
<1>1. \A i \in 1..n : used + i \in 1..MaxFiles
  BY PostsAssumption
<1>2. NewFiles(n) \in Seq(1..MaxFiles)
  BY <1>1 DEF NewFiles
<1>3. ToSet(NewFiles(n)) = used + 1..used + n
  BY DEF ToSet, NewFiles
<1> QED BY <1>2, <1>3

-------------------------------------------------------------------------------
(* What every step keeps. *)

(* The post a request changes. *)
Mine(p, r) == Changes(req[r]) /\ req[r].id = p

(* The post p is one that a step of r has written: with files of its own. *)
Writes(r, p) ==
    /\ \/ p \in DOMAIN posts /\ Mine(p, r)
       \/ p = created + 1 /\ req[r].op = "create" /\ Holds(r)' = {}
    /\ FilesOf(posts'[p].media) \subseteq Holds(r)
    /\ Clear(p)' => Distinct(posts'[p].media)

(* A step of r writes and deletes no files and posts but its own, and no   *)
(* history gets lost.                                                      *)
Alone(r) ==
    /\ \A s \in Requests \ {r} : req'[s] = req[s]
    /\ created <= created' /\ used <= used'
    /\ overlapped \subseteq overlapped' /\ unsure \subseteq unsure' /\ (cut => cut')
    /\ \A f \in files : f \notin files' => f \in Holds(r)
    /\ \A p \in DOMAIN posts' : (p \in DOMAIN posts /\ posts'[p] = posts[p]) \/ Writes(r, p)
    /\ \A p \in DOMAIN posts : p \notin DOMAIN posts' => Mine(p, r)

(* The request stays what it is, and what it gets hold of is new or that   *)
(* of its post.                                                            *)
KeepsItsOwn(r) ==
    \/ Holds(r)' = {}
    \/ /\ req'[r].op = req[r].op /\ req'[r].id = req[r].id
       /\ \A f \in Holds(r)' :
             \/ f \in Holds(r)
             \/ f \in (used + 1)..used'
             \/ \E p \in DOMAIN posts : Mine(p, r) /\ f \in FilesOf(posts[p].media)

(* Histories only grow. *)
LEMMA ClearFacts ==
    ASSUME overlapped \subseteq overlapped', unsure \subseteq unsure', cut => cut'
    PROVE  (\A p : Clear(p)' => Clear(p)) /\ (Quiet' => Quiet)
  BY DEF Clear, Quiet

(* A request that waits keeps what is said of it. *)
LEMMA OthersKeep ==
    ASSUME IInv, TypeOK', NEW r \in Requests, Alone(r), NEW s \in Requests, s # r
    PROVE  RequestOK(s)' /\ KnowsThePost(s)'
<1>q. PICK q : q = req[s]
  OBVIOUS
<1>1. req[s] = q /\ req'[s] = q /\ RequestOK(s) /\ KnowsThePost(s)
  BY <1>q DEF IInv, Alone
<1>2. /\ created \in Nat /\ created' \in Nat /\ created <= created' /\ DOMAIN posts \subseteq 1..created
  BY DEF IInv, DiskAgrees, TypeOK, Alone
<1>3. Changes(q) => q.id \in 1..created
  BY <1>1 DEF RequestOK, Changes, StepsOf, NoRequest
<1>4. Changes(q) /\ Mine(q.id, r) => q.id \in overlapped /\ q.id \in overlapped'
  BY <1>1 DEF IInv, OverlapsAreNoted, Mine, Alone
<1>5. ASSUME Changes(q), q.id \in DOMAIN posts'
      PROVE  (q.id \in DOMAIN posts /\ posts'[q.id] = posts[q.id]) \/ Mine(q.id, r)
  <2>1. q.id # created + 1
    BY <1>2, <1>3, <1>5
  <2> QED BY <1>5, <2>1 DEF Alone, Writes
<1>6. (\A p : Clear(p)' => Clear(p)) /\ (Quiet' => Quiet)
  BY ClearFacts DEF Alone
<1>7. RequestOK(s)'
  <2>1. q.op = "delete" /\ q.step = "unlink" => q.id \notin DOMAIN posts'
    <3> SUFFICES ASSUME q.op = "delete", q.step = "unlink", q.id \in DOMAIN posts' PROVE FALSE
      OBVIOUS
    <3>1. Changes(q) /\ q.id \notin DOMAIN posts
      BY <1>1 DEF Changes, RequestOK
    <3>2. q.id # created + 1
      BY <1>2, <1>3, <3>1
    <3> QED BY <3>1, <3>2 DEF Alone, Writes
  <2>2. q.id \in 1..created => q.id \in 1..created'
    BY <1>2
  <2> QED BY <1>1, <2>1, <2>2 DEF RequestOK
<1>8. ASSUME Changes(q), Clear(q.id)', q.id \in DOMAIN posts'
      PROVE  /\ q.step = "album" => q.old["attachments"] = posts'[q.id].media["attachments"]
             /\ q.step \in {"attachments", "photos", "write"} => q.old = posts'[q.id].media
             /\ q.step = "unlink" => q.new = posts'[q.id].media
  <2>1. Clear(q.id) /\ q.id \notin overlapped
    BY <1>6, <1>8 DEF Clear
  <2>2. q.id \in DOMAIN posts /\ posts'[q.id] = posts[q.id]
    BY <1>4, <1>5, <1>8, <2>1
  <2> QED BY <1>1, <1>8, <2>1, <2>2 DEF KnowsThePost
<1>9. ASSUME Changes(q), Quiet', q.id \notin DOMAIN posts'
      PROVE  /\ q.step \in {"album", "attachments", "photos", "write"} => q.old = NoMedia
             /\ q.step = "unlink" /\ q.op = "update" => q.new = NoMedia
  <2>1. Quiet /\ q.id \notin overlapped
    BY <1>6, <1>9 DEF Quiet
  <2>2. q.id \notin DOMAIN posts
    BY <1>4, <1>9, <2>1 DEF Alone
  <2> QED BY <1>1, <1>9, <2>1, <2>2 DEF KnowsThePost
<1>10. ASSUME q.op = "create" \/ (q.op = "update" /\ Clear(q.id)' /\ q.step # "unlink"),
              NEW k \in Kinds, Uploaded(q, k), NEW f \in ToSet(q.new[k])
       PROVE  f \in files'
  <2>1. f \in files
    BY <1>1, <1>6, <1>10 DEF KnowsThePost
  <2>2. f \in Holds(s)
    BY <1>1, <1>10, FilesOfFacts DEF Holds
  <2>3. ASSUME f \in Holds(r) PROVE FALSE
    <3>1. Changes(q) /\ Mine(q.id, r)
      BY <1>1, <2>2, <2>3 DEF IInv, FilesHaveOneOwner, Mine
    <3>2. q.id \in overlapped'
      BY <1>4, <3>1
    <3> QED BY <1>10, <3>1, <3>2 DEF Changes, Clear
  <2> QED BY <2>1, <2>3 DEF Alone
<1>11. KnowsThePost(s)'
  <2>1. \A k \in Kinds : q.op = "create" \/ (q.op = "update" /\ Clear(q.id)' /\ q.step # "unlink") =>
            (Uploaded(q, k) => ToSet(q.new[k]) \subseteq files')
    BY <1>10
  <2>2. q.op = "create" \/ (Changes(q) /\ Clear(q.id)') => Distinct(q.old) /\ Distinct(q.new)
    BY <1>1, <1>6 DEF KnowsThePost
  <2> QED BY <1>1, <1>8, <1>9, <2>1, <2>2 DEF KnowsThePost
<1> QED BY <1>7, <1>11

(* Files go on having one owner. *)
LEMMA OwnersKept ==
    ASSUME IInv, TypeOK', NEW r \in Requests, Alone(r), KeepsItsOwn(r), Holds(r)' \subseteq 1..used'
    PROVE  FilesHaveOneOwner'
<1>1. /\ created \in Nat /\ used \in Nat /\ used' \in Nat /\ used <= used'
      /\ DOMAIN posts \subseteq 1..created
  BY DEF IInv, DiskAgrees, TypeOK, Alone
<1>2. \A s \in Requests : s # r => req'[s] = req[s] /\ Holds(s)' = Holds(s)
  BY DEF Alone, Holds
<1>3. FilesHaveOneOwner
  BY DEF IInv
<1>4. \A f \in 1..used : f \in 1..used'
  BY <1>1
<1>5. \A f \in (used + 1)..used' : f \notin 1..used
  BY <1>1
<1>6. ASSUME NEW p \in DOMAIN posts'
      PROVE  \/ p \in DOMAIN posts /\ posts'[p] = posts[p]
             \/ Writes(r, p)
  BY DEF Alone
<1>7. ASSUME NEW p \in DOMAIN posts'
      PROVE  /\ FilesOf(posts'[p].media) \subseteq 1..used'
             /\ Clear(p)' => Distinct(posts'[p].media)
  <2>1. Clear(p)' => Clear(p)
    BY ClearFacts DEF Alone
  <2> QED BY <1>3, <1>4, <1>6, <2>1 DEF FilesHaveOneOwner, Writes
<1>8. ASSUME NEW s \in Requests PROVE Holds(s)' \subseteq 1..used'
  BY <1>2, <1>3, <1>4 DEF FilesHaveOneOwner
<1>9. ASSUME NEW p \in DOMAIN posts', NEW o \in DOMAIN posts', NEW f \in FilesOf(posts'[p].media),
             f \in FilesOf(posts'[o].media), posts'[o] = posts[o], o \in DOMAIN posts
      PROVE  p = o
  <2>1. CASE p \in DOMAIN posts /\ posts'[p] = posts[p]
    BY <1>3, <1>9, <2>1 DEF FilesHaveOneOwner
  <2>2. CASE Writes(r, p)
    <3>1. f \in Holds(r) /\ f \in FilesOf(posts[o].media)
      BY <1>9, <2>2 DEF Writes
    <3>2. Changes(req[r]) /\ req[r].id = o
      BY <1>3, <1>9, <3>1 DEF FilesHaveOneOwner
    <3> QED BY <2>2, <3>2 DEF Writes, Mine, Changes
  <2> QED BY <1>6, <2>1, <2>2
<1>10. ASSUME NEW p \in DOMAIN posts', NEW o \in DOMAIN posts', Writes(r, p), Writes(r, o)
       PROVE  p = o
  BY <1>10 DEF Writes, Mine, Changes
<1>11. ASSUME NEW p \in DOMAIN posts', NEW o \in DOMAIN posts', NEW f \in FilesOf(posts'[p].media),
              f \in FilesOf(posts'[o].media)
       PROVE  p = o
  <2>1. CASE o \in DOMAIN posts /\ posts'[o] = posts[o]
    BY <1>9, <1>11, <2>1
  <2>2. CASE p \in DOMAIN posts /\ posts'[p] = posts[p]
    BY <1>9, <1>11, <2>2
  <2>3. CASE Writes(r, p) /\ Writes(r, o)
    BY <1>10, <2>3
  <2> QED BY <1>6, <2>1, <2>2, <2>3
<1>12. ASSUME NEW s \in Requests, s # r, NEW p \in DOMAIN posts', NEW f \in Holds(s),
              f \in FilesOf(posts'[p].media)
       PROVE  Changes(req[s]) /\ req[s].id = p
  <2>1. CASE p \in DOMAIN posts /\ posts'[p] = posts[p]
    BY <1>3, <1>12, <2>1 DEF FilesHaveOneOwner
  <2>2. CASE Writes(r, p)
    <3>1. f \in Holds(r)
      BY <1>12, <2>2 DEF Writes
    <3>2. Changes(req[r]) /\ Changes(req[s]) /\ req[r].id = req[s].id
      BY <1>3, <1>12, <3>1 DEF FilesHaveOneOwner
    <3> QED BY <2>2, <3>2 DEF Writes, Mine, Changes
  <2> QED BY <1>6, <2>1, <2>2
<1>13. ASSUME NEW p \in DOMAIN posts', NEW f \in Holds(r)', f \in FilesOf(posts'[p].media)
       PROVE  Changes(req'[r]) /\ req'[r].id = p
  <2>1. req'[r].op = req[r].op /\ req'[r].id = req[r].id
    BY <1>13 DEF KeepsItsOwn
  <2>2. SUFFICES Mine(p, r)
    BY <2>1 DEF Mine, Changes
  <2>3. CASE p \in DOMAIN posts /\ posts'[p] = posts[p]
    <3>1. CASE f \in Holds(r)
      BY <1>3, <1>13, <2>3, <3>1 DEF FilesHaveOneOwner, Mine
    <3>2. CASE f \in (used + 1)..used'
      BY <1>3, <1>5, <1>13, <2>3, <3>2 DEF FilesHaveOneOwner
    <3>3. CASE \E o \in DOMAIN posts : Mine(o, r) /\ f \in FilesOf(posts[o].media)
      BY <1>3, <1>13, <2>3, <3>3 DEF FilesHaveOneOwner
    <3> QED BY <1>13, <3>1, <3>2, <3>3 DEF KeepsItsOwn
  <2>4. CASE Writes(r, p)
    BY <1>13, <2>4 DEF Writes
  <2> QED BY <1>6, <2>3, <2>4
<1>14. ASSUME NEW s \in Requests, s # r, NEW f \in Holds(s), f \in Holds(r)'
       PROVE  Changes(req'[r]) /\ Changes(req[s]) /\ req'[r].id = req[s].id
  <2>1. req'[r].op = req[r].op /\ req'[r].id = req[r].id
    BY <1>14 DEF KeepsItsOwn
  <2>2. SUFFICES Changes(req[r]) /\ Changes(req[s]) /\ req[r].id = req[s].id
    BY <2>1 DEF Changes
  <2>3. CASE f \in Holds(r)
    BY <1>3, <1>14, <2>3 DEF FilesHaveOneOwner
  <2>4. CASE f \in (used + 1)..used'
    BY <1>3, <1>5, <1>14, <2>4 DEF FilesHaveOneOwner
  <2>5. CASE \E o \in DOMAIN posts : Mine(o, r) /\ f \in FilesOf(posts[o].media)
    BY <1>3, <1>14, <2>5 DEF FilesHaveOneOwner, Mine
  <2> QED BY <1>14, <2>3, <2>4, <2>5 DEF KeepsItsOwn
<1>15. \A s \in Requests, p \in DOMAIN posts' : \A f \in Holds(s)' :
          f \in FilesOf(posts'[p].media) => Changes(req'[s]) /\ req'[s].id = p
  BY <1>2, <1>12, <1>13
<1>16. \A s, t \in Requests : \A f \in Holds(s)' :
          f \in Holds(t)' /\ s # t => Changes(req'[s]) /\ Changes(req'[t]) /\ req'[s].id = req'[t].id
  <2> SUFFICES ASSUME NEW s \in Requests, NEW t \in Requests, NEW f \in Holds(s)',
                      f \in Holds(t)', s # t
               PROVE  Changes(req'[s]) /\ Changes(req'[t]) /\ req'[s].id = req'[t].id
    OBVIOUS
  <2>1. CASE s # r /\ t # r
    BY <1>2, <1>3, <2>1 DEF FilesHaveOneOwner
  <2>2. CASE s = r
    BY <1>2, <1>14, <2>2
  <2>3. CASE t = r
    BY <1>2, <1>14, <2>3
  <2> QED BY <2>1, <2>2, <2>3
<1> QED BY <1>7, <1>8, <1>11, <1>15, <1>16 DEF FilesHaveOneOwner

(* What a step of one request has to show for the invariant. *)
LEMMA StepKeeps ==
    ASSUME IInv, TypeOK', NEW r \in Requests, Alone(r), KeepsItsOwn(r), Holds(r)' \subseteq 1..used',
           RequestOK(r)', KnowsThePost(r)', OverlapsAreNoted',
           LikesAreToggled', CommunityPostsByCreator',
           \A p \in DOMAIN posts' : Clear(p)' /\ (Mine(p, r) \/ p \notin DOMAIN posts) =>
               FilesOf(posts'[p].media) \subseteq files',
           Quiet' => \A f \in files' :
               \/ f \in Holds(r)
               \/ f \notin files
               \/ \E p \in DOMAIN posts : Mine(p, r) /\ f \in FilesOf(posts[p].media)
               => \/ f \in Holds(r)'
                  \/ \E p \in DOMAIN posts' : f \in FilesOf(posts'[p].media)
    PROVE  IInv'
<1>1. \A s \in Requests : RequestOK(s)' /\ KnowsThePost(s)'
  BY OthersKeep
<1>2. FilesHaveOneOwner'
  BY OwnersKept
<1>3. (\A p : Clear(p)' => Clear(p)) /\ (Quiet' => Quiet)
  BY ClearFacts DEF Alone
<1>4. FilesAreServed'
  <2> SUFFICES ASSUME NEW p \in DOMAIN posts', Clear(p)'
               PROVE  FilesOf(posts'[p].media) \subseteq files'
    BY DEF FilesAreServed, Clear
  <2>1. CASE p \in DOMAIN posts /\ posts'[p] = posts[p] /\ ~Mine(p, r)
    <3> SUFFICES ASSUME NEW f \in FilesOf(posts[p].media) PROVE f \in files'
      BY <2>1
    <3>1. f \in files
      BY <1>3, <2>1 DEF IInv, DiskAgrees, FilesAreServed, Clear
    <3>2. f \notin Holds(r)
      BY <2>1 DEF IInv, FilesHaveOneOwner, Mine
    <3> QED BY <3>1, <3>2 DEF Alone
  <2>2. CASE p \in DOMAIN posts /\ ~Mine(p, r) /\ posts'[p] # posts[p]
    <3>1. p # created + 1
      BY <2>2 DEF IInv, DiskAgrees, TypeOK
    <3> QED BY <2>2, <3>1 DEF Alone, Writes
  <2> QED BY <2>1, <2>2
<1>5. NoFileLeft'
  <2> SUFFICES ASSUME Quiet', NEW f \in files'
               PROVE  \/ \E p \in DOMAIN posts' : f \in FilesOf(posts'[p].media)
                      \/ \E s \in Requests : f \in Holds(s)'
    BY DEF NoFileLeft, Quiet, Holds
  <2>1. CASE \/ f \in Holds(r)
             \/ f \notin files
             \/ \E p \in DOMAIN posts : Mine(p, r) /\ f \in FilesOf(posts[p].media)
    BY <2>1
  <2>2. CASE \E p \in DOMAIN posts : ~Mine(p, r) /\ f \in FilesOf(posts[p].media)
    <3>1. PICK p \in DOMAIN posts : ~Mine(p, r) /\ f \in FilesOf(posts[p].media)
      BY <2>2
    <3>2. p \in DOMAIN posts' /\ p # created + 1
      BY <3>1 DEF Alone, IInv, DiskAgrees, TypeOK
    <3>3. posts'[p] = posts[p]
      BY <3>1, <3>2 DEF Alone, Writes
    <3> QED BY <3>1, <3>2, <3>3
  <2>3. CASE \E s \in Requests : s # r /\ f \in Holds(s)
    <3>1. PICK s \in Requests : s # r /\ f \in Holds(s)
      BY <2>3
    <3>2. Holds(s)' = Holds(s)
      BY <3>1 DEF Alone, Holds
    <3> QED BY <3>1, <3>2
  <2>4. f \in files => \/ \E p \in DOMAIN posts : f \in FilesOf(posts[p].media)
                       \/ \E s \in Requests : f \in Holds(s)
    BY <1>3 DEF IInv, DiskAgrees, NoFileLeft, Quiet, Holds
  <2> QED BY <2>1, <2>2, <2>3, <2>4
<1> QED BY <1>1, <1>2, <1>4, <1>5 DEF IInv, DiskAgrees

-------------------------------------------------------------------------------
(* Requests. *)

(* What the fields of a request are. *)
LEMMA RequestFields ==
    ASSUME NEW q \in Request
    PROVE  /\ q.op \in Ops /\ q.user \in Users \cup {NoUser} /\ q.id \in Nat
           /\ q.inside \in BOOLEAN /\ q.sent \in [Kinds -> Nat] /\ q.step \in Steps
           /\ q.old \in Media /\ q.new \in Media /\ q.seen \in BOOLEAN
  BY DEF Request

(* No request. *)
LEMMA NoRequestFacts ==
    /\ NoRequest \in Request /\ NoRequest.step = "idle" /\ NoRequest.op = "like"
    /\ NoRequest.old = NoMedia /\ NoRequest.new = NoMedia /\ ~Changes(NoRequest)
    /\ NoRequest.user = NoUser /\ NoRequest.id = 0 /\ \A k \in Kinds : NoRequest.sent[k] = 0
<1>1. "idle" \in Steps /\ "like" \in Ops /\ NoMedia \in Media
  BY NoMediaFacts DEF Steps, Ops
<1>2. [k \in Kinds |-> 0] \in [Kinds -> Nat]
  OBVIOUS
<1>3. NoRequest \in Request
  BY <1>1, <1>2 DEF NoRequest, Request
<1> QED BY <1>3 DEF NoRequest, Changes

(* The variable req when only the entry of r changes. *)
LEMMA OneRequest ==
    ASSUME IInv, NEW r \in Requests, NEW n \in Request, req' = [req EXCEPT ![r] = n]
    PROVE  /\ req' \in [Requests -> Request] /\ req'[r] = n
           /\ \A s \in Requests \ {r} : req'[s] = req[s]
  BY DEF IInv, DiskAgrees, TypeOK

(* A request that is over. *)
LEMMA IdleFacts ==
    ASSUME NEW r \in Requests, req'[r] = NoRequest
    PROVE  RequestOK(r)' /\ KnowsThePost(r)' /\ Holds(r)' = {}
<1>1. Holds(r)' = {}
  BY NoRequestFacts, NoMediaFacts DEF Holds
<1>2. \A k \in Kinds : ~Uploaded(NoRequest, k)
  BY NoRequestFacts DEF Uploaded
<1>3. RequestOK(r)'
  BY <1>2, NoRequestFacts, NoMediaFacts DEF RequestOK, StepsOf, Kinds
<1>4. KnowsThePost(r)'
  BY <1>2, NoRequestFacts, NoMediaFacts DEF KnowsThePost
<1> QED BY <1>1, <1>3, <1>4

(* Overlaps were noted when the later request arrived. *)
LEMMA OverlapsKept ==
    ASSUME IInv, NEW r \in Requests, \A s \in Requests \ {r} : req'[s] = req[s],
           overlapped \subseteq overlapped',
           \/ req'[r] = NoRequest
           \/ req'[r].op = req[r].op /\ req'[r].id = req[r].id
    PROVE  OverlapsAreNoted'
<1>1. ASSUME NEW s \in Requests
      PROVE  Changes(req'[s]) => Changes(req[s]) /\ req'[s].id = req[s].id
  BY NoRequestFacts DEF Changes
<1> QED BY <1>1 DEF IInv, OverlapsAreNoted

(* All fields of a request but the ones a step changes stay as they are. *)
Alike(q, n) == /\ n.op = q.op /\ n.user = q.user /\ n.id = q.id
               /\ n.inside = q.inside /\ n.sent = q.sent

(* A step of a request that has no files, with nothing but rows of likes   *)
(* and comments.                                                           *)
LEMMA SmallKeeps ==
    ASSUME IInv, TypeOK', NEW r \in Requests, NEW n \in Request, req' = [req EXCEPT ![r] = n],
           UNCHANGED <<created, posts, community, files, used, overlapped, cut>>,
           unsure \subseteq unsure', LikesAreToggled',
           req[r].old = NoMedia, req[r].new = NoMedia, req[r].step # "idle",
           \/ n = NoRequest
           \/ /\ Alike(req[r], n) /\ n.old = NoMedia /\ n.new = NoMedia
              /\ n.step \in StepsOf(n.op) /\ n.step \in {"media", "insert", "profile", "toggle", "change"}
    PROVE  IInv'
<1>1. /\ req' \in [Requests -> Request] /\ req'[r] = n
      /\ \A s \in Requests \ {r} : req'[s] = req[s]
  BY OneRequest
<1>2. /\ created' = created /\ posts' = posts /\ community' = community /\ files' = files
      /\ used' = used /\ overlapped' = overlapped /\ cut' = cut
  OBVIOUS
<1>3. Holds(r) = {}
  BY NoMediaFacts DEF Holds
<1>4. n.old = NoMedia /\ n.new = NoMedia /\ Holds(r)' = {}
  BY <1>1, NoRequestFacts, NoMediaFacts DEF Holds
<1>5. RequestOK(r) /\ created \in Nat /\ used \in Nat
  BY DEF IInv, DiskAgrees, TypeOK
<1>6. Alone(r) /\ KeepsItsOwn(r)
  BY <1>1, <1>2, <1>4, <1>5 DEF Alone, KeepsItsOwn
<1>7. OverlapsAreNoted'
  BY <1>1, <1>2, OverlapsKept DEF Alike
<1>8. CommunityPostsByCreator'
  BY <1>2 DEF IInv, CommunityPostsByCreator
<1>9. RequestOK(r)' /\ KnowsThePost(r)'
  <2>1. CASE n = NoRequest
    BY <1>1, <2>1, IdleFacts
  <2>2. CASE /\ Alike(req[r], n)
             /\ n.step \in StepsOf(n.op) /\ n.step \in {"media", "insert", "profile", "toggle", "change"}
    <3>1. \A k \in Kinds : ~Uploaded(n, k)
      BY <2>2 DEF Uploaded
    <3>2. n.op # "create"
      BY <2>2 DEF StepsOf
    <3>3. RequestOK(r)'
      BY <1>1, <1>2, <1>4, <1>5, <2>2, <3>1, <3>2, NoMediaFacts DEF RequestOK, Alike, Kinds
    <3>4. KnowsThePost(r)'
      BY <1>1, <1>4, <2>2, <3>1, <3>2, NoMediaFacts DEF KnowsThePost
    <3> QED BY <3>3, <3>4
  <2> QED BY <2>1, <2>2
<1>10. \A p \in DOMAIN posts' : Clear(p)' => FilesOf(posts'[p].media) \subseteq files'
  BY <1>2 DEF IInv, DiskAgrees, FilesAreServed, Clear
<1> QED BY <1>2, <1>3, <1>4, <1>6, <1>7, <1>8, <1>9, <1>10, StepKeeps

(* A request has files only if it creates, updates or deletes a post, and  *)
(* only after it has read what there was.                                  *)
LEMMA NoFilesYet ==
    ASSUME IInv, NEW r \in Requests,
           req[r].step \in {"read", "media", "snapshot", "toggle", "insert", "profile", "lookup", "change"}
    PROVE  req[r].old = NoMedia /\ req[r].new = NoMedia /\ req[r] \in Request
  BY DEF IInv, DiskAgrees, TypeOK, RequestOK, StepsOf

(* A request that is at another step. *)
LEMMA StepFacts ==
    ASSUME NEW q \in Request, NEW step \in Steps
    PROVE  LET n == [q EXCEPT !.step = step]
           IN  /\ n \in Request /\ Alike(q, n) /\ n.step = step
               /\ n.old = q.old /\ n.new = q.new
  BY DEF Request, Alike

(* A step that only moves on, or ends, a request without files. *)
LEMMA MovesOn ==
    ASSUME IInv, NEW r \in Requests,
           req[r].step \in {"read", "media", "snapshot", "toggle", "insert", "profile", "lookup", "change"},
           UNCHANGED <<tables, world, disk, received, history>>,
           \/ req' = [req EXCEPT ![r] = NoRequest]
           \/ \E step \in {"media", "insert", "change"} :
                 Goto(r, step) /\ step \in StepsOf(req[r].op)
    PROVE  IInv'
<1>1. /\ created' = created /\ posts' = posts /\ likes' = likes /\ commented' = commented
      /\ comments' = comments /\ community' = community /\ subscribers' = subscribers
      /\ files' = files /\ used' = used /\ received' = received /\ overlapped' = overlapped
      /\ unsure' = unsure /\ cut' = cut /\ odd' = odd
  BY DEF tables, world, disk, history
<1>2. req[r].old = NoMedia /\ req[r].new = NoMedia /\ req[r] \in Request
  BY NoFilesYet
<1>3. LikesAreToggled'
  BY <1>1 DEF IInv, LikesAreToggled, IsLiked
<1>4. ASSUME NEW n \in Request, req' = [req EXCEPT ![r] = n] PROVE TypeOK'
  <2>1. req' \in [Requests -> Request]
    BY <1>4, OneRequest
  <2> QED BY <1>1, <2>1 DEF IInv, DiskAgrees, TypeOK
<1>5. CASE req' = [req EXCEPT ![r] = NoRequest]
  <2>1. NoRequest \in Request
    BY NoRequestFacts
  <2> QED BY <1>1, <1>2, <1>3, <1>4, <1>5, <2>1, SmallKeeps
<1>6. CASE \E step \in {"media", "insert", "change"} :
              Goto(r, step) /\ step \in StepsOf(req[r].op)
  <2>1. PICK step \in {"media", "insert", "change"} :
            Goto(r, step) /\ step \in StepsOf(req[r].op)
    BY <1>6
  <2>2. step \in Steps
    BY DEF Steps
  <2> DEFINE n == [req[r] EXCEPT !.step = step]
  <2>3. /\ n \in Request /\ Alike(req[r], n) /\ n.step = step
        /\ n.old = req[r].old /\ n.new = req[r].new
    BY <1>2, <2>2, StepFacts
  <2>4. req' = [req EXCEPT ![r] = n]
    BY <2>1 DEF Goto
  <2> HIDE DEF n
  <2>5. n.step \in StepsOf(n.op) /\ n.step \in {"media", "insert", "profile", "toggle", "change"}
    BY <2>1, <2>3 DEF Alike
  <2> QED BY <1>1, <1>2, <1>3, <1>4, <2>3, <2>4, <2>5, SmallKeeps
<1> QED BY <1>5, <1>6

(* Reading a row, a comment or a profile decides whether a request goes on. *)
LEMMA ReadsKeep ==
    ASSUME IInv, NEW r \in Requests,
           \/ UpdatePostReads(r) \/ DeletePostReads(r) \/ CreateCommentReads(r)
           \/ UpdateCommentReads(r) \/ DeleteCommentReads(r) \/ CommentAnswered(r)
    PROVE  IInv'
<1>1. CASE UpdatePostReads(r) \/ DeletePostReads(r)
  <2>1. /\ UNCHANGED <<tables, world, disk, received, history>> /\ req[r].step = "read"
        /\ req[r].op \in {"update", "delete"}
        /\ req' = [req EXCEPT ![r] = NoRequest] \/ Goto(r, "media")
    BY <1>1 DEF UpdatePostReads, DeletePostReads, ReadOwnPost, Refuse, Answer
  <2>2. "media" \in StepsOf(req[r].op)
    BY <2>1 DEF StepsOf
  <2> QED BY <2>1, <2>2, MovesOn
<1>2. CASE CreateCommentReads(r)
  <2>1. /\ UNCHANGED <<tables, world, disk, received, history>> /\ req[r].step = "read"
        /\ req[r].op = "comment"
        /\ req' = [req EXCEPT ![r] = NoRequest] \/ Goto(r, "insert")
    BY <1>2 DEF CreateCommentReads, Refuse, Answer
  <2>2. "insert" \in StepsOf(req[r].op)
    BY <2>1 DEF StepsOf
  <2> QED BY <2>1, <2>2, MovesOn
<1>3. CASE UpdateCommentReads(r) \/ DeleteCommentReads(r)
  <2>1. /\ UNCHANGED <<tables, world, disk, received, history>> /\ req[r].step = "lookup"
        /\ req[r].op \in {"edit", "uncomment"}
        /\ req' = [req EXCEPT ![r] = NoRequest] \/ Goto(r, "change")
    BY <1>3 DEF UpdateCommentReads, DeleteCommentReads, ReadOwnComment, Refuse, Answer
  <2>2. "change" \in StepsOf(req[r].op)
    BY <2>1 DEF StepsOf
  <2> QED BY <2>1, <2>2, MovesOn
<1>4. CASE CommentAnswered(r)
  <2>1. /\ UNCHANGED <<tables, world, disk, received, history>> /\ req[r].step = "profile"
        /\ req' = [req EXCEPT ![r] = NoRequest]
    BY <1>4 DEF CommentAnswered, Refuse, Answer
  <2> QED BY <2>1, MovesOn
<1> QED BY <1>1, <1>2, <1>3, <1>4

(* CreateComment, UpdateComment and DeleteComment change one comment. *)
LEMMA CommentsKeep ==
    ASSUME IInv, NEW r \in Requests, CreateComment(r) \/ UpdateComment(r) \/ DeleteComment(r)
    PROVE  IInv'
<1> DEFINE q == req[r]
           CommentRow == [post : 1..created, author : Users, edited : BOOLEAN]
<1>1. /\ created' = created /\ posts' = posts /\ likes' = likes /\ community' = community
      /\ subscribers' = subscribers /\ files' = files /\ used' = used /\ received' = received
      /\ overlapped' = overlapped /\ unsure' = unsure /\ cut' = cut /\ odd' = odd
  BY DEF CreateComment, UpdateComment, DeleteComment, world, disk, history
<1>2. q.step \in {"insert", "change"}
  BY DEF CreateComment, UpdateComment, DeleteComment
<1>3. q.old = NoMedia /\ q.new = NoMedia /\ q \in Request
  BY <1>2, NoFilesYet
<1>4. LikesAreToggled'
  BY <1>1 DEF IInv, LikesAreToggled, IsLiked
<1>5. /\ commented \in 0..MaxComments /\ DOMAIN comments \subseteq 1..commented
      /\ \A c \in DOMAIN comments : comments[c] \in CommentRow
      /\ DOMAIN posts \subseteq 1..created
  BY DEF IInv, DiskAgrees, TypeOK
<1>6. /\ commented' \in 0..MaxComments /\ DOMAIN comments' \subseteq 1..commented'
      /\ \A c \in DOMAIN comments' : comments'[c] \in CommentRow
  <2>1. CASE commented' = commented /\ comments' = comments
    BY <1>5, <2>1
  <2>2. CASE /\ commented < MaxComments /\ q.id \in DOMAIN posts /\ commented' = commented + 1
             /\ comments' = With(comments, commented + 1,
                                 [post |-> q.id, author |-> q.user, edited |-> FALSE])
             /\ q.step = "insert"
    <3>1. q.user \in Users
      BY <2>2 DEF IInv, RequestOK
    <3> DEFINE row == [post |-> q.id, author |-> q.user, edited |-> FALSE]
    <3>2. row \in CommentRow
      BY <1>5, <2>2, <3>1
    <3>3. comments' = [c \in DOMAIN comments \cup {commented + 1} |->
                          IF c = commented + 1 THEN row ELSE comments[c]]
      BY <2>2 DEF With
    <3> HIDE DEF row, CommentRow
    <3>4. commented' \in 0..MaxComments /\ 1..commented \subseteq 1..commented' /\ commented + 1 \in 1..commented'
      BY <1>5, <2>2, PostsAssumption
    <3> QED BY <1>5, <3>2, <3>3, <3>4
  <2>3. CASE commented' = commented /\ comments' = [comments EXCEPT ![q.id].edited = TRUE]
             /\ q.id \in DOMAIN comments
    BY <1>5, <2>3
  <2>4. CASE commented' = commented /\ comments' = Without(comments, q.id)
    BY <1>5, <2>4 DEF Without
  <2> QED BY <2>1, <2>2, <2>3, <2>4
         DEF CreateComment, UpdateComment, DeleteComment, ChangeComment, RemoveComment
<1>7. ASSUME NEW n \in Request, req' = [req EXCEPT ![r] = n] PROVE TypeOK'
  <2>1. req' \in [Requests -> Request]
    BY <1>7, OneRequest
  <2> QED BY <1>1, <1>6, <2>1 DEF IInv, DiskAgrees, TypeOK
<1>8. CASE req' = [req EXCEPT ![r] = NoRequest]
  <2>1. NoRequest \in Request
    BY NoRequestFacts
  <2> QED BY <1>1, <1>2, <1>3, <1>4, <1>7, <1>8, <2>1, SmallKeeps
<1>9. CASE Goto(r, "profile") /\ q.step = "insert"
  <2>1. "profile" \in Steps
    BY DEF Steps
  <2> DEFINE n == [q EXCEPT !.step = "profile"]
  <2>2. /\ n \in Request /\ Alike(q, n) /\ n.step = "profile"
        /\ n.old = q.old /\ n.new = q.new
    BY <1>3, <2>1, StepFacts
  <2>3. req' = [req EXCEPT ![r] = n]
    BY <1>9 DEF Goto
  <2> HIDE DEF n
  <2>4. q.op = "comment"
    BY <1>3, <1>9, RequestFields DEF IInv, RequestOK, StepsOf, Ops
  <2>5. n.step \in StepsOf(n.op) /\ n.step \in {"media", "insert", "profile", "toggle", "change"}
    BY <2>2, <2>4 DEF Alike, StepsOf
  <2> QED BY <1>1, <1>2, <1>3, <1>4, <1>7, <2>2, <2>3, <2>5, SmallKeeps
<1> QED BY <1>8, <1>9 DEF CreateComment, UpdateComment, DeleteComment, Refuse, Answer

(* LikeSnapshot: the statement begins. *)
LEMMA LikeSnapshotKeeps ==
    ASSUME IInv, NEW r \in Requests, LikeSnapshot(r)
    PROVE  IInv'
<1> DEFINE q == req[r]
           seen == IsLiked(q.id, q.user)
           n == [q EXCEPT !.step = "toggle", !.seen = seen]
<1>1. /\ created' = created /\ posts' = posts /\ likes' = likes /\ commented' = commented
      /\ comments' = comments /\ community' = community /\ subscribers' = subscribers
      /\ files' = files /\ used' = used /\ received' = received /\ overlapped' = overlapped
      /\ unsure' = unsure /\ cut' = cut /\ odd' = odd
  BY DEF LikeSnapshot, tables, world, disk, history
<1>2. q.step = "snapshot" /\ req' = [req EXCEPT ![r] = n]
  BY DEF LikeSnapshot
<1>3. q.old = NoMedia /\ q.new = NoMedia /\ q \in Request
  BY <1>2, NoFilesYet
<1>4. seen \in BOOLEAN
  BY DEF IsLiked
<1> HIDE DEF seen
<1>5. "toggle" \in Steps
  BY DEF Steps
<1>6. n \in Request /\ Alike(q, n) /\ n.step = "toggle" /\ n.old = q.old /\ n.new = q.new
  BY <1>3, <1>4, <1>5 DEF Request, Alike
<1>7. q.op = "like"
  BY <1>2, <1>3, RequestFields DEF IInv, RequestOK, StepsOf, Ops
<1> HIDE DEF n
<1>8. n.step \in StepsOf(n.op) /\ n.step \in {"media", "insert", "profile", "toggle", "change"}
  BY <1>6, <1>7 DEF Alike, StepsOf
<1>9. LikesAreToggled'
  BY <1>1 DEF IInv, LikesAreToggled, IsLiked
<1>10. TypeOK'
  <2>1. req' \in [Requests -> Request]
    BY <1>2, <1>6, OneRequest
  <2> QED BY <1>1, <2>1 DEF IInv, DiskAgrees, TypeOK
<1> QED BY <1>1, <1>2, <1>3, <1>6, <1>8, <1>9, <1>10, SmallKeeps

(* UpdateLikeOnPostByUserID: a click that is answered 200 turns the like   *)
(* over, whatever it saw when it began.                                    *)
LEMMA UpdateLikeKeeps ==
    ASSUME IInv, NEW r \in Requests, UpdateLikeOnPostByUserID(r)
    PROVE  IInv'
<1> DEFINE q == req[r]
           l == <<q.id, q.user>>
<1>1. /\ created' = created /\ posts' = posts /\ commented' = commented
      /\ comments' = comments /\ community' = community /\ subscribers' = subscribers
      /\ files' = files /\ used' = used /\ received' = received /\ overlapped' = overlapped
      /\ cut' = cut /\ q.step = "toggle"
  BY DEF UpdateLikeOnPostByUserID, world, disk
<1>2. q.old = NoMedia /\ q.new = NoMedia /\ q \in Request
  BY <1>1, NoFilesYet
<1>3. q.op = "like" /\ q.id \in 1..created /\ q.user \in Users
  BY <1>1, <1>2, RequestFields DEF IInv, RequestOK, StepsOf, Ops
<1>4. req' = [req EXCEPT ![r] = NoRequest]
  BY DEF UpdateLikeOnPostByUserID, LikeAnswered, Refuse, Answer
<1>5. \/ /\ (l \in likes /\ likes' = likes \ {l}) \/ (l \notin likes /\ likes' = likes \cup {l})
         /\ \/ Clicked(l) /\ unsure' = unsure
            \/ unsure' = unsure \cup {q.id} /\ odd' = odd
      \/ likes' = likes /\ unsure' = unsure /\ odd' = odd
  BY DEF UpdateLikeOnPostByUserID, LikeAnswered
<1>6. /\ likes \subseteq (1..created) \X Users /\ odd \subseteq (1..created) \X Users
      /\ overlapped \cup unsure \subseteq 1..MaxPosts /\ created \in 0..MaxPosts
  BY DEF IInv, DiskAgrees, TypeOK
<1>7. l \in (1..created) \X Users
  BY <1>3
<1>8. unsure \subseteq unsure' /\ unsure' \subseteq unsure \cup {q.id}
  BY <1>5
<1>9. q.id \in 1..MaxPosts
  BY <1>3, <1>6, PostsAssumption
<1>10. TypeOK'
  <2>1. req' \in [Requests -> Request]
    BY <1>4, OneRequest, NoRequestFacts
  <2>2. likes' \subseteq (1..created) \X Users /\ odd' \subseteq (1..created) \X Users
    <3> HIDE DEF l
    <3> QED BY <1>5, <1>6, <1>7 DEF Clicked
  <2>3. overlapped' \cup unsure' \subseteq 1..MaxPosts
    BY <1>1, <1>6, <1>8, <1>9
  <2> QED BY <1>1, <2>1, <2>2, <2>3 DEF IInv, DiskAgrees, TypeOK
<1>11. LikesAreToggled'
  <2> SUFFICES ASSUME NEW p \in DOMAIN posts, p \notin unsure', NEW u \in Users
               PROVE  <<p, u>> \in likes' <=> <<p, u>> \in odd'
    BY <1>1 DEF LikesAreToggled, IsLiked
  <2>1. <<p, u>> \in likes <=> <<p, u>> \in odd
    BY <1>8 DEF IInv, LikesAreToggled, IsLiked
  <2>2. CASE <<p, u>> = l
    <3>1. q.id \notin unsure'
      BY <2>2
    <3> HIDE DEF l
    <3> QED BY <1>5, <2>1, <2>2, <3>1 DEF Clicked
  <2>3. CASE <<p, u>> # l
    <3> HIDE DEF l
    <3> QED BY <1>5, <2>1, <2>3 DEF Clicked
  <2> QED BY <2>2, <2>3
<1> QED BY <1>1, <1>2, <1>4, <1>8, <1>10, <1>11, NoRequestFacts, SmallKeeps

-------------------------------------------------------------------------------
(* Files that go. *)

(* What a request holds is what it has read and what it has uploaded. *)
LEMMA HoldsFacts ==
    ASSUME IInv, NEW r \in Requests, NEW f \in Holds(r), f \notin FilesOf(req[r].old)
    PROVE  \E k \in Kinds : Uploaded(req[r], k) /\ f \in ToSet(req[r].new[k]) /\ req[r].new[k] # req[r].old[k]
<1>1. f \in FilesOf(req[r].new)
  BY DEF Holds
<1>2. PICK k \in Kinds : f \in ToSet(req[r].new[k])
  BY <1>1, FilesOfFacts DEF Kinds
<1>3. req[r].new[k] # req[r].old[k]
  BY <1>2, FilesOfFacts
<1> QED BY <1>2, <1>3 DEF IInv, RequestOK

(* CleanUpBeside deletes uploads only, and all of them unless that is      *)
(* noted, as is what a torn upload leaves.                                 *)
LEMMA CleanUpBesideFacts ==
    ASSUME IInv, NEW r \in Requests, NEW q, q = req[r], NEW torn, CleanUpBeside(q, torn)
    PROVE  /\ files' \subseteq files \cup torn /\ (cut => cut') /\ cut' \in BOOLEAN
           /\ \A f \in files : f \notin files' => f \in Holds(r) /\ f \notin FilesOf(q.old)
           /\ ~cut' => files' \subseteq files
           /\ ~cut' => \A f \in files' : f \in Holds(r) => f \in FilesOf(q.old)
<1> DEFINE gone == FilesOf(Deleted(q))
<1>1. PICK kept : /\ files' = (files \ (gone \ kept)) \cup torn
                  /\ cut' = (cut \/ kept # {} \/ torn # {} \/ WrittenBy(q) \ gone # {})
  BY DEF CleanUpBeside
<1>2. q \in Request /\ q.old \in Media /\ q.new \in Media /\ q.sent \in [Kinds -> Nat] /\ RequestOK(r)
  BY RequestFields DEF IInv, DiskAgrees, TypeOK
<1>3. ASSUME NEW f \in gone PROVE f \in Holds(r) /\ f \notin FilesOf(q.old)
  <2>1. PICK k \in Kinds : f \in ToSet(Deleted(q)[k])
    BY FilesOfFacts DEF Kinds
  <2>2. Deleted(q)[k] = SubSeq(q.new[k], Len(q.old[k]) + 1, Len(q.new[k]))
    BY DEF Deleted
  <2>3. q.new[k] \in Seq(1..MaxFiles) /\ q.old[k] \in Seq(1..MaxFiles) /\ Len(q.old[k]) \in Nat
    BY <1>2, MediaFacts
  <2>8. \A s \in Seq(1..MaxFiles), i \in Nat :
           /\ ToSet(SubSeq(s, i + 1, Len(s))) \subseteq ToSet(s)
           /\ i = Len(s) => ToSet(SubSeq(s, i + 1, Len(s))) = {}
    BY SubSeqFacts
  <2>4. f \in ToSet(q.new[k])
    BY <2>1, <2>2, <2>3, <2>8, Zenon
  <2>5. q.new[k] # q.old[k]
    BY <2>1, <2>2, <2>3, <2>8
  <2>6. ToSet(q.new[k]) \cap FilesOf(q.old) = {}
    BY <1>2, <2>5 DEF RequestOK
  <2>7. f \in FilesOf(q.new)
    BY <2>4, FilesOfFacts
  <2> QED BY <2>4, <2>6, <2>7 DEF Holds
<1>4. ASSUME ~cut', NEW f \in files', f \in Holds(r), f \notin FilesOf(q.old) PROVE FALSE
  <2>1. PICK k \in Kinds : Uploaded(q, k) /\ f \in ToSet(q.new[k]) /\ q.new[k] # q.old[k]
    BY <1>4, HoldsFacts
  <2>2. q.sent[k] > 0
    BY <2>1 DEF Uploaded
  <2>3. f \in WrittenBy(q)
    BY <2>1, <2>2 DEF WrittenBy
  <2>4. f \in gone /\ kept = {} /\ torn = {}
    BY <1>1, <1>4, <2>3
  <2> QED BY <1>1, <1>4, <2>4
<1>5. cut \in BOOLEAN
  BY DEF IInv, DiskAgrees, TypeOK
<1> HIDE DEF gone
<1> QED BY <1>1, <1>3, <1>4, <1>5

(* CleanUp does so after an upload that is complete. *)
LEMMA CleanUpFacts ==
    ASSUME IInv, NEW r \in Requests, NEW q, q = req[r], CleanUp(q)
    PROVE  /\ files' \subseteq files /\ (cut => cut') /\ cut' \in BOOLEAN
           /\ \A f \in files : f \notin files' => f \in Holds(r) /\ f \notin FilesOf(q.old)
           /\ ~cut' => \A f \in files' : f \in Holds(r) => f \in FilesOf(q.old)
<1> PICK torn : torn = {}
  OBVIOUS
<1>1. CleanUpBeside(q, torn)
  BY DEF CleanUp
<1>2. /\ files' \subseteq files \cup torn /\ (cut => cut') /\ cut' \in BOOLEAN
      /\ \A f \in files : f \notin files' => f \in Holds(r) /\ f \notin FilesOf(q.old)
      /\ ~cut' => files' \subseteq files
      /\ ~cut' => \A f \in files' : f \in Holds(r) => f \in FilesOf(q.old)
  BY <1>1, CleanUpBesideFacts
<1> QED BY <1>2

(* A request that ends before its write takes effect. *)
LEMMA CancelKeeps ==
    ASSUME IInv, TypeOK', NEW r \in Requests, req' = [req EXCEPT ![r] = NoRequest],
           UNCHANGED <<created, posts, likes, odd, community, overlapped, unsure>>,
           req[r].step \in {"attachments", "photos", "rights", "write"},
           used <= used', ~cut' => files' \subseteq files, cut => cut',
           \A f \in files : f \notin files' => f \in Holds(r) /\ f \notin FilesOf(req[r].old),
           ~cut' => \A f \in files' : f \in Holds(r) => f \in FilesOf(req[r].old)
    PROVE  IInv'
<1> DEFINE q == req[r]
<1>1. /\ created' = created /\ posts' = posts /\ likes' = likes /\ odd' = odd
      /\ community' = community /\ overlapped' = overlapped /\ unsure' = unsure
  OBVIOUS
<1>2. /\ req'[r] = NoRequest /\ \A s \in Requests \ {r} : req'[s] = req[s]
  BY OneRequest, NoRequestFacts
<1>3. RequestOK(r)' /\ KnowsThePost(r)' /\ Holds(r)' = {}
  BY <1>2, IdleFacts
<1>4. RequestOK(r) /\ KnowsThePost(r) /\ created \in Nat /\ used \in Nat
  BY DEF IInv, DiskAgrees, TypeOK
<1>5. Alone(r) /\ KeepsItsOwn(r)
  BY <1>1, <1>2, <1>3, <1>4 DEF Alone, KeepsItsOwn
<1>6. OverlapsAreNoted'
  BY <1>1, <1>2, OverlapsKept
<1>7. LikesAreToggled' /\ CommunityPostsByCreator'
  BY <1>1 DEF IInv, LikesAreToggled, IsLiked, CommunityPostsByCreator
<1>8. q.op \in {"create", "update", "delete"} /\ (q.step = "rights" => q.op = "create")
  BY <1>4 DEF RequestOK, StepsOf
<1>9. (\A p : Clear(p)' => Clear(p)) /\ (Quiet' => Quiet)
  BY <1>1, ClearFacts
<1>10. ASSUME NEW p \in DOMAIN posts', Clear(p)', Mine(p, r)
       PROVE  FilesOf(posts'[p].media) \subseteq files'
  <2>1. p \in DOMAIN posts /\ Clear(p) /\ Changes(q) /\ q.id = p
    BY <1>1, <1>9, <1>10 DEF Mine
  <2>2. q.old = posts[p].media
    BY <1>4, <1>8, <2>1 DEF KnowsThePost, Changes
  <2>3. FilesOf(posts[p].media) \subseteq files
    BY <2>1 DEF IInv, DiskAgrees, FilesAreServed, Clear
  <2> QED BY <1>1, <2>2, <2>3
<1>11. ASSUME Quiet', NEW f \in files', f \in Holds(r)
       PROVE  \E p \in DOMAIN posts' : f \in FilesOf(posts'[p].media)
  <2>1. ~cut' /\ Quiet
    BY <1>9, <1>11 DEF Quiet
  <2>2. f \in FilesOf(q.old)
    BY <1>11, <2>1
  <2>3. q.old # NoMedia
    BY <2>2, NoMediaFacts
  <2>4. Changes(q) /\ q.step \in {"attachments", "photos", "write"} /\ Clear(q.id)
    BY <1>4, <1>8, <2>1, <2>3 DEF RequestOK, Changes, Quiet, Clear
  <2>5. q.id \in DOMAIN posts /\ q.old = posts[q.id].media
    BY <1>4, <2>1, <2>3, <2>4 DEF KnowsThePost
  <2> QED BY <1>1, <2>2, <2>5
<1>12. Quiet' => \A f \in files' : f \in files
  BY DEF Quiet
<1> QED BY <1>1, <1>3, <1>5, <1>6, <1>7, <1>10, <1>11, <1>12, StepKeeps

(* Where the uploads begin and how they go on. *)
LEMMA UploadFacts ==
    ASSUME NEW q
    PROVE  /\ AfterUploads(q) \in {"rights", "write"}
           /\ AfterUploads(q) = "rights" <=> q.op = "create" /\ q.inside
           /\ q.sent["attachments"] > 0 => FirstUpload(q) = "attachments"
           /\ ~(q.sent["attachments"] > 0) /\ q.sent["photos"] > 0 => FirstUpload(q) = "photos"
           /\ ~(q.sent["attachments"] > 0) /\ ~(q.sent["photos"] > 0) => FirstUpload(q) = AfterUploads(q)
  BY DEF AfterUploads, FirstUpload

(* The media of a post that are read next: attachments, then photos. *)
Reads(r, k, step) ==
    LET q == req[r]
    IN  \/ q.step = "media" /\ k = "attachments" /\ step = "album"
        \/ /\ q.step = "album" /\ k = "photos"
           /\ step = IF q.op = "update" THEN FirstUpload(q) ELSE "write"

(* A request that has read media, and knows what of the post they are.     *)
LEMMA KeepMediaKeeps ==
    ASSUME IInv, NEW r \in Requests, NEW k \in Kinds, NEW step, Reads(r, k, step),
           KeepMedia(r, k, step), UNCHANGED <<tables, world, disk, received, history>>
    PROVE  IInv'
<1> DEFINE q == req[r]
           now == MediaNow(q.id)
           old == [q.old EXCEPT ![k] = now[k]]
           new == [q.new EXCEPT ![k] = now[k]]
           n == [q EXCEPT !.old = old, !.new = new, !.step = step]
<1>1. /\ created' = created /\ posts' = posts /\ likes' = likes /\ commented' = commented
      /\ comments' = comments /\ community' = community /\ subscribers' = subscribers
      /\ files' = files /\ used' = used /\ received' = received /\ overlapped' = overlapped
      /\ unsure' = unsure /\ cut' = cut /\ odd' = odd
  BY DEF tables, world, disk, history
<1>2. /\ q \in Request /\ RequestOK(r) /\ KnowsThePost(r) /\ FilesHaveOneOwner
      /\ used \in Nat /\ created \in Nat
  BY DEF IInv, DiskAgrees, TypeOK
<1>3. /\ q.op \in Ops /\ q.sent \in [Kinds -> Nat] /\ q.old \in Media /\ q.new \in Media
  BY <1>2, RequestFields
<1>4. q.step \in {"media", "album"} /\ (q.step = "media" <=> k = "attachments")
  BY DEF Reads
<1>5. q.op \in {"update", "delete"}
  BY <1>2, <1>3, <1>4 DEF RequestOK, StepsOf, Ops
<1>6. q.user \in Users /\ q.id \in 1..created /\ (q.op = "delete" => \A j \in Kinds : q.sent[j] = 0)
  BY <1>2, <1>4, <1>5 DEF RequestOK
<1>7. /\ step \in {"album", "attachments", "photos", "write"}
      /\ step = "album" <=> k = "attachments"
      /\ step = "attachments" => q.op = "update" /\ q.sent["attachments"] > 0
      /\ step = "photos" => q.op = "update" /\ q.sent["photos"] > 0 /\ ~(q.sent["attachments"] > 0)
      /\ step = "write" => \A j \in Kinds : ~(q.sent[j] > 0)
  <2>1. CASE k = "attachments"
    BY <2>1 DEF Reads
  <2>2. CASE k = "photos"
    BY <1>3, <1>5, <1>6, <2>2, UploadFacts DEF Reads, Kinds
  <2> QED BY <2>1, <2>2 DEF Kinds
<1>8. step \in Steps
  BY <1>7 DEF Steps
<1>9. /\ q.id \in DOMAIN posts => now = posts[q.id].media
      /\ q.id \notin DOMAIN posts => now = NoMedia
  BY DEF MediaNow
<1>10. /\ now \in Media /\ FilesOf(now) \subseteq 1..used
       /\ Clear(q.id) => Distinct(now)
  <2>1. CASE q.id \in DOMAIN posts
    BY <1>2, <1>9, <2>1 DEF IInv, DiskAgrees, TypeOK, FilesHaveOneOwner
  <2>2. CASE q.id \notin DOMAIN posts
    BY <1>9, <2>2, NoMediaFacts
  <2> QED BY <2>1, <2>2
<1> HIDE DEF now
<1>11. \A j \in Kinds : q.new[j] = q.old[j] /\ (q.step = "media" \/ j = k => q.old[j] = <<>>)
  <2>1. \A j \in Kinds : ~Uploaded(q, j)
    BY <1>4 DEF Uploaded
  <2>2. CASE q.step = "media"
    BY <1>2, <2>1, <2>2, NoMediaFacts DEF RequestOK
  <2>3. CASE q.step = "album"
    BY <1>2, <1>4, <2>1, <2>3 DEF RequestOK, Kinds
  <2> QED BY <1>4, <2>2, <2>3
<1>12. /\ old \in Media /\ old[k] = now[k] /\ \A j \in Kinds : j # k => old[j] = q.old[j]
       /\ new \in Media /\ \A j \in Kinds : new[j] = old[j]
  <2>1. now[k] \in Seq(1..MaxFiles)
    BY <1>10, MediaFacts
  <2> QED BY <1>3, <1>11, <2>1 DEF Media
<1>13. req' = [req EXCEPT ![r] = n]
  BY DEF KeepMedia, now
<1> HIDE DEF old, new
<1>14. n \in Request /\ Alike(q, n) /\ n.old = old /\ n.new = new /\ n.step = step
  BY <1>2, <1>8, <1>12 DEF Request, Alike
<1> HIDE DEF n
<1>15. /\ req' \in [Requests -> Request] /\ req'[r] = n
       /\ \A s \in Requests \ {r} : req'[s] = req[s]
  BY <1>13, <1>14, OneRequest
<1>16. TypeOK'
  BY <1>1, <1>15 DEF IInv, DiskAgrees, TypeOK
<1>17. /\ FilesOf(old) = ToSet(now[k]) \cup FilesOf(q.old) /\ FilesOf(new) = FilesOf(old)
       /\ FilesOf(q.new) = FilesOf(q.old) /\ ToSet(now[k]) \subseteq FilesOf(now)
  <2>1. ToSet(q.old[k]) = {}
    BY <1>11 DEF ToSet
  <2> QED BY <1>11, <1>12, <2>1, FilesOfFacts DEF Kinds
<1>18. /\ Holds(r)' = ToSet(now[k]) \cup Holds(r) /\ ToSet(now[k]) \subseteq FilesOf(now)
       /\ Holds(r) \subseteq 1..used
  BY <1>2, <1>14, <1>15, <1>17 DEF Holds, FilesHaveOneOwner
<1>19. \A j \in Kinds : ~Uploaded(n, j)
  BY <1>7, <1>14 DEF Uploaded, Alike, Kinds
<1>20. RequestOK(r)'
  <2>1. n.step \in StepsOf(n.op)
    BY <1>5, <1>7, <1>14 DEF StepsOf, Alike
  <2>2. n.step \in Kinds => n.sent[n.step] > 0
    BY <1>7, <1>14 DEF Kinds, Alike
  <2>3. n.step = "album" => n.old["photos"] = <<>>
    BY <1>4, <1>7, <1>11, <1>12, <1>14 DEF Kinds
  <2>4. \A j \in Kinds : n.new[j] = n.old[j]
    BY <1>12, <1>14
  <2> QED BY <1>1, <1>5, <1>6, <1>7, <1>14, <1>15, <1>19, <2>1, <2>2, <2>3, <2>4 DEF RequestOK, Alike
<1>21. ASSUME Clear(q.id), q.id \in DOMAIN posts
       PROVE  IF k = "photos" THEN old = now ELSE old["attachments"] = now["attachments"]
  <2>1. CASE k = "attachments"
    BY <1>12, <2>1
  <2>2. CASE k = "photos"
    <3>1. q.step = "album" /\ Changes(q)
      BY <1>4, <1>5, <2>2 DEF Changes
    <3>2. q.old["attachments"] = now["attachments"]
      BY <1>2, <1>9, <1>21, <3>1 DEF KnowsThePost
    <3>3. \A j \in Kinds : old[j] = now[j]
      BY <1>12, <2>2, <3>2 DEF Kinds
    <3>4. old = now
      BY <1>10, <1>12, <3>3 DEF Media
    <3> QED BY <2>2, <3>4
  <2> QED BY <2>1, <2>2 DEF Kinds
<1>22. ASSUME Quiet, q.id \notin DOMAIN posts PROVE old = NoMedia
  <2>1. \A j \in Kinds : q.old[j] = <<>>
    BY <1>2, <1>4, <1>5, <1>22, NoMediaFacts DEF KnowsThePost, RequestOK, Changes
  <2>2. \A j \in Kinds : old[j] = NoMedia[j]
    BY <1>9, <1>12, <1>22, <2>1, NoMediaFacts
  <2>3. NoMedia \in Media
    BY NoMediaFacts
  <2> QED BY <1>12, <2>2, <2>3 DEF Media
<1>23. ASSUME Clear(q.id) PROVE Distinct(old) /\ Distinct(new)
  <2>1. SUFFICES Distinct(old)
    BY <1>12 DEF Distinct, Kinds
  <2>2. CASE k = "photos" /\ q.id \in DOMAIN posts
    <3>1. old = now
      BY <1>21, <1>23, <2>2
    <3> QED BY <1>10, <1>23, <3>1
  <2>3. CASE k = "attachments" \/ q.id \notin DOMAIN posts
    <3>1. old["photos"] = <<>>
      BY <1>4, <1>9, <1>11, <1>12, <2>3, NoMediaFacts DEF Kinds
    <3>2. ToSet(<<>>) = {}
      BY DEF ToSet
    <3> QED BY <3>1, <3>2 DEF Distinct
  <2> QED BY <2>2, <2>3 DEF Kinds
<1>24. KnowsThePost(r)'
  <2>1. n.op # "create" /\ n.id = q.id
    BY <1>5, <1>14 DEF Alike
  <2>2. overlapped' = overlapped /\ unsure' = unsure /\ cut' = cut
    BY <1>1
  <2>3. n.step \in {"album", "attachments", "photos", "write"} /\ (n.step = "album" <=> k = "attachments")
    BY <1>7, <1>14
  <2>4. k \in {"attachments", "photos"}
    BY DEF Kinds
  <2>5. Clear(q.id) /\ q.id \in DOMAIN posts =>
           /\ n.step = "album" => n.old["attachments"] = posts[q.id].media["attachments"]
           /\ n.step \in {"attachments", "photos", "write"} => n.old = posts[q.id].media
    BY <1>9, <1>14, <1>21, <2>3, <2>4
  <2>6. Quiet /\ q.id \notin DOMAIN posts => n.old = NoMedia
    BY <1>14, <1>22
  <2>7. Clear(q.id) => Distinct(n.old) /\ Distinct(n.new)
    BY <1>14, <1>23
  <2> QED BY <1>1, <1>15, <1>19, <2>1, <2>2, <2>3, <2>5, <2>6, <2>7 DEF KnowsThePost, Clear, Quiet
<1>25. Mine(q.id, r)
  BY <1>5 DEF Mine, Changes
<1>26. Alone(r)
  BY <1>1, <1>2, <1>15 DEF Alone
<1>27. KeepsItsOwn(r)
  <2>1. ASSUME NEW f \in ToSet(now[k]) PROVE q.id \in DOMAIN posts /\ f \in FilesOf(posts[q.id].media)
    BY <1>9, <1>18, <2>1, NoMediaFacts
  <2> QED BY <1>14, <1>15, <1>18, <1>25, <2>1 DEF KeepsItsOwn, Alike
<1>28. OverlapsAreNoted'
  BY <1>1, <1>14, <1>15, OverlapsKept DEF Alike
<1>29. LikesAreToggled' /\ CommunityPostsByCreator'
  BY <1>1 DEF IInv, LikesAreToggled, IsLiked, CommunityPostsByCreator
<1>30. \A p \in DOMAIN posts' : Clear(p)' => FilesOf(posts'[p].media) \subseteq files'
  BY <1>1 DEF IInv, DiskAgrees, FilesAreServed, Clear
<1>31. Holds(r)' \subseteq 1..used'
  BY <1>1, <1>10, <1>18
<1>32. \A f \in files' :
          \/ f \in Holds(r)
          \/ f \notin files
          \/ \E p \in DOMAIN posts : Mine(p, r) /\ f \in FilesOf(posts[p].media)
          => \/ f \in Holds(r)'
             \/ \E p \in DOMAIN posts' : f \in FilesOf(posts'[p].media)
  BY <1>1, <1>18
<1> QED BY <1>1, <1>16, <1>20, <1>24, <1>26, <1>27, <1>28, <1>29, <1>30, <1>31, <1>32, StepKeeps

(* The photos cannot be read: the request ends and has changed nothing. *)
LEMMA RefusePhotosKeeps ==
    ASSUME IInv, NEW r \in Requests, req' = [req EXCEPT ![r] = NoRequest], req[r].step = "album",
           UNCHANGED <<tables, world, disk, received, history>>
    PROVE  IInv'
<1> DEFINE q == req[r]
<1>1. /\ created' = created /\ posts' = posts /\ likes' = likes /\ commented' = commented
      /\ comments' = comments /\ community' = community /\ subscribers' = subscribers
      /\ files' = files /\ used' = used /\ received' = received /\ overlapped' = overlapped
      /\ unsure' = unsure /\ cut' = cut /\ odd' = odd
  BY DEF tables, world, disk, history
<1>2. /\ req' \in [Requests -> Request] /\ req'[r] = NoRequest
      /\ \A s \in Requests \ {r} : req'[s] = req[s]
  BY OneRequest, NoRequestFacts
<1>3. RequestOK(r)' /\ KnowsThePost(r)' /\ Holds(r)' = {}
  BY <1>2, IdleFacts
<1>4. /\ q \in Request /\ RequestOK(r) /\ KnowsThePost(r) /\ created \in Nat /\ used \in Nat
  BY DEF IInv, DiskAgrees, TypeOK
<1>5. Changes(q)
  BY <1>4, RequestFields DEF RequestOK, StepsOf, Ops, Changes
<1>6. TypeOK'
  BY <1>1, <1>2 DEF IInv, DiskAgrees, TypeOK
<1>7. Alone(r) /\ KeepsItsOwn(r)
  BY <1>1, <1>2, <1>3, <1>4 DEF Alone, KeepsItsOwn
<1>8. OverlapsAreNoted'
  BY <1>1, <1>2, OverlapsKept
<1>9. LikesAreToggled' /\ CommunityPostsByCreator'
  BY <1>1 DEF IInv, LikesAreToggled, IsLiked, CommunityPostsByCreator
<1>10. \A p \in DOMAIN posts' : Clear(p)' => FilesOf(posts'[p].media) \subseteq files'
  BY <1>1 DEF IInv, DiskAgrees, FilesAreServed, Clear
<1>11. ASSUME Quiet', NEW f \in Holds(r)
       PROVE  \E p \in DOMAIN posts' : f \in FilesOf(posts'[p].media)
  <2>1. Quiet /\ Clear(q.id)
    BY <1>1, <1>11 DEF Quiet, Clear
  <2>2. \A k \in Kinds : ~Uploaded(q, k)
    BY DEF Uploaded
  <2>3. f \in FilesOf(q.old)
    BY <1>11, <2>2, HoldsFacts
  <2>4. f \in ToSet(q.old["attachments"])
    BY <1>4, <2>3, FilesOfFacts DEF RequestOK, ToSet
  <2>5. q.old # NoMedia
    BY <2>3, NoMediaFacts
  <2>6. q.id \in DOMAIN posts /\ q.old["attachments"] = posts[q.id].media["attachments"]
    BY <1>4, <1>5, <2>1, <2>5 DEF KnowsThePost
  <2> QED BY <1>1, <2>4, <2>6, FilesOfFacts
<1> QED BY <1>1, <1>3, <1>6, <1>7, <1>8, <1>9, <1>10, <1>11, StepKeeps

(* The media of a post are read, kind by kind. *)
LEMMA getPostMediaKeeps ==
    ASSUME IInv, NEW r \in Requests, getPostAttachments(r) \/ getPostPhotos(r)
    PROVE  IInv'
<1>1. CASE getPostAttachments(r)
  <2>1. UNCHANGED <<tables, world, disk, received, history>> /\ req[r].step = "media"
    BY <1>1 DEF getPostAttachments
  <2>2. CASE req' = [req EXCEPT ![r] = NoRequest]
    BY <2>1, <2>2, MovesOn
  <2>3. CASE KeepMedia(r, "attachments", "album")
    <3>1. Reads(r, "attachments", "album") /\ "attachments" \in Kinds
      BY <2>1 DEF Reads, Kinds
    <3> QED BY <2>1, <2>3, <3>1, KeepMediaKeeps
  <2> QED BY <1>1, <2>2, <2>3 DEF getPostAttachments, Refuse, Answer
<1>2. CASE getPostPhotos(r)
  <2>1. UNCHANGED <<tables, world, disk, received, history>> /\ req[r].step = "album"
    BY <1>2 DEF getPostPhotos
  <2>2. CASE req' = [req EXCEPT ![r] = NoRequest]
    BY <2>1, <2>2, RefusePhotosKeeps
  <2> PICK step : step = IF req[r].op = "update" THEN FirstUpload(req[r]) ELSE "write"
    OBVIOUS
  <2>3. CASE KeepMedia(r, "photos", step)
    <3>1. Reads(r, "photos", step) /\ "photos" \in Kinds
      BY <2>1 DEF Reads, Kinds
    <3> QED BY <2>1, <2>3, <3>1, KeepMediaKeeps
  <2> QED BY <1>2, <2>2, <2>3 DEF getPostPhotos, Refuse, Answer
<1> QED BY <1>1, <1>2

(* UploadFiles: new files get names nobody has. *)
LEMMA UploadSucceeds ==
    ASSUME IInv, NEW r \in Requests, req[r].step \in Kinds,
           LET q == req[r]
               n == q.sent[q.step]
           IN  /\ used + n <= MaxFiles
               /\ used' = used + n /\ files' = files \cup ToSet(NewFiles(n))
               /\ req' = [req EXCEPT ![r].new[q.step] = NewFiles(n), ![r].step = NextUpload(q)],
           UNCHANGED <<tables, world, received, history>>
    PROVE  IInv'
<1> DEFINE q == req[r]
           k == q.step
           c == q.sent[k]
           fresh == NewFiles(c)
           media == [q.new EXCEPT ![k] = fresh]
           step == NextUpload(q)
           n == [q EXCEPT !.new = media, !.step = step]
<1>1. /\ created' = created /\ posts' = posts /\ likes' = likes /\ commented' = commented
      /\ comments' = comments /\ community' = community /\ subscribers' = subscribers
      /\ received' = received /\ overlapped' = overlapped
      /\ unsure' = unsure /\ cut' = cut /\ odd' = odd
  BY DEF tables, world, history
<1>2. /\ q \in Request /\ RequestOK(r) /\ KnowsThePost(r) /\ used \in 0..MaxFiles /\ files \subseteq 1..used
      /\ created \in Nat /\ FilesHaveOneOwner
  BY DEF IInv, DiskAgrees, TypeOK
<1>3. /\ q.op \in Ops /\ q.sent \in [Kinds -> Nat] /\ q.old \in Media /\ q.new \in Media /\ k \in Kinds
  BY <1>2, RequestFields
<1>4. q.op \in {"create", "update"} /\ c \in Nat /\ c > 0
  BY <1>2, <1>3 DEF RequestOK, StepsOf, Kinds, Ops
<1>5. fresh \in Seq(1..MaxFiles) /\ ToSet(fresh) = used + 1..used + c
  <2>1. used \in Nat /\ used + c <= MaxFiles
    BY <1>2
  <2> QED BY <1>4, <2>1, NewFilesFacts
<1>6. req' = [req EXCEPT ![r] = n]
  BY <1>2 DEF IInv, DiskAgrees, TypeOK
<1>7. used' = used + c /\ files' = files \cup ToSet(fresh) /\ used + c <= MaxFiles
  OBVIOUS
<1>8. media \in Media /\ media[k] = fresh /\ \A j \in Kinds : j # k => media[j] = q.new[j]
  <2> HIDE DEF fresh
  <2> QED BY <1>3, <1>5 DEF Media
<1>9. /\ step \in {"photos", "rights", "write"}
      /\ step = "photos" => k = "attachments" /\ q.sent["photos"] > 0
      /\ step # "photos" => k = "photos" \/ ~(q.sent["photos"] > 0)
      /\ step = "rights" => q.op = "create"
      /\ q.op = "create" /\ q.inside => step # "write"
  BY <1>3, UploadFacts DEF NextUpload, Kinds
<1>10. step \in Steps
  BY <1>9 DEF Steps
<1> HIDE DEF fresh, media, step
<1>11. n \in Request /\ Alike(q, n) /\ n.old = q.old /\ n.new = media /\ n.step = step
  BY <1>2, <1>3, <1>8, <1>10 DEF Request, Alike
<1> HIDE DEF n
<1>12. /\ req' \in [Requests -> Request] /\ req'[r] = n
       /\ \A s \in Requests \ {r} : req'[s] = req[s]
  BY <1>6, <1>11, OneRequest
<1>13. used' \in 0..MaxFiles /\ files' \subseteq 1..used' /\ used \in Nat /\ used <= used' /\ 1..used \subseteq 1..used'
  <2>1. /\ used' \in 0..MaxFiles /\ used \in Nat /\ used <= used' /\ 1..used \subseteq 1..used'
        /\ used + 1..used + c \subseteq 1..used'
    BY <1>2, <1>4, <1>7, PostsAssumption
  <2> QED BY <1>2, <1>5, <1>7, <2>1
<1>14. TypeOK'
  BY <1>1, <1>12, <1>13 DEF IInv, DiskAgrees, TypeOK
<1>15. \A j \in Kinds : Uploaded(n, j) <=> (j = k \/ Uploaded(q, j))
  BY <1>3, <1>4, <1>9, <1>11 DEF Uploaded, Alike, Kinds
<1>16. ~Uploaded(q, k)
  BY DEF Uploaded, Kinds
<1>17. q.new[k] = q.old[k]
  BY <1>2, <1>3, <1>16 DEF RequestOK
<1>18. \A f \in ToSet(fresh) : f \in (used + 1)..used' /\ f \in 1..used' /\ f \notin 1..used
  BY <1>5, <1>7, <1>13
<1>19. Holds(r) \subseteq 1..used /\ Holds(r) = FilesOf(q.old) \cup FilesOf(q.new)
  BY <1>2 DEF FilesHaveOneOwner, Holds
<1>20. Holds(r)' = FilesOf(q.old) \cup FilesOf(media)
  BY <1>11, <1>12 DEF Holds
<1>21. FilesOf(media) \subseteq ToSet(fresh) \cup FilesOf(q.new) /\ ToSet(fresh) \subseteq FilesOf(media)
  BY <1>3, <1>8, FilesOfFacts DEF Kinds
<1>22. FilesOf(q.new) \subseteq FilesOf(q.old) \cup FilesOf(media)
  <2> SUFFICES ASSUME NEW f \in FilesOf(q.new) PROVE f \in FilesOf(q.old) \/ f \in FilesOf(media)
    OBVIOUS
  <2>1. PICK j \in Kinds : f \in ToSet(q.new[j])
    BY FilesOfFacts DEF Kinds
  <2> QED BY <1>8, <1>17, <2>1, FilesOfFacts
<1>23. Distinct(media)
  <2>1. \A j \in Kinds : j # k => ToSet(media[j]) \cap ToSet(media[k]) = {}
    BY <1>8, <1>18, <1>19, FilesOfFacts
  <2> QED BY <1>3, <2>1 DEF Distinct, Kinds
<1>24. RequestOK(r)'
  <2>1. n.step \in StepsOf(n.op)
    BY <1>4, <1>9, <1>11 DEF StepsOf, Alike
  <2>2. n.step \in Kinds => n.sent[n.step] > 0
    BY <1>9, <1>11 DEF Kinds, Alike
  <2>3. ASSUME NEW j \in Kinds
        PROVE  IF Uploaded(n, j) THEN ToSet(n.new[j]) \cap FilesOf(n.old) = {}
                                 ELSE n.new[j] = n.old[j]
    <3>1. CASE j = k
      <4>1. ToSet(fresh) \cap FilesOf(q.old) = {}
        BY <1>18, <1>19
      <4> QED BY <1>8, <1>11, <1>15, <3>1, <4>1
    <3>2. CASE j # k
      BY <1>2, <1>8, <1>11, <1>15, <3>2 DEF RequestOK
    <3> QED BY <3>1, <3>2
  <2>4. n.user \in Users /\ (n.op = "update" => n.id \in 1..created')
    BY <1>1, <1>2, <1>3, <1>4, <1>11 DEF RequestOK, Alike, Kinds
  <2>5. n.op = "create" => n.old = NoMedia
    BY <1>2, <1>11 DEF RequestOK, Alike
  <2> QED BY <1>4, <1>9, <1>11, <1>12, <2>1, <2>2, <2>3, <2>4, <2>5 DEF RequestOK, Alike
<1>25. KnowsThePost(r)'
  <2>1. ASSUME n.op = "create" \/ (n.op = "update" /\ Clear(n.id)), NEW j \in Kinds, Uploaded(n, j)
        PROVE  ToSet(n.new[j]) \subseteq files'
    <3>1. CASE j = k
      BY <1>7, <1>8, <1>11, <3>1
    <3>2. CASE j # k
      <4>1. q.op = "create" \/ (q.op = "update" /\ Clear(q.id) /\ q.step # "unlink")
        BY <1>1, <1>3, <1>11, <2>1 DEF Alike, Clear, Kinds
      <4> QED BY <1>2, <1>7, <1>8, <1>11, <1>15, <2>1, <3>2, <4>1 DEF KnowsThePost
    <3> QED BY <3>1, <3>2
  <2>2. q.step \in {"attachments", "photos", "write"} /\ n.step # "unlink"
    BY <1>3, <1>9, <1>11 DEF Kinds
  <2>3. n.op = "create" \/ (Changes(n) /\ Clear(n.id)) => Distinct(n.old) /\ Distinct(n.new)
    BY <1>2, <1>11, <1>23 DEF KnowsThePost, Alike, Changes
  <2> QED BY <1>1, <1>2, <1>11, <1>12, <2>1, <2>2, <2>3 DEF KnowsThePost, Alike, Changes, Clear, Quiet
<1>26. Alone(r)
  BY <1>1, <1>2, <1>7, <1>12, <1>13 DEF Alone
<1>27. KeepsItsOwn(r)
  BY <1>11, <1>12, <1>18, <1>19, <1>20, <1>21 DEF KeepsItsOwn, Alike
<1>28. Holds(r)' \subseteq 1..used'
  BY <1>13, <1>18, <1>19, <1>20, <1>21
<1>29. OverlapsAreNoted'
  BY <1>1, <1>11, <1>12, OverlapsKept DEF Alike
<1>30. LikesAreToggled' /\ CommunityPostsByCreator'
  BY <1>1 DEF IInv, LikesAreToggled, IsLiked, CommunityPostsByCreator
<1>31. \A p \in DOMAIN posts' : Clear(p)' => FilesOf(posts'[p].media) \subseteq files'
  BY <1>1, <1>7 DEF IInv, DiskAgrees, FilesAreServed, Clear
<1>32. \A f \in files' : f \in Holds(r) \/ f \notin files => f \in Holds(r)'
  BY <1>7, <1>19, <1>20, <1>21, <1>22
<1> QED BY <1>1, <1>14, <1>24, <1>25, <1>26, <1>27, <1>28, <1>29, <1>30, <1>31, <1>32, StepKeeps

(* UploadFiles writes all files of a kind, or the request ends and some of *)
(* them may remain.                                                        *)
LEMMA UploadFilesKeeps ==
    ASSUME IInv, NEW r \in Requests, UploadFiles(r)
    PROVE  IInv'
<1> DEFINE q == req[r]
           n == q.sent[q.step]
<1>1. CASE /\ used + n <= MaxFiles
           /\ used' = used + n /\ files' = files \cup ToSet(NewFiles(n))
           /\ req' = [req EXCEPT ![r].new[q.step] = NewFiles(n), ![r].step = NextUpload(q)]
           /\ UNCHANGED cut
  <2>1. q.step \in Kinds /\ UNCHANGED <<tables, world, received, history>>
    BY <1>1 DEF UploadFiles, history
  <2> QED BY <1>1, <2>1, UploadSucceeds
<1>2. CASE \E m \in 0..n :
              /\ used + m <= MaxFiles /\ used' = used + m
              /\ Refuse(r, "ErrService") /\ CleanUpBeside(q, ToSet(NewFiles(m)))
  <2>1. PICK m \in 0..n : /\ used + m <= MaxFiles /\ used' = used + m
                          /\ Refuse(r, "ErrService") /\ CleanUpBeside(q, ToSet(NewFiles(m)))
    BY <1>2
  <2>2. /\ q.step \in {"attachments", "photos", "rights", "write"} /\ q.step \in Kinds
        /\ created' = created /\ posts' = posts /\ likes' = likes /\ commented' = commented
        /\ comments' = comments /\ community' = community /\ subscribers' = subscribers
        /\ received' = received /\ overlapped' = overlapped
        /\ unsure' = unsure /\ odd' = odd
    BY DEF UploadFiles, tables, world, Kinds
  <2>3. req' = [req EXCEPT ![r] = NoRequest]
    BY <2>1 DEF Refuse, Answer
  <2>4. used \in 0..MaxFiles /\ files \subseteq 1..used /\ q.sent \in [Kinds -> Nat]
    BY RequestFields DEF IInv, DiskAgrees, TypeOK
  <2>5. n \in Nat
    BY <2>2, <2>4
  <2>6. m \in Nat /\ used \in Nat
    BY <2>4, <2>5
  <2> PICK torn : torn = ToSet(NewFiles(m))
    OBVIOUS
  <2>7. torn = used + 1..used + m
    BY <2>1, <2>6, NewFilesFacts
  <2>8. CleanUpBeside(q, torn)
    BY <2>1
  <2>9. /\ files' \subseteq files \cup torn /\ (cut => cut') /\ cut' \in BOOLEAN
        /\ \A f \in files : f \notin files' => f \in Holds(r) /\ f \notin FilesOf(q.old)
        /\ ~cut' => files' \subseteq files
        /\ ~cut' => \A f \in files' : f \in Holds(r) => f \in FilesOf(q.old)
    BY <2>8, CleanUpBesideFacts
  <2>10. req' \in [Requests -> Request]
    BY <2>3, OneRequest, NoRequestFacts
  <2>11. used <= used' /\ used' \in 0..MaxFiles /\ 1..used \subseteq 1..used' /\ torn \subseteq 1..used'
    BY <2>1, <2>6, <2>7, PostsAssumption
  <2>12. files' \subseteq 1..used'
    BY <2>4, <2>9, <2>11
  <2>13. TypeOK'
    BY <2>2, <2>9, <2>10, <2>11, <2>12 DEF IInv, DiskAgrees, TypeOK
  <2> QED BY <2>2, <2>3, <2>9, <2>11, <2>13, CancelKeeps
<1> QED BY <1>1, <1>2 DEF UploadFiles

(* CheckCommunity: the creator's post goes on; the files of another stay,  *)
(* and that is noted.                                                      *)
LEMMA CheckCommunityKeeps ==
    ASSUME IInv, NEW r \in Requests, CheckCommunity(r)
    PROVE  IInv'
<1> DEFINE q == req[r]
<1>1. /\ created' = created /\ posts' = posts /\ likes' = likes /\ commented' = commented
      /\ comments' = comments /\ community' = community /\ subscribers' = subscribers
      /\ files' = files /\ used' = used /\ received' = received /\ overlapped' = overlapped
      /\ unsure' = unsure /\ odd' = odd /\ q.step = "rights"
  BY DEF CheckCommunity, tables, world, disk
<1>2. /\ q \in Request /\ RequestOK(r) /\ KnowsThePost(r) /\ used \in Nat /\ created \in Nat
      /\ cut \in BOOLEAN /\ FilesHaveOneOwner
  BY DEF IInv, DiskAgrees, TypeOK
<1>3. CASE community /\ q.user = Creator /\ Goto(r, "write") /\ cut' = cut
  <2>1. "write" \in Steps
    BY DEF Steps
  <2> DEFINE n == [q EXCEPT !.step = "write"]
  <2>2. /\ n \in Request /\ Alike(q, n) /\ n.step = "write"
        /\ n.old = q.old /\ n.new = q.new
    BY <1>2, <2>1, StepFacts
  <2>3. req' = [req EXCEPT ![r] = n]
    BY <1>3 DEF Goto
  <2> HIDE DEF n
  <2>4. /\ req' \in [Requests -> Request] /\ req'[r] = n
        /\ \A s \in Requests \ {r} : req'[s] = req[s]
    BY <2>2, <2>3, OneRequest
  <2>5. TypeOK'
    BY <1>1, <1>3, <2>4 DEF IInv, DiskAgrees, TypeOK
  <2>6. q.op = "create"
    BY <1>1, <1>2, RequestFields DEF RequestOK, StepsOf, Ops
  <2>7. \A k \in Kinds : Uploaded(n, k) <=> Uploaded(q, k)
    BY <1>1, <2>2 DEF Uploaded, Alike
  <2>8. RequestOK(r)'
    <3>1. n.step \in StepsOf(n.op) /\ n.op = "create" /\ n.step \notin Kinds
      BY <2>2, <2>6 DEF StepsOf, Alike, Kinds
    <3> QED BY <1>1, <1>2, <1>3, <2>2, <2>4, <2>7, <3>1 DEF RequestOK, Alike
  <2>9. KnowsThePost(r)'
    BY <1>1, <1>2, <2>2, <2>4, <2>6, <2>7 DEF KnowsThePost, Alike, Changes
  <2>10. Holds(r)' = Holds(r)
    BY <2>2, <2>4 DEF Holds
  <2>11. Alone(r) /\ KeepsItsOwn(r)
    BY <1>1, <1>2, <1>3, <2>2, <2>4, <2>10 DEF Alone, KeepsItsOwn, Alike
  <2>12. OverlapsAreNoted'
    BY <1>1, <2>2, <2>4, OverlapsKept DEF Alike
  <2>13. LikesAreToggled' /\ CommunityPostsByCreator'
    BY <1>1 DEF IInv, LikesAreToggled, IsLiked, CommunityPostsByCreator
  <2>14. \A p \in DOMAIN posts' : Clear(p)' => FilesOf(posts'[p].media) \subseteq files'
    BY <1>1 DEF IInv, DiskAgrees, FilesAreServed, Clear
  <2>15. Holds(r)' \subseteq 1..used'
    BY <1>1, <1>2, <2>10 DEF FilesHaveOneOwner
  <2> QED BY <1>1, <2>5, <2>8, <2>9, <2>10, <2>11, <2>12, <2>13, <2>14, <2>15, StepKeeps
<1>4. CASE req' = [req EXCEPT ![r] = NoRequest] /\ cut' = (cut \/ WrittenBy(q) # {})
  <2>1. req' \in [Requests -> Request]
    BY <1>4, OneRequest, NoRequestFacts
  <2>2. (cut => cut') /\ cut' \in BOOLEAN
    BY <1>2, <1>4
  <2>3. TypeOK'
    BY <1>1, <2>1, <2>2 DEF IInv, DiskAgrees, TypeOK
  <2>4. ASSUME ~cut', NEW f \in Holds(r), f \notin FilesOf(q.old) PROVE FALSE
    <3>1. PICK k \in Kinds : Uploaded(q, k) /\ f \in ToSet(q.new[k]) /\ q.new[k] # q.old[k]
      BY <2>4, HoldsFacts
    <3>2. f \in WrittenBy(q)
      BY <3>1 DEF WrittenBy, Uploaded
    <3> QED BY <1>4, <2>4, <3>2
  <2>5. ~cut' => \A f \in files' : f \in Holds(r) => f \in FilesOf(q.old)
    BY <2>4
  <2>6. files' \subseteq files /\ used <= used' /\ q.step \in {"attachments", "photos", "rights", "write"}
    BY <1>1, <1>2
  <2>7. \A f \in files : f \notin files' => f \in Holds(r) /\ f \notin FilesOf(q.old)
    BY <1>1
  <2> QED BY <1>1, <1>4, <2>2, <2>3, <2>5, <2>6, <2>7, CancelKeeps
<1> QED BY <1>3, <1>4 DEF CheckCommunity, Refuse, Answer

(* What a request that creates or updates a post has written is on disk,   *)
(* and what it keeps is what it has read.                                  *)
LEMMA NewFacts ==
    ASSUME IInv, NEW r \in Requests, NEW q, q = req[r], q.step = "write",
           q.op = "create" \/ (q.op = "update" /\ Clear(q.id)), NEW f \in FilesOf(q.new)
    PROVE  f \in files \/ f \in FilesOf(q.old)
<1>1. PICK k \in Kinds : f \in ToSet(q.new[k])
  BY FilesOfFacts DEF Kinds
<1>2. RequestOK(r) /\ KnowsThePost(r)
  BY DEF IInv
<1>3. CASE Uploaded(q, k)
  BY <1>1, <1>2, <1>3 DEF KnowsThePost
<1>4. CASE ~Uploaded(q, k)
  BY <1>1, <1>2, <1>4, FilesOfFacts DEF RequestOK
<1> QED BY <1>3, <1>4

(* CreatePost: the row is there, whether or not the service learns of it. *)
LEMMA InsertKeeps ==
    ASSUME IInv, NEW r \in Requests, req' = [req EXCEPT ![r] = NoRequest],
           req[r].step = "write", req[r].op = "create",
           created < MaxPosts, req[r].inside => community, created' = created + 1,
           posts' = With(posts, created + 1, [author |-> req[r].user, inside |-> req[r].inside,
                                              media |-> req[r].new]),
           UNCHANGED <<likes, commented, comments, world, used, received, overlapped, odd>>,
           \/ UNCHANGED <<files, cut, unsure>>
           \/ CleanUp(req[r]) /\ unsure' = unsure \cup {created + 1}
    PROVE  IInv'
<1> DEFINE q == req[r]
           p == created + 1
           row == [author |-> q.user, inside |-> q.inside, media |-> q.new]
<1>1. /\ likes' = likes /\ commented' = commented
      /\ comments' = comments /\ community' = community /\ subscribers' = subscribers
      /\ used' = used /\ received' = received /\ overlapped' = overlapped /\ odd' = odd
  BY DEF world
<1>2. /\ q \in Request /\ RequestOK(r) /\ KnowsThePost(r) /\ used \in 0..MaxFiles /\ created \in 0..MaxPosts
      /\ cut \in BOOLEAN /\ FilesHaveOneOwner /\ DOMAIN posts \subseteq 1..created
      /\ files \subseteq 1..used /\ overlapped \cup unsure \subseteq 1..MaxPosts
      /\ likes \subseteq (1..created) \X Users /\ odd \subseteq (1..created) \X Users
  BY DEF IInv, DiskAgrees, TypeOK
<1>3. q.user \in Users /\ q.inside \in BOOLEAN /\ q.new \in Media
  BY <1>2, RequestFields DEF RequestOK
<1>4. row \in [author : Users, inside : BOOLEAN, media : Media]
  BY <1>3
<1>5. row.author = q.user /\ row.inside = q.inside /\ row.media = q.new
  OBVIOUS
<1> HIDE DEF row
<1>6. /\ DOMAIN posts' = DOMAIN posts \cup {p} /\ posts'[p] = row
      /\ \A o \in DOMAIN posts : o # p => posts'[o] = posts[o]
  BY DEF With, row
<1>7. p \notin 1..created /\ p \in 1..created' /\ created' \in 0..MaxPosts /\ p \in 1..MaxPosts
      /\ 1..created \subseteq 1..created' /\ created <= created' /\ created \in Nat /\ used \in Nat
  BY <1>2, PostsAssumption
<1> HIDE DEF p
<1>8. /\ req' \in [Requests -> Request] /\ req'[r] = NoRequest
      /\ \A s \in Requests \ {r} : req'[s] = req[s]
  BY OneRequest, NoRequestFacts
<1>9. RequestOK(r)' /\ KnowsThePost(r)' /\ Holds(r)' = {}
  BY <1>8, IdleFacts
<1>10. /\ files' \subseteq files /\ (cut => cut') /\ cut' \in BOOLEAN
       /\ \A f \in files : f \notin files' => f \in Holds(r)
  <2>1. CASE UNCHANGED <<files, cut, unsure>>
    BY <1>2, <2>1
  <2>2. CASE CleanUp(q)
    <3>1. /\ files' \subseteq files /\ (cut => cut') /\ cut' \in BOOLEAN
          /\ \A f \in files : f \notin files' => f \in Holds(r) /\ f \notin FilesOf(q.old)
          /\ ~cut' => \A f \in files' : f \in Holds(r) => f \in FilesOf(q.old)
      BY <2>2, CleanUpFacts
    <3> QED BY <3>1
  <2> QED BY <2>1, <2>2
<1>11. unsure \subseteq unsure' /\ unsure' \subseteq unsure \cup {p}
  BY DEF p
<1>12. TypeOK'
  <2>1. \A o \in DOMAIN posts' : posts'[o] \in [author : Users, inside : BOOLEAN, media : Media]
    BY <1>4, <1>6 DEF IInv, DiskAgrees, TypeOK
  <2>2. likes' \subseteq (1..created') \X Users /\ odd' \subseteq (1..created') \X Users
    BY <1>1, <1>2, <1>7
  <2>3. DOMAIN posts' \subseteq 1..created' /\ files' \subseteq 1..used' /\ overlapped' \cup unsure' \subseteq 1..MaxPosts
    BY <1>1, <1>2, <1>6, <1>7, <1>10, <1>11
  <2>4. ASSUME NEW c \in DOMAIN comments' PROVE comments'[c] \in [post : 1..created', author : Users, edited : BOOLEAN]
    <3>1. comments[c] \in [post : 1..created, author : Users, edited : BOOLEAN]
      BY <1>1, <2>4 DEF IInv, DiskAgrees, TypeOK
    <3> QED BY <1>1, <1>7, <3>1
  <2> QED BY <1>1, <1>7, <1>8, <1>10, <2>1, <2>2, <2>3, <2>4 DEF IInv, DiskAgrees, TypeOK
<1>13. Writes(r, p)
  <2>1. p = created + 1
    BY DEF p
  <2>2. Distinct(q.new)
    BY <1>2 DEF KnowsThePost
  <2> QED BY <1>2, <1>5, <1>6, <1>9, <2>1, <2>2 DEF Writes, Holds
<1>14. Alone(r) /\ KeepsItsOwn(r)
  BY <1>1, <1>2, <1>6, <1>7, <1>8, <1>9, <1>10, <1>11, <1>13 DEF Alone, KeepsItsOwn
<1>15. OverlapsAreNoted'
  BY <1>1, <1>8, OverlapsKept
<1>16. LikesAreToggled'
  <2> SUFFICES ASSUME NEW o \in DOMAIN posts', o \notin unsure', NEW u \in Users
               PROVE  <<o, u>> \in likes <=> <<o, u>> \in odd
    BY <1>1 DEF LikesAreToggled, IsLiked
  <2>1. CASE o \in DOMAIN posts
    BY <1>11, <2>1 DEF IInv, LikesAreToggled, IsLiked
  <2>2. CASE o = p
    BY <1>2, <1>7, <2>2
  <2> QED BY <1>6, <2>1, <2>2
<1>17. CommunityPostsByCreator'
  <2>1. q.inside => community /\ q.user = Creator
    BY <1>2 DEF RequestOK
  <2> QED BY <1>1, <1>5, <1>6, <2>1 DEF IInv, CommunityPostsByCreator
<1>18. ~Changes(q) /\ q.old = NoMedia
  BY <1>2 DEF Changes, RequestOK
<1>19. ASSUME NEW o \in DOMAIN posts', Clear(o)', o \notin DOMAIN posts
       PROVE  FilesOf(posts'[o].media) \subseteq files'
  <2>1. o = p /\ p \notin unsure'
    BY <1>6, <1>19 DEF Clear
  <2>2. files' = files
    BY <2>1 DEF p
  <2>3. \A f \in FilesOf(q.new) : f \in files \/ f \in FilesOf(q.old)
    BY NewFacts
  <2> QED BY <1>5, <1>6, <1>18, <2>1, <2>2, <2>3, NoMediaFacts
<1>20. ASSUME Quiet', NEW f \in files', f \in Holds(r)
       PROVE  \E o \in DOMAIN posts' : f \in FilesOf(posts'[o].media)
  <2>1. f \in FilesOf(q.new)
    BY <1>18, <1>20, NoMediaFacts DEF Holds
  <2> QED BY <1>5, <1>6, <2>1
<1>21. \A o : ~Mine(o, r)
  BY <1>18 DEF Mine
<1>22. \A f \in files' : f \in files
  BY <1>10
<1> QED BY <1>9, <1>12, <1>14, <1>15, <1>16, <1>17, <1>19, <1>20, <1>21, <1>22, StepKeeps

(* A request whose write fails without effect deletes what it uploaded. *)
LEMMA FailsKeeps ==
    ASSUME IInv, NEW r \in Requests, req' = [req EXCEPT ![r] = NoRequest], CleanUp(req[r]),
           req[r].step = "write",
           UNCHANGED <<tables, world, used, received, overlapped, unsure, odd>>
    PROVE  IInv'
<1> DEFINE q == req[r]
<1>1. /\ created' = created /\ posts' = posts /\ likes' = likes /\ commented' = commented
      /\ comments' = comments /\ community' = community /\ subscribers' = subscribers
      /\ received' = received /\ overlapped' = overlapped /\ used' = used
      /\ unsure' = unsure /\ odd' = odd
  BY DEF tables, world
<1>2. /\ files' \subseteq files /\ (cut => cut') /\ cut' \in BOOLEAN
      /\ \A f \in files : f \notin files' => f \in Holds(r) /\ f \notin FilesOf(q.old)
      /\ ~cut' => \A f \in files' : f \in Holds(r) => f \in FilesOf(q.old)
  BY CleanUpFacts
<1>3. req' \in [Requests -> Request]
  BY OneRequest, NoRequestFacts
<1>4. TypeOK' /\ used <= used'
  BY <1>1, <1>2, <1>3 DEF IInv, DiskAgrees, TypeOK
<1> QED BY <1>1, <1>2, <1>4, CancelKeeps

(* CreatePost: the transaction and what the service makes of its result. *)
LEMMA CreatePostKeeps ==
    ASSUME IInv, NEW r \in Requests, CreatePost(r)
    PROVE  IInv'
<1> DEFINE q == req[r]
           row == [author |-> q.user, inside |-> q.inside, media |-> q.new]
           inserted == /\ created < MaxPosts /\ (q.inside => community)
                       /\ created' = created + 1 /\ posts' = With(posts, created + 1, row)
<1>1. /\ q.step = "write" /\ q.op = "create" /\ req' = [req EXCEPT ![r] = NoRequest]
      /\ UNCHANGED <<likes, commented, comments, world, used, received, overlapped, odd>>
  BY DEF CreatePost, Answer, Refuse
<1>2. \/ /\ inserted
         /\ UNCHANGED <<files, cut, unsure>> \/ (CleanUp(q) /\ unsure' = unsure \cup {created + 1})
      \/ CleanUp(q) /\ UNCHANGED <<created, posts, unsure>>
  <2>1. PICK err \in {Ok, "ErrDB"} : /\ InsertPost(q, err)
                                     /\ \/ err = Ok /\ UNCHANGED <<files, cut>>
                                        \/ err # Ok /\ CleanUp(q)
    BY DEF CreatePost
  <2>2. Ok # "ErrDB"
    BY DEF Ok
  <2> QED BY <2>1, <2>2 DEF InsertPost
<1>3. CASE inserted /\ (UNCHANGED <<files, cut, unsure>> \/ (CleanUp(q) /\ unsure' = unsure \cup {created + 1}))
  BY <1>1, <1>3, InsertKeeps
<1>4. CASE CleanUp(q) /\ UNCHANGED <<created, posts, unsure>>
  <2>1. UNCHANGED <<tables, world, used, received, overlapped, unsure, odd>>
    BY <1>1, <1>4 DEF tables
  <2> QED BY <1>1, <1>4, <2>1, FailsKeeps
<1> QED BY <1>2, <1>3, <1>4

(* UpdatePost: the row has its new media, and the request goes on to       *)
(* delete the old ones or does not know that it succeeded.                 *)
LEMMA UpdateKeeps ==
    ASSUME IInv, NEW r \in Requests, req[r].step = "write", req[r].op = "update",
           req[r].id \in DOMAIN posts, posts' = [posts EXCEPT ![req[r].id].media = req[r].new],
           UNCHANGED <<created, likes, commented, comments, world, used, received, overlapped, odd>>,
           \/ Goto(r, "unlink") /\ UNCHANGED <<files, cut, unsure>>
           \/ /\ req' = [req EXCEPT ![r] = NoRequest] /\ CleanUp(req[r])
              /\ unsure' = unsure \cup {req[r].id}
    PROVE  IInv'
<1> DEFINE q == req[r]
<1> PICK p : p = q.id
  OBVIOUS
<1>1. /\ created' = created /\ likes' = likes /\ commented' = commented
      /\ comments' = comments /\ community' = community /\ subscribers' = subscribers
      /\ used' = used /\ received' = received /\ overlapped' = overlapped /\ odd' = odd
  BY DEF world
<1>2. /\ q \in Request /\ RequestOK(r) /\ KnowsThePost(r) /\ used \in Nat /\ created \in 0..MaxPosts
      /\ cut \in BOOLEAN /\ FilesHaveOneOwner /\ DOMAIN posts \subseteq 1..created
      /\ files \subseteq 1..used /\ overlapped \cup unsure \subseteq 1..MaxPosts
      /\ \A o \in DOMAIN posts : posts[o] \in [author : Users, inside : BOOLEAN, media : Media]
  BY DEF IInv, DiskAgrees, TypeOK
<1>3. q.new \in Media /\ q.old \in Media
  BY <1>2, RequestFields
<1>4. /\ DOMAIN posts' = DOMAIN posts /\ \A o \in DOMAIN posts : o # p => posts'[o] = posts[o]
      /\ posts'[p] \in [author : Users, inside : BOOLEAN, media : Media]
      /\ posts'[p].media = q.new /\ posts'[p].author = posts[p].author
      /\ posts'[p].inside = posts[p].inside
  BY <1>2, <1>3
<1>5. Mine(p, r) /\ p \in 1..MaxPosts /\ created \in Nat
  BY <1>2, PostsAssumption DEF Mine, Changes
<1>6. Writes(r, p)
  <2>1. Clear(p)' => Clear(p)
    BY <1>1 DEF Clear
  <2>2. Clear(p) => Distinct(q.new)
    BY <1>2 DEF KnowsThePost, Changes
  <2> QED BY <1>2, <1>4, <1>5, <2>1, <2>2 DEF Writes, Holds
<1>7. LikesAreToggled' /\ CommunityPostsByCreator'
  <2>1. unsure \subseteq unsure'
    OBVIOUS
  <2>2. LikesAreToggled'
    BY <1>1, <1>4, <2>1 DEF IInv, LikesAreToggled, IsLiked
  <2> QED BY <1>1, <1>4, <2>2 DEF IInv, CommunityPostsByCreator
<1>8. \A o : Mine(o, r) => o = p
  BY DEF Mine
<1>9. ASSUME req' \in [Requests -> Request], cut' \in BOOLEAN, files' \subseteq files,
             unsure' \subseteq unsure \cup {p}
      PROVE  TypeOK'
  <2>1. overlapped' \cup unsure' \subseteq 1..MaxPosts
    BY <1>1, <1>2, <1>5, <1>9
  <2>2. \A o \in DOMAIN posts' : posts'[o] \in [author : Users, inside : BOOLEAN, media : Media]
    BY <1>2, <1>4
  <2> QED BY <1>1, <1>4, <1>9, <2>1, <2>2 DEF IInv, DiskAgrees, TypeOK
<1>10. CASE Goto(r, "unlink") /\ UNCHANGED <<files, cut, unsure>>
  <2>1. "unlink" \in Steps /\ files' = files /\ cut' = cut /\ unsure' = unsure
    BY <1>10 DEF Steps
  <2> DEFINE n == [q EXCEPT !.step = "unlink"]
  <2>2. /\ n \in Request /\ Alike(q, n) /\ n.step = "unlink"
        /\ n.old = q.old /\ n.new = q.new
    BY <1>2, <2>1, StepFacts
  <2>3. req' = [req EXCEPT ![r] = n]
    BY <1>10 DEF Goto
  <2> HIDE DEF n
  <2>4. /\ req' \in [Requests -> Request] /\ req'[r] = n
        /\ \A s \in Requests \ {r} : req'[s] = req[s]
    BY <2>2, <2>3, OneRequest
  <2>5. TypeOK'
    BY <1>2, <1>9, <2>1, <2>4
  <2>6. \A k \in Kinds : Uploaded(n, k) <=> Uploaded(q, k)
    BY <2>2 DEF Uploaded, Alike
  <2>7. RequestOK(r)'
    <3>1. n.step \in StepsOf(n.op) /\ n.op = "update" /\ n.step \notin Kinds
      BY <2>2 DEF StepsOf, Alike, Kinds
    <3> QED BY <1>1, <1>2, <2>2, <2>4, <2>6, <3>1 DEF RequestOK, Alike
  <2>8. KnowsThePost(r)'
    <3>1. Clear(p)' => Distinct(n.old) /\ Distinct(n.new)
      BY <1>1, <1>2, <2>1, <2>2 DEF KnowsThePost, Changes, Clear
    <3>2. n.id = p /\ n.op = "update"
      BY <2>2 DEF Alike
    <3> QED BY <1>4, <2>2, <2>4, <3>1, <3>2 DEF KnowsThePost
  <2>9. Holds(r)' = Holds(r)
    BY <2>2, <2>4 DEF Holds
  <2>10. Alone(r) /\ KeepsItsOwn(r)
    BY <1>1, <1>2, <1>4, <1>5, <1>6, <2>1, <2>2, <2>4, <2>9 DEF Alone, KeepsItsOwn, Alike
  <2>11. OverlapsAreNoted'
    BY <1>1, <2>2, <2>4, OverlapsKept DEF Alike
  <2>12. Holds(r)' \subseteq 1..used'
    BY <1>1, <1>2, <2>9 DEF FilesHaveOneOwner
  <2>13. (Clear(p)' => Clear(p)) /\ (Quiet' => Clear(p))
    BY <1>1, <2>1 DEF Clear, Quiet
  <2>14. Clear(p) => q.old = posts[p].media
    BY <1>2, <1>5 DEF KnowsThePost, Mine
  <2>15. ASSUME Clear(p)' PROVE FilesOf(posts'[p].media) \subseteq files'
    <3>1. \A f \in FilesOf(q.new) : f \in files \/ f \in FilesOf(q.old)
      BY <2>13, <2>15, NewFacts
    <3>2. FilesOf(posts[p].media) \subseteq files
      BY <2>13, <2>15 DEF IInv, DiskAgrees, FilesAreServed, Clear
    <3> QED BY <1>4, <2>1, <2>13, <2>14, <2>15, <3>1, <3>2
  <2>16. \A o \in DOMAIN posts' : Clear(o)' /\ (Mine(o, r) \/ o \notin DOMAIN posts) =>
            FilesOf(posts'[o].media) \subseteq files'
    BY <1>4, <1>8, <2>15
  <2>17. ASSUME Quiet', NEW f \in files', f \in FilesOf(posts[p].media) PROVE f \in Holds(r)
    BY <2>13, <2>14, <2>17 DEF Holds
  <2>18. Quiet' => \A f \in files' :
            \/ f \in Holds(r)
            \/ f \notin files
            \/ \E o \in DOMAIN posts : Mine(o, r) /\ f \in FilesOf(posts[o].media)
            => f \in Holds(r)'
    BY <1>8, <2>1, <2>9, <2>17
  <2> QED BY <1>7, <2>5, <2>7, <2>8, <2>10, <2>11, <2>12, <2>16, <2>18, StepKeeps
<1>11. CASE /\ req' = [req EXCEPT ![r] = NoRequest] /\ CleanUp(q)
            /\ unsure' = unsure \cup {p}
  <2>1. /\ files' \subseteq files /\ (cut => cut') /\ cut' \in BOOLEAN
        /\ \A f \in files : f \notin files' => f \in Holds(r) /\ f \notin FilesOf(q.old)
        /\ ~cut' => \A f \in files' : f \in Holds(r) => f \in FilesOf(q.old)
    BY <1>11, CleanUpFacts
  <2>2. /\ req' \in [Requests -> Request] /\ req'[r] = NoRequest
        /\ \A s \in Requests \ {r} : req'[s] = req[s]
    BY <1>11, OneRequest, NoRequestFacts
  <2>3. RequestOK(r)' /\ KnowsThePost(r)' /\ Holds(r)' = {}
    BY <2>2, IdleFacts
  <2>4. TypeOK'
    BY <1>9, <1>11, <2>1, <2>2
  <2>5. Alone(r) /\ KeepsItsOwn(r)
    BY <1>1, <1>2, <1>4, <1>5, <1>6, <1>11, <2>1, <2>2, <2>3 DEF Alone, KeepsItsOwn
  <2>6. OverlapsAreNoted'
    BY <1>1, <2>2, OverlapsKept
  <2>7. ~Clear(p)' /\ ~Quiet'
    <3>1. p \in unsure'
      BY <1>11
    <3> QED BY <3>1 DEF Quiet, Clear
  <2>8. \A o \in DOMAIN posts' : (o \notin unsure') /\ (Mine(o, r) \/ o \notin DOMAIN posts) =>
            FilesOf(posts'[o].media) \subseteq files'
    BY <1>4, <1>8, <1>11
  <2>9. \A o \in DOMAIN posts' : Clear(o)' /\ (Mine(o, r) \/ o \notin DOMAIN posts) =>
            FilesOf(posts'[o].media) \subseteq files'
    BY <2>8 DEF Clear
  <2> QED BY <1>7, <2>3, <2>4, <2>5, <2>6, <2>7, <2>9, StepKeeps
<1> QED BY <1>10, <1>11

(* UpdatePost: the same for an update. *)
LEMMA UpdatePostKeeps ==
    ASSUME IInv, NEW r \in Requests, UpdatePost(r)
    PROVE  IInv'
<1> DEFINE q == req[r]
<1>1. /\ q.step = "write" /\ q.op = "update"
      /\ UNCHANGED <<created, likes, commented, comments, world, used, received, overlapped, odd>>
  BY DEF UpdatePost
<1>2. CASE /\ q.id \in DOMAIN posts
           /\ posts' = [posts EXCEPT ![q.id].media = q.new]
           /\ \/ Goto(r, "unlink") /\ UNCHANGED <<files, cut, unsure>>
              \/ Refuse(r, "ErrDB") /\ CleanUp(q) /\ unsure' = unsure \cup {q.id}
  BY <1>1, <1>2, UpdateKeeps DEF Refuse, Answer
<1>3. CASE Refuse(r, "ErrDB") /\ CleanUp(q) /\ UNCHANGED <<posts, unsure>>
  <2>1. UNCHANGED <<tables, world, used, received, overlapped, unsure, odd>>
    BY <1>1, <1>3 DEF tables
  <2> QED BY <1>1, <1>3, <2>1, FailsKeeps DEF Refuse, Answer
<1> QED BY <1>2, <1>3 DEF UpdatePost

(* A request that deletes a post uploads nothing. *)
LEMMA DeleteHolds ==
    ASSUME IInv, NEW r \in Requests, req[r].op = "delete"
    PROVE  Holds(r) = FilesOf(req[r].old) /\ \A k \in Kinds : ~Uploaded(req[r], k)
<1>1. RequestOK(r)
  BY DEF IInv
<1>2. \A k \in Kinds : ~Uploaded(req[r], k)
  BY <1>1 DEF RequestOK, Uploaded
<1>3. \A f \in Holds(r) : f \in FilesOf(req[r].old)
  BY <1>2, HoldsFacts
<1> QED BY <1>2, <1>3 DEF Holds

(* DeletePost: the row is gone with its likes and comments. *)
LEMMA DeleteKeeps ==
    ASSUME IInv, NEW r \in Requests, req[r].step = "write", req[r].op = "delete",
           req[r].id \in DOMAIN posts, Cascade({req[r].id}),
           UNCHANGED <<created, commented, world, disk, received, overlapped, unsure, odd>>,
           \/ Goto(r, "unlink") /\ UNCHANGED cut
           \/ req' = [req EXCEPT ![r] = NoRequest] /\ cut' = TRUE
    PROVE  IInv'
<1> DEFINE q == req[r]
<1> PICK p : p = q.id
  OBVIOUS
<1>1. /\ created' = created /\ commented' = commented /\ community' = community
      /\ subscribers' = subscribers /\ files' = files
      /\ used' = used /\ received' = received /\ overlapped' = overlapped /\ odd' = odd
      /\ unsure' = unsure
  BY DEF world, disk
<1>2. /\ q \in Request /\ RequestOK(r) /\ KnowsThePost(r) /\ used \in Nat /\ created \in Nat
      /\ cut \in BOOLEAN /\ FilesHaveOneOwner /\ DOMAIN posts \subseteq 1..created
  BY DEF IInv, DiskAgrees, TypeOK
<1>3. /\ DOMAIN posts' = DOMAIN posts \ {p} /\ \A o \in DOMAIN posts' : posts'[o] = posts[o]
      /\ likes' = {l \in likes : l[1] # p}
      /\ DOMAIN comments' \subseteq DOMAIN comments
      /\ \A c \in DOMAIN comments' : comments'[c] = comments[c]
  BY DEF Cascade
<1>4. Mine(p, r) /\ \A o : Mine(o, r) => o = p
  BY DEF Mine, Changes
<1>5. LikesAreToggled' /\ CommunityPostsByCreator'
  <2>1. LikesAreToggled'
    <3> SUFFICES ASSUME NEW o \in DOMAIN posts', o \notin unsure, NEW u \in Users
                 PROVE  <<o, u>> \in likes' <=> <<o, u>> \in odd
      BY <1>1 DEF LikesAreToggled, IsLiked
    <3>1. o \in DOMAIN posts /\ o # p /\ <<o, u>>[1] = o
      BY <1>3
    <3>2. <<o, u>> \in likes <=> <<o, u>> \in odd
      BY <3>1 DEF IInv, LikesAreToggled, IsLiked
    <3> QED BY <1>3, <3>1, <3>2
  <2> QED BY <1>1, <1>3, <2>1 DEF IInv, CommunityPostsByCreator
<1>6. ASSUME req' \in [Requests -> Request], cut' \in BOOLEAN
      PROVE  TypeOK'
  <2>1. DOMAIN posts' \subseteq DOMAIN posts /\ likes' \subseteq likes
    BY <1>3
  <2> QED BY <1>1, <1>3, <1>6, <2>1 DEF IInv, DiskAgrees, TypeOK
<1>7. CASE Goto(r, "unlink") /\ UNCHANGED cut
  <2>1. "unlink" \in Steps /\ cut' = cut
    BY <1>7 DEF Steps
  <2> DEFINE n == [q EXCEPT !.step = "unlink"]
  <2>2. /\ n \in Request /\ Alike(q, n) /\ n.step = "unlink"
        /\ n.old = q.old /\ n.new = q.new
    BY <1>2, <2>1, StepFacts
  <2>3. req' = [req EXCEPT ![r] = n]
    BY <1>7 DEF Goto
  <2> HIDE DEF n
  <2>4. /\ req' \in [Requests -> Request] /\ req'[r] = n
        /\ \A s \in Requests \ {r} : req'[s] = req[s]
    BY <2>2, <2>3, OneRequest
  <2>5. TypeOK'
    BY <1>2, <1>6, <2>1, <2>4
  <2>6. \A k \in Kinds : Uploaded(n, k) <=> Uploaded(q, k)
    BY <2>2 DEF Uploaded, Alike
  <2>7. RequestOK(r)'
    <3>1. n.step \in StepsOf(n.op) /\ n.op = "delete" /\ n.step \notin Kinds
      BY <2>2 DEF StepsOf, Alike, Kinds
    <3>2. n.id \notin DOMAIN posts'
      BY <1>3, <2>2 DEF Alike
    <3> QED BY <1>1, <1>2, <2>2, <2>4, <2>6, <3>1, <3>2 DEF RequestOK, Alike
  <2>8. KnowsThePost(r)'
    <3>1. n.id \notin DOMAIN posts' /\ n.op = "delete"
      BY <1>3, <2>2 DEF Alike
    <3>2. Clear(p)' => Distinct(n.old) /\ Distinct(n.new)
      BY <1>1, <1>2, <2>2 DEF KnowsThePost, Changes, Clear
    <3>3. n.id = p
      BY <2>2 DEF Alike
    <3> QED BY <2>2, <2>4, <3>1, <3>2, <3>3 DEF KnowsThePost
  <2>9. Holds(r)' = Holds(r)
    BY <2>2, <2>4 DEF Holds
  <2>10. Alone(r) /\ KeepsItsOwn(r)
    BY <1>1, <1>2, <1>3, <1>4, <2>1, <2>2, <2>4, <2>9 DEF Alone, KeepsItsOwn, Alike
  <2>11. OverlapsAreNoted'
    BY <1>1, <2>2, <2>4, OverlapsKept DEF Alike
  <2>12. Holds(r)' \subseteq 1..used'
    BY <1>1, <1>2, <2>9 DEF FilesHaveOneOwner
  <2>13. ASSUME Quiet', NEW f \in FilesOf(posts[p].media) PROVE f \in Holds(r)
    <3>1. Clear(p)
      BY <1>1, <2>1, <2>13 DEF Clear, Quiet
    <3>2. q.old = posts[p].media
      BY <1>2, <1>4, <3>1 DEF KnowsThePost, Mine
    <3> QED BY <2>13, <3>2 DEF Holds
  <2>14. \A o \in DOMAIN posts' : o \in DOMAIN posts /\ ~Mine(o, r)
    BY <1>3, <1>4
  <2>15. Quiet' => \A f \in files' :
            \/ f \in Holds(r)
            \/ f \notin files
            \/ \E o \in DOMAIN posts : Mine(o, r) /\ f \in FilesOf(posts[o].media)
            => f \in Holds(r)'
    BY <1>1, <1>4, <2>9, <2>13
  <2> QED BY <1>5, <2>5, <2>7, <2>8, <2>10, <2>11, <2>12, <2>14, <2>15, StepKeeps
<1>8. CASE req' = [req EXCEPT ![r] = NoRequest] /\ cut' = TRUE
  <2>1. /\ req' \in [Requests -> Request] /\ req'[r] = NoRequest
        /\ \A s \in Requests \ {r} : req'[s] = req[s]
    BY <1>8, OneRequest, NoRequestFacts
  <2>2. RequestOK(r)' /\ KnowsThePost(r)' /\ Holds(r)' = {}
    BY <2>1, IdleFacts
  <2>3. TypeOK'
    BY <1>6, <1>8, <2>1
  <2>4. Alone(r) /\ KeepsItsOwn(r)
    BY <1>1, <1>2, <1>3, <1>4, <1>8, <2>1, <2>2 DEF Alone, KeepsItsOwn
  <2>5. OverlapsAreNoted'
    BY <1>1, <2>1, OverlapsKept
  <2>6. ~Quiet'
    BY <1>8 DEF Quiet
  <2>7. \A o \in DOMAIN posts' : o \in DOMAIN posts /\ ~Mine(o, r)
    BY <1>3, <1>4
  <2> QED BY <1>5, <2>2, <2>3, <2>4, <2>5, <2>6, <2>7, StepKeeps
<1> QED BY <1>7, <1>8

(* DeletePost: the same for a deletion. *)
LEMMA DeletePostKeeps ==
    ASSUME IInv, NEW r \in Requests, DeletePost(r)
    PROVE  IInv'
<1> DEFINE q == req[r]
<1>1. /\ q.step = "write" /\ q.op = "delete"
      /\ UNCHANGED <<created, commented, world, disk, received, overlapped, unsure, odd>>
  BY DEF DeletePost
<1>2. CASE /\ q.id \in DOMAIN posts /\ Cascade({q.id})
           /\ \/ Goto(r, "unlink") /\ UNCHANGED cut
              \/ Refuse(r, "ErrDB") /\ cut' = TRUE
  BY <1>1, <1>2, DeleteKeeps DEF Refuse, Answer
<1>3. CASE Refuse(r, "ErrDB") /\ UNCHANGED <<posts, likes, comments, cut>>
  <2>1. /\ created' = created /\ posts' = posts /\ likes' = likes /\ commented' = commented
        /\ comments' = comments /\ community' = community /\ subscribers' = subscribers
        /\ files' = files /\ used' = used /\ received' = received /\ overlapped' = overlapped
        /\ unsure' = unsure /\ cut' = cut /\ odd' = odd
    BY <1>1, <1>3 DEF world, disk
  <2>2. req' = [req EXCEPT ![r] = NoRequest]
    BY <1>3 DEF Refuse, Answer
  <2>3. req' \in [Requests -> Request]
    BY <2>2, OneRequest, NoRequestFacts
  <2>4. TypeOK' /\ used <= used'
    BY <2>1, <2>3 DEF IInv, DiskAgrees, TypeOK
  <2>5. Holds(r) = FilesOf(q.old)
    BY <1>1, DeleteHolds
  <2>6. \A f \in files : f \notin files' => f \in Holds(r) /\ f \notin FilesOf(q.old)
    BY <2>1
  <2>7. ~cut' => \A f \in files' : f \in Holds(r) => f \in FilesOf(q.old)
    BY <2>5
  <2> QED BY <1>1, <2>1, <2>2, <2>4, <2>6, <2>7, CancelKeeps
<1> QED BY <1>2, <1>3 DEF DeletePost

(* The last step of a request: old files are deleted. *)
LEMMA DeleteFilesKeeps ==
    ASSUME IInv, NEW r \in Requests, NEW gone, NEW leaving, DeleteFiles(r, gone, leaving),
           gone \subseteq FilesOf(req[r].old),
           \A p \in DOMAIN posts : Clear(p) /\ Mine(p, r) => gone \cap FilesOf(posts[p].media) = {},
           Quiet => \A f \in Holds(r) : \/ f \in gone
                                        \/ \E p \in DOMAIN posts : f \in FilesOf(posts[p].media)
    PROVE  IInv'
<1>1. /\ created' = created /\ posts' = posts /\ likes' = likes /\ commented' = commented
      /\ comments' = comments /\ community' = community /\ subscribers' = subscribers
      /\ received' = received /\ overlapped' = overlapped /\ used' = used
      /\ unsure' = unsure /\ odd' = odd /\ req' = [req EXCEPT ![r] = NoRequest]
  BY DEF DeleteFiles, tables, world, Answer
<1>2. PICK kept \in leaving : files' = files \ (gone \ kept) /\ cut' = (cut \/ kept # {})
  BY DEF DeleteFiles
<1>3. cut \in BOOLEAN /\ used \in Nat /\ created \in Nat
  BY DEF IInv, DiskAgrees, TypeOK
<1>4. /\ files' \subseteq files /\ (cut => cut') /\ cut' \in BOOLEAN
      /\ \A f \in files : f \notin files' => f \in gone
      /\ ~cut' => \A f \in files' : f \notin gone
  BY <1>2, <1>3
<1>5. /\ req' \in [Requests -> Request] /\ req'[r] = NoRequest
      /\ \A s \in Requests \ {r} : req'[s] = req[s]
  BY <1>1, OneRequest, NoRequestFacts
<1>6. RequestOK(r)' /\ KnowsThePost(r)' /\ Holds(r)' = {}
  BY <1>5, IdleFacts
<1>7. TypeOK'
  BY <1>1, <1>4, <1>5 DEF IInv, DiskAgrees, TypeOK
<1>8. Alone(r) /\ KeepsItsOwn(r)
  BY <1>1, <1>3, <1>4, <1>5, <1>6 DEF Alone, KeepsItsOwn, Holds
<1>9. OverlapsAreNoted'
  BY <1>1, <1>5, OverlapsKept
<1>10. LikesAreToggled' /\ CommunityPostsByCreator'
  BY <1>1 DEF IInv, LikesAreToggled, IsLiked, CommunityPostsByCreator
<1>11. (\A p : Clear(p)' => Clear(p)) /\ (Quiet' => Quiet)
  BY <1>1, <1>4, ClearFacts
<1>12. ASSUME NEW p \in DOMAIN posts', Clear(p)', Mine(p, r)
       PROVE  FilesOf(posts'[p].media) \subseteq files'
  <2>1. FilesOf(posts[p].media) \subseteq files
    BY <1>1, <1>11, <1>12 DEF IInv, DiskAgrees, FilesAreServed, Clear
  <2>2. gone \cap FilesOf(posts[p].media) = {}
    BY <1>1, <1>11, <1>12
  <2> QED BY <1>1, <1>4, <2>1, <2>2
<1>13. ASSUME Quiet', NEW f \in files', f \in Holds(r)
       PROVE  \E p \in DOMAIN posts' : f \in FilesOf(posts'[p].media)
  <2>1. f \notin gone
    BY <1>4, <1>13 DEF Quiet
  <2> QED BY <1>1, <1>11, <1>13, <2>1
<1>14. \A f \in files' : f \in files
  BY <1>4
<1> QED BY <1>1, <1>6, <1>7, <1>8, <1>9, <1>10, <1>12, <1>13, <1>14, StepKeeps

(* UpdatePost deletes what it has replaced and nothing else. *)
LEMMA UpdatePostUnlinksKeeps ==
    ASSUME IInv, NEW r \in Requests, UpdatePostUnlinks(r)
    PROVE  IInv'
<1> DEFINE q == req[r]
           gone == FilesOf(ReplacedFiles(q))
<1>1. q.step = "unlink" /\ q.op = "update" /\ DeleteFiles(r, gone, LeftOf(ReplacedFiles(q)))
  BY DEF UpdatePostUnlinks
<1>2. RequestOK(r) /\ KnowsThePost(r) /\ q.old \in Media
  BY RequestFields DEF IInv, DiskAgrees, TypeOK
<1>3. ASSUME NEW f \in gone PROVE \E k \in Kinds : Uploaded(q, k) /\ f \in ToSet(q.old[k])
  <2>1. PICK k \in Kinds : f \in ToSet(ReplacedFiles(q)[k])
    BY FilesOfFacts DEF Kinds
  <2>2. ReplacedFiles(q)[k] = IF q.sent[k] > 0 THEN q.old[k] ELSE <<>>
    BY DEF ReplacedFiles
  <2>3. q.sent[k] > 0
    BY <2>1, <2>2 DEF ToSet
  <2> QED BY <1>1, <2>1, <2>2, <2>3 DEF Uploaded
<1>4. ASSUME NEW k \in Kinds, Uploaded(q, k), NEW f \in ToSet(q.old[k]) PROVE f \in gone
  <2>1. ReplacedFiles(q)[k] = q.old[k]
    BY <1>4 DEF ReplacedFiles, Uploaded
  <2> QED BY <1>4, <2>1, FilesOfFacts
<1> HIDE DEF gone
<1>5. gone \subseteq FilesOf(q.old)
  BY <1>3, FilesOfFacts
<1>6. ASSUME Clear(q.id), NEW f \in gone, f \in FilesOf(q.new) PROVE FALSE
  <2>1. PICK k \in Kinds : Uploaded(q, k) /\ f \in ToSet(q.old[k])
    BY <1>3
  <2>2. PICK j \in Kinds : f \in ToSet(q.new[j])
    BY <1>6, FilesOfFacts DEF Kinds
  <2>3. ~Uploaded(q, j)
    BY <1>2, <1>5, <2>2 DEF RequestOK
  <2>4. f \in ToSet(q.old[j]) /\ j # k
    BY <1>2, <2>1, <2>2, <2>3 DEF RequestOK
  <2>5. Distinct(q.old)
    BY <1>1, <1>2, <1>6 DEF KnowsThePost, Changes
  <2> QED BY <2>1, <2>4, <2>5 DEF Distinct, Kinds
<1>7. ASSUME NEW f \in Holds(r), f \notin gone PROVE f \in FilesOf(q.new)
  <2>1. SUFFICES ASSUME f \in FilesOf(q.old) PROVE f \in FilesOf(q.new)
    BY DEF Holds
  <2>2. PICK k \in Kinds : f \in ToSet(q.old[k])
    BY <2>1, FilesOfFacts DEF Kinds
  <2>3. ~Uploaded(q, k)
    BY <1>4, <1>7, <2>2
  <2>4. q.new[k] = q.old[k]
    BY <1>2, <2>3 DEF RequestOK
  <2> QED BY <2>2, <2>4, FilesOfFacts
<1>8. ASSUME NEW p \in DOMAIN posts, Clear(p), Mine(p, r) PROVE gone \cap FilesOf(posts[p].media) = {}
  <2>1. q.new = posts[p].media
    BY <1>1, <1>2, <1>8 DEF KnowsThePost, Mine
  <2>2. Clear(q.id)
    BY <1>8 DEF Mine
  <2> QED BY <1>6, <2>1, <2>2
<1>9. ASSUME Quiet, NEW f \in Holds(r), f \notin gone
      PROVE  \E p \in DOMAIN posts : f \in FilesOf(posts[p].media)
  <2>1. f \in FilesOf(q.new) /\ Changes(q) /\ Clear(q.id)
    BY <1>1, <1>7, <1>9 DEF Changes, Quiet, Clear
  <2>2. q.new # NoMedia
    BY <2>1, NoMediaFacts
  <2>3. q.id \in DOMAIN posts /\ q.new = posts[q.id].media
    BY <1>1, <1>2, <1>9, <2>1, <2>2 DEF KnowsThePost
  <2> QED BY <2>1, <2>3
<1> QED BY <1>1, <1>5, <1>8, <1>9, DeleteFilesKeeps

(* DeletePost deletes the files of a post that is gone. *)
LEMMA DeletePostUnlinksKeeps ==
    ASSUME IInv, NEW r \in Requests, DeletePostUnlinks(r)
    PROVE  IInv'
<1> DEFINE q == req[r]
           gone == FilesOf(q.old)
           leaving == Left(q.old["attachments"] \o q.old["photos"])
<1>1. q.step = "unlink" /\ q.op = "delete" /\ DeleteFiles(r, gone, leaving)
  BY DEF DeletePostUnlinks
<1>2. Holds(r) = gone
  BY <1>1, DeleteHolds
<1>3. q.id \notin DOMAIN posts
  BY <1>1 DEF IInv, RequestOK
<1>4. \A p \in DOMAIN posts : ~Mine(p, r)
  BY <1>3 DEF Mine
<1> HIDE DEF leaving
<1> QED BY <1>1, <1>2, <1>4, DeleteFilesKeeps

-------------------------------------------------------------------------------
(* Requests that arrive. *)

(* An arrival has no files yet, and is noted if it meets another change. *)
LEMMA ArriveKeeps ==
    ASSUME IInv, NEW r \in Requests, NEW q \in Request, NEW step \in Steps, Arrive(r, q, step),
           q.user \in Users, q.old = NoMedia, q.new = NoMedia, step # "idle",
           step \in StepsOf(q.op),
           q.op \in {"update", "delete", "like", "comment"} => q.id \in 1..created,
           q.op = "delete" => \A k \in Kinds : q.sent[k] = 0,
           q.op = "create" => step = FirstUpload(q),
           q.op # "create" => step \in {"read", "snapshot", "lookup"}
    PROVE  IInv'
<1> DEFINE n == [q EXCEPT !.step = step]
<1>1. /\ n \in Request /\ Alike(q, n) /\ n.step = step
      /\ n.old = q.old /\ n.new = q.new
  BY StepFacts
<1>2. req' = [req EXCEPT ![r] = n]
  BY DEF Arrive
<1> HIDE DEF n
<1>3. /\ req' \in [Requests -> Request] /\ req'[r] = n
      /\ \A s \in Requests \ {r} : req'[s] = req[s]
  BY <1>1, <1>2, OneRequest
<1>4. /\ created' = created /\ posts' = posts /\ likes' = likes /\ commented' = commented
      /\ comments' = comments /\ community' = community /\ subscribers' = subscribers
      /\ files' = files /\ used' = used /\ unsure' = unsure /\ cut' = cut /\ odd' = odd
  BY DEF Arrive, tables, world, disk
<1>5. /\ created \in 0..MaxPosts /\ used \in Nat /\ received \in 0..MaxReceived
      /\ overlapped \cup unsure \subseteq 1..MaxPosts
  BY DEF IInv, DiskAgrees, TypeOK
<1>6. received' \in 0..MaxReceived
  BY <1>5, PostsAssumption DEF Arrive
<1>7. overlapped \subseteq overlapped' /\ overlapped' \subseteq overlapped \cup {q.id}
  BY DEF Arrive
<1>8. Changes(q) => q.id \in 1..MaxPosts
  BY <1>5, PostsAssumption DEF Changes
<1>9. overlapped' \cup unsure' \subseteq 1..MaxPosts
  <2>1. ~Changes(q) => overlapped' = overlapped
    BY DEF Arrive
  <2> QED BY <1>4, <1>5, <1>7, <1>8, <2>1
<1>10. TypeOK'
  BY <1>3, <1>4, <1>6, <1>9 DEF IInv, DiskAgrees, TypeOK
<1>11. Holds(r)' = {}
  BY <1>1, <1>3, NoMediaFacts DEF Holds
<1>12. req[r] = NoRequest
  BY DEF Arrive, Busy, IInv, RequestOK
<1>13. Holds(r) = {} /\ \A p : ~Mine(p, r)
  BY <1>12, NoRequestFacts, NoMediaFacts DEF Holds, Mine
<1>14. q.sent \in [Kinds -> Nat] /\ q.op \in Ops
  BY RequestFields
<1>15. \A k \in Kinds : ~Uploaded(n, k)
  <2>1. CASE q.op = "create"
    BY <1>1, <2>1, UploadFacts DEF Uploaded, Alike, Kinds
  <2>2. CASE q.op # "create"
    BY <1>1, <2>2 DEF Uploaded
  <2> QED BY <2>1, <2>2
<1>16. RequestOK(r)'
  <2>1. step \in Kinds => q.sent[step] > 0
    <3>1. CASE q.op = "create"
      BY <1>14, <3>1, UploadFacts DEF Kinds
    <3>2. CASE q.op # "create"
      BY <3>2 DEF Kinds
    <3> QED BY <3>1, <3>2
  <2>2. q.op = "create" /\ q.inside => step # "write"
    BY UploadFacts
  <2>3. step # "unlink" /\ step # "album"
    BY UploadFacts
  <2>4. /\ n.step \in StepsOf(n.op) /\ n.step # "idle" /\ n.user \in Users
        /\ n.op \in {"update", "delete", "like", "comment"} => n.id \in 1..created'
        /\ n.old = NoMedia /\ n.new = NoMedia
        /\ n.op = "delete" => \A k \in Kinds : n.sent[k] = 0
        /\ n.step \in Kinds => n.sent[n.step] > 0
        /\ n.op = "create" /\ n.inside => n.step # "write"
        /\ n.step # "unlink" /\ n.step # "album"
    BY <1>1, <1>4, <2>1, <2>2, <2>3 DEF Alike
  <2> QED BY <1>3, <1>15, <2>4, NoMediaFacts DEF RequestOK
<1>17. KnowsThePost(r)'
  BY <1>1, <1>3, <1>15, NoMediaFacts DEF KnowsThePost, Changes, Alike
<1>18. Alone(r) /\ KeepsItsOwn(r)
  BY <1>3, <1>4, <1>5, <1>7, <1>11 DEF Alone, KeepsItsOwn
<1>19. OverlapsAreNoted'
  <2>1. ASSUME NEW s \in Requests, s # r, Changes(req[s]), Changes(q), req[s].id = q.id
        PROVE  q.id \in overlapped'
    <3>1. Busy(s)
      BY <2>1, NoRequestFacts DEF Busy, IInv, RequestOK
    <3> QED BY <2>1, <3>1 DEF Arrive
  <2>2. Changes(n) => Changes(q) /\ n.id = q.id
    BY <1>1 DEF Changes, Alike
  <2> SUFFICES ASSUME NEW s \in Requests, NEW t \in Requests, s # t, Changes(req'[s]),
                      Changes(req'[t]), req'[s].id = req'[t].id
               PROVE  req'[s].id \in overlapped'
    BY DEF OverlapsAreNoted
  <2>3. CASE s # r /\ t # r
    BY <1>3, <1>7, <2>3 DEF IInv, OverlapsAreNoted
  <2>4. CASE s = r
    BY <1>3, <2>1, <2>2, <2>4
  <2>5. CASE t = r
    BY <1>3, <2>1, <2>2, <2>5
  <2> QED BY <2>3, <2>4, <2>5
<1>20. LikesAreToggled' /\ CommunityPostsByCreator'
  BY <1>4 DEF IInv, LikesAreToggled, IsLiked, CommunityPostsByCreator
<1> QED BY <1>4, <1>10, <1>11, <1>13, <1>16, <1>17, <1>18, <1>19, <1>20, StepKeeps

(* What a handler makes of its parameters. *)
NewRequest(op, u, i, b, s) ==
    [NoRequest EXCEPT !.op = op, !.user = u, !.id = i, !.inside = b, !.sent = s]

(* What is in it. *)
LEMMA NewRequestFacts ==
    ASSUME NEW op \in Ops, NEW u \in Users, NEW i \in Nat, NEW b \in BOOLEAN, NEW s \in [Kinds -> Nat]
    PROVE  LET q == NewRequest(op, u, i, b, s)
           IN  /\ q \in Request /\ q.op = op /\ q.user = u /\ q.id = i /\ q.inside = b /\ q.sent = s
               /\ q.old = NoMedia /\ q.new = NoMedia
<1>1. NoRequest \in Request /\ NoRequest.old = NoMedia /\ NoRequest.new = NoMedia
  BY NoRequestFacts
<1> QED BY <1>1 DEF Request, NewRequest

(* The handlers. *)
LEMMA ReceiveKeeps ==
    ASSUME IInv, NEW r \in Requests, Receive(r)
    PROVE  IInv'
<1> DEFINE none == [k \in Kinds |-> 0]
<1>1. /\ NoRequest \in Request /\ NoRequest.id = 0 /\ NoRequest.inside \in BOOLEAN /\ NoRequest.sent = none
      /\ none \in [Kinds -> Nat] /\ \A k \in Kinds : none[k] = 0
  BY NoRequestFacts DEF NoRequest
<1> PICK no \in BOOLEAN : no = NoRequest.inside
  BY <1>1
<1>2. Sent \subseteq [Kinds -> Nat]
  BY DEF Sent
<1>3. created \in Nat /\ commented \in Nat
  BY DEF IInv, DiskAgrees, TypeOK
<1>4. /\ {"read", "snapshot", "lookup", "attachments", "photos", "rights", "write"} \subseteq Steps
      /\ {"create", "update", "delete", "like", "comment", "edit", "uncomment"} \subseteq Ops
  BY DEF Steps, Ops
<1> HIDE DEF none
<1>5. CASE CreatePostHandler(r)
  <2>1. PICK u \in Users, i \in BOOLEAN, s \in Sent :
           Arrive(r, [NoRequest EXCEPT !.op = "create", !.user = u, !.inside = i, !.sent = s],
                  FirstUpload([NoRequest EXCEPT !.op = "create", !.user = u, !.inside = i, !.sent = s]))
    BY <1>5 DEF CreatePostHandler
  <2>2. [NoRequest EXCEPT !.op = "create", !.user = u, !.inside = i, !.sent = s] = NewRequest("create", u, 0, i, s)
    BY <1>1 DEF Request, NewRequest
  <2> PICK n : n = NewRequest("create", u, 0, i, s)
    OBVIOUS
  <2>3. Arrive(r, n, FirstUpload(n))
    BY <2>1, <2>2
  <2>4. "create" \in Ops /\ s \in [Kinds -> Nat] /\ 0 \in Nat
    BY <1>2, <1>4
  <2>5. /\ n \in Request /\ n.op = "create" /\ n.user = u /\ n.id = 0 /\ n.inside = i /\ n.sent = s
        /\ n.old = NoMedia /\ n.new = NoMedia
    BY <2>4, NewRequestFacts
  <2>6. FirstUpload(n) \in {"attachments", "photos", "rights", "write"}
    BY UploadFacts
  <2>7. FirstUpload(n) \in Steps /\ FirstUpload(n) \in StepsOf(n.op) /\ FirstUpload(n) # "idle"
    BY <1>4, <2>5, <2>6 DEF StepsOf
  <2> QED BY <2>3, <2>5, <2>7, ArriveKeeps
<1>6. ASSUME NEW op \in {"update", "delete", "like", "comment", "edit", "uncomment"}, NEW u \in Users,
             NEW i \in Nat, NEW s \in [Kinds -> Nat], NEW step \in {"read", "snapshot", "lookup"},
             Arrive(r, NewRequest(op, u, i, no, s), step), step \in StepsOf(op),
             op \in {"update", "delete", "like", "comment"} => i \in 1..created,
             op = "delete" => s = none
      PROVE  IInv'
  <2> PICK n : n = NewRequest(op, u, i, no, s)
    OBVIOUS
  <2>1. op \in Ops /\ step \in Steps /\ step # "idle"
    BY <1>4, <1>6
  <2>2. /\ n \in Request /\ n.op = op /\ n.user = u /\ n.id = i /\ n.inside = no /\ n.sent = s
        /\ n.old = NoMedia /\ n.new = NoMedia
    BY <2>1, NewRequestFacts
  <2>3. Arrive(r, n, step) /\ (n.op = "delete" => \A k \in Kinds : n.sent[k] = 0)
    BY <1>1, <1>6, <2>2
  <2> QED BY <1>6, <2>1, <2>2, <2>3, ArriveKeeps
<1>7. ASSUME NEW op \in Ops, NEW u \in Users, NEW i \in Nat, NEW s \in [Kinds -> Nat]
      PROVE  /\ [NoRequest EXCEPT !.op = op, !.user = u, !.id = i, !.sent = s] = NewRequest(op, u, i, no, s)
             /\ [NoRequest EXCEPT !.op = op, !.user = u, !.id = i] = NewRequest(op, u, i, no, none)
  BY <1>1 DEF Request, NewRequest
<1>8. CASE UpdatePostHandler(r)
  <2>1. PICK u \in Users, p \in 1..created, s \in Sent :
           Arrive(r, [NoRequest EXCEPT !.op = "update", !.user = u, !.id = p, !.sent = s], "read")
    BY <1>8 DEF UpdatePostHandler
  <2>2. "update" \in Ops /\ p \in Nat /\ s \in [Kinds -> Nat] /\ "read" \in StepsOf("update")
    BY <1>2, <1>3, <1>4 DEF StepsOf
  <2>4. [NoRequest EXCEPT !.op = "update", !.user = u, !.id = p, !.sent = s] = NewRequest("update", u, p, no, s)
    BY <1>1, <2>2 DEF Request, NewRequest
  <2>3. Arrive(r, NewRequest("update", u, p, no, s), "read")
    BY <2>1, <2>4
  <2> QED BY <1>6, <2>2, <2>3
<1>9. CASE DeletePostHandler(r)
  <2>1. PICK u \in Users, p \in 1..created :
           Arrive(r, [NoRequest EXCEPT !.op = "delete", !.user = u, !.id = p], "read")
    BY <1>9 DEF DeletePostHandler
  <2>2. "delete" \in Ops /\ p \in Nat /\ "read" \in StepsOf("delete")
    BY <1>3, <1>4 DEF StepsOf
  <2>3. Arrive(r, NewRequest("delete", u, p, no, none), "read")
    BY <1>1, <1>7, <2>1, <2>2
  <2> QED BY <1>1, <1>6, <2>2, <2>3
<1>10. CASE UpdateLikeOnPostHandler(r)
  <2>1. PICK u \in Users, p \in 1..created :
           Arrive(r, [NoRequest EXCEPT !.op = "like", !.user = u, !.id = p], "snapshot")
    BY <1>10 DEF UpdateLikeOnPostHandler
  <2>2. "like" \in Ops /\ p \in Nat /\ "snapshot" \in StepsOf("like")
    BY <1>3, <1>4 DEF StepsOf
  <2>3. Arrive(r, NewRequest("like", u, p, no, none), "snapshot")
    BY <1>1, <1>7, <2>1, <2>2
  <2> QED BY <1>1, <1>6, <2>2, <2>3
<1>11. CASE CreateCommentHandler(r)
  <2>1. PICK u \in Users, p \in 1..created :
           Arrive(r, [NoRequest EXCEPT !.op = "comment", !.user = u, !.id = p], "read")
    BY <1>11 DEF CreateCommentHandler
  <2>2. "comment" \in Ops /\ p \in Nat /\ "read" \in StepsOf("comment")
    BY <1>3, <1>4 DEF StepsOf
  <2>3. Arrive(r, NewRequest("comment", u, p, no, none), "read")
    BY <1>1, <1>7, <2>1, <2>2
  <2> QED BY <1>1, <1>6, <2>2, <2>3
<1>12. CASE UpdateCommentHandler(r)
  <2>1. PICK u \in Users, c \in 1..commented :
           Arrive(r, [NoRequest EXCEPT !.op = "edit", !.user = u, !.id = c], "lookup")
    BY <1>12 DEF UpdateCommentHandler
  <2>2. "edit" \in Ops /\ c \in Nat /\ "lookup" \in StepsOf("edit")
    BY <1>3, <1>4 DEF StepsOf
  <2>3. Arrive(r, NewRequest("edit", u, c, no, none), "lookup")
    BY <1>1, <1>7, <2>1, <2>2
  <2> QED BY <1>1, <1>6, <2>2, <2>3
<1>13. CASE DeleteCommentHandler(r)
  <2>1. PICK u \in Users, c \in 1..commented :
           Arrive(r, [NoRequest EXCEPT !.op = "uncomment", !.user = u, !.id = c], "lookup")
    BY <1>13 DEF DeleteCommentHandler
  <2>2. "uncomment" \in Ops /\ c \in Nat /\ "lookup" \in StepsOf("uncomment")
    BY <1>3, <1>4 DEF StepsOf
  <2>3. Arrive(r, NewRequest("uncomment", u, c, no, none), "lookup")
    BY <1>1, <1>7, <2>1, <2>2
  <2> QED BY <1>1, <1>6, <2>2, <2>3
<1> QED BY <1>5, <1>8, <1>9, <1>10, <1>11, <1>12, <1>13 DEF Receive

-------------------------------------------------------------------------------
(* The environment. *)

(* CommunityDeleted: the posts of the community go; files they had are     *)
(* left behind, which is noted.                                            *)
LEMMA CommunityDeletedKeeps ==
    ASSUME IInv, CommunityDeleted
    PROVE  IInv'
<1> DEFINE gone == {p \in DOMAIN posts : posts[p].inside}
<1>1. /\ created' = created /\ commented' = commented /\ files' = files /\ used' = used
      /\ req' = req /\ received' = received /\ overlapped' = overlapped
      /\ unsure' = unsure /\ odd' = odd /\ community' = FALSE /\ subscribers' = {}
  BY DEF CommunityDeleted, disk
<1>2. /\ DOMAIN posts' = DOMAIN posts \ gone /\ \A p \in DOMAIN posts' : posts'[p] = posts[p]
      /\ likes' = {l \in likes : l[1] \notin gone}
      /\ DOMAIN comments' \subseteq DOMAIN comments
      /\ \A c \in DOMAIN comments' : comments'[c] = comments[c]
  BY DEF CommunityDeleted, Cascade
<1>3. cut' = (cut \/ \E p \in gone : posts[p].media # NoMedia) /\ cut \in BOOLEAN
  BY DEF CommunityDeleted, IInv, DiskAgrees, TypeOK
<1>4. (cut => cut') /\ cut' \in BOOLEAN /\ (~cut' => \A p \in gone : posts[p].media = NoMedia)
  BY <1>3
<1>5. DOMAIN posts' \subseteq DOMAIN posts /\ likes' \subseteq likes
  BY <1>2
<1>6. \A p \in DOMAIN posts' : ~posts[p].inside
  BY <1>2
<1> HIDE DEF gone
<1>7. (\A p : Clear(p)' => Clear(p)) /\ (Quiet' => Quiet)
  BY <1>1, <1>4, ClearFacts
<1>8. TypeOK'
  BY <1>1, <1>2, <1>4, <1>5 DEF IInv, DiskAgrees, TypeOK
<1>9. FilesAreServed'
  BY <1>1, <1>2, <1>5 DEF IInv, DiskAgrees, FilesAreServed
<1>10. \A r \in Requests : Holds(r)' = Holds(r)
  BY <1>1 DEF Holds
<1>11. NoFileLeft'
  <2> SUFFICES ASSUME Quiet', NEW f \in files'
               PROVE  \/ \E p \in DOMAIN posts' : f \in FilesOf(posts'[p].media)
                      \/ \E r \in Requests : f \in Holds(r)'
    BY DEF NoFileLeft, Quiet, Holds
  <2>1. \/ \E p \in DOMAIN posts : f \in FilesOf(posts[p].media)
        \/ \E r \in Requests : f \in Holds(r)
    BY <1>1, <1>7 DEF IInv, DiskAgrees, NoFileLeft, Quiet, Holds
  <2>2. ASSUME NEW p \in DOMAIN posts, f \in FilesOf(posts[p].media) PROVE p \in DOMAIN posts'
    <3>1. posts[p].media # NoMedia
      BY <2>2, NoMediaFacts
    <3>2. ~cut'
      BY DEF Quiet
    <3> QED BY <1>2, <1>4, <3>1, <3>2
  <2> QED BY <1>2, <1>10, <2>1, <2>2
<1>12. LikesAreToggled'
  <2> SUFFICES ASSUME NEW p \in DOMAIN posts', p \notin unsure, NEW u \in Users
               PROVE  <<p, u>> \in likes' <=> <<p, u>> \in odd
    BY <1>1 DEF LikesAreToggled, IsLiked
  <2>1. p \in DOMAIN posts /\ p \notin gone /\ <<p, u>>[1] = p
    BY <1>2
  <2>2. <<p, u>> \in likes <=> <<p, u>> \in odd
    BY <2>1 DEF IInv, LikesAreToggled, IsLiked
  <2> QED BY <1>2, <2>1, <2>2
<1>13. CommunityPostsByCreator'
  BY <1>2, <1>6 DEF CommunityPostsByCreator
<1>14. FilesHaveOneOwner'
  BY <1>1, <1>2, <1>5, <1>7, <1>10 DEF IInv, FilesHaveOneOwner
<1>15. OverlapsAreNoted'
  BY <1>1 DEF IInv, OverlapsAreNoted
<1>16. ASSUME NEW r \in Requests PROVE RequestOK(r)' /\ KnowsThePost(r)'
  <2> PICK q : q = req[r]
    OBVIOUS
  <2>1. RequestOK(r) /\ KnowsThePost(r) /\ req'[r] = q
    BY <1>1 DEF IInv
  <2>2. RequestOK(r)'
    BY <1>1, <1>5, <2>1 DEF RequestOK
  <2>3. ASSUME Changes(q), Quiet', q.id \notin DOMAIN posts'
        PROVE  /\ q.step \in {"album", "attachments", "photos", "write"} => q.old = NoMedia
               /\ q.step = "unlink" /\ q.op = "update" => q.new = NoMedia
    <3>1. CASE q.id \notin DOMAIN posts
      BY <1>7, <2>1, <2>3, <3>1 DEF KnowsThePost
    <3>2. CASE q.id \in DOMAIN posts
      <4>1. ~cut' /\ Clear(q.id)
        BY <1>7, <2>3 DEF Quiet, Clear
      <4>2. posts[q.id].media = NoMedia
        BY <1>2, <1>4, <2>3, <3>2, <4>1
      <4>3. q.step = "album" => q.old["attachments"] = <<>> /\ q.old["photos"] = <<>>
        BY <2>1, <2>3, <3>2, <4>1, <4>2, NoMediaFacts DEF KnowsThePost, RequestOK, Kinds
      <4>4. q.old \in Media
        BY <2>1, RequestFields DEF IInv, DiskAgrees, TypeOK
      <4>5. q.step = "album" => q.old = NoMedia
        BY <4>3, <4>4 DEF Media, NoMedia, Kinds
      <4> QED BY <2>1, <2>3, <3>2, <4>1, <4>2, <4>5 DEF KnowsThePost
    <3> QED BY <3>1, <3>2
  <2>4. ASSUME Changes(q), Clear(q.id)', q.id \in DOMAIN posts'
        PROVE  /\ q.step = "album" => q.old["attachments"] = posts'[q.id].media["attachments"]
               /\ q.step \in {"attachments", "photos", "write"} => q.old = posts'[q.id].media
               /\ q.step = "unlink" => q.new = posts'[q.id].media
    BY <1>2, <1>5, <1>7, <2>1, <2>4 DEF KnowsThePost
  <2>5. ASSUME q.op = "create" \/ (q.op = "update" /\ Clear(q.id)' /\ q.step # "unlink"),
               NEW k \in Kinds, Uploaded(q, k)
        PROVE  ToSet(q.new[k]) \subseteq files'
    BY <1>1, <1>7, <2>1, <2>5 DEF KnowsThePost
  <2>6. q.op = "create" \/ (Changes(q) /\ Clear(q.id)') => Distinct(q.old) /\ Distinct(q.new)
    BY <1>7, <2>1 DEF KnowsThePost
  <2>7. KnowsThePost(r)'
    BY <2>1, <2>3, <2>4, <2>5, <2>6 DEF KnowsThePost
  <2> QED BY <2>2, <2>7
<1> QED BY <1>8, <1>9, <1>11, <1>12, <1>13, <1>14, <1>15, <1>16 DEF IInv, DiskAgrees

(* Crash: what requests were doing is lost, which is noted. *)
LEMMA CrashKeeps ==
    ASSUME IInv, Crash
    PROVE  IInv'
<1>1. /\ created' = created /\ posts' = posts /\ likes' = likes /\ commented' = commented
      /\ comments' = comments /\ community' = community /\ subscribers' = subscribers
      /\ files' = files /\ used' = used /\ received' = received /\ overlapped' = overlapped
      /\ unsure' = unsure /\ odd' = odd /\ cut' = TRUE
  BY DEF Crash, tables, world, disk
<1>2. req' \in [Requests -> Request] /\ \A r \in Requests : req'[r] = NoRequest
  BY NoRequestFacts DEF Crash
<1>3. \A r \in Requests : RequestOK(r)' /\ KnowsThePost(r)' /\ Holds(r)' = {}
  BY <1>2, IdleFacts
<1>4. TypeOK'
  BY <1>1, <1>2 DEF IInv, DiskAgrees, TypeOK
<1>5. FilesAreServed' /\ NoFileLeft'
  BY <1>1 DEF IInv, DiskAgrees, FilesAreServed, NoFileLeft
<1>6. LikesAreToggled' /\ CommunityPostsByCreator'
  BY <1>1 DEF IInv, LikesAreToggled, IsLiked, CommunityPostsByCreator
<1>7. FilesHaveOneOwner'
  BY <1>1, <1>3 DEF IInv, FilesHaveOneOwner, Clear
<1>8. OverlapsAreNoted'
  BY <1>2, NoRequestFacts DEF OverlapsAreNoted
<1> QED BY <1>3, <1>4, <1>5, <1>6, <1>7, <1>8 DEF IInv, DiskAgrees

(* A step that changes nothing but who subscribes. *)
LEMMA SubscribersKeep ==
    ASSUME IInv, subscribers' \subseteq Users,
           UNCHANGED <<created, posts, likes, commented, comments, community, files, used, req,
                       received, overlapped, unsure, cut, odd>>
    PROVE  IInv'
<1>1. /\ created' = created /\ posts' = posts /\ likes' = likes /\ commented' = commented
      /\ comments' = comments /\ community' = community
      /\ files' = files /\ used' = used /\ received' = received /\ overlapped' = overlapped
      /\ unsure' = unsure /\ cut' = cut /\ odd' = odd /\ req' = req
  OBVIOUS
<1>2. TypeOK'
  BY <1>1 DEF IInv, DiskAgrees, TypeOK
<1>3. FilesAreServed' /\ NoFileLeft'
  BY <1>1 DEF IInv, DiskAgrees, FilesAreServed, NoFileLeft
<1>4. LikesAreToggled' /\ CommunityPostsByCreator'
  BY <1>1 DEF IInv, LikesAreToggled, IsLiked, CommunityPostsByCreator
<1>5. FilesHaveOneOwner'
  BY <1>1 DEF IInv, FilesHaveOneOwner, Holds, Clear
<1>6. OverlapsAreNoted'
  BY <1>1 DEF IInv, OverlapsAreNoted
<1>7. ASSUME NEW r \in Requests PROVE RequestOK(r)' /\ KnowsThePost(r)'
  <2>1. RequestOK(r) /\ KnowsThePost(r)
    BY DEF IInv
  <2>2. RequestOK(r)'
    BY <1>1, <2>1 DEF RequestOK
  <2>3. KnowsThePost(r)'
    BY <1>1, <2>1 DEF KnowsThePost, Clear, Quiet
  <2> QED BY <2>2, <2>3
<1> QED BY <1>2, <1>3, <1>4, <1>5, <1>6, <1>7 DEF IInv, DiskAgrees

-------------------------------------------------------------------------------
(* The theorems. *)

(* At the beginning there is nothing. *)
LEMMA InitIInv == Init => IInv
<1> SUFFICES ASSUME Init PROVE IInv
  OBVIOUS
<1>1. /\ created = 0 /\ posts = <<>> /\ likes = {} /\ commented = 0 /\ comments = <<>>
      /\ community = TRUE /\ subscribers = {Creator} /\ files = {} /\ used = 0 /\ received = 0
      /\ overlapped = {} /\ unsure = {} /\ cut = FALSE /\ odd = {}
  BY DEF Init
<1>2. req \in [Requests -> Request] /\ \A r \in Requests : req[r] = NoRequest
  BY NoRequestFacts DEF Init
<1>3. DOMAIN posts = {} /\ DOMAIN comments = {}
  BY <1>1
<1>4. 0 \in 0..MaxPosts /\ 0 \in 0..MaxComments /\ 0 \in 0..MaxFiles /\ 0 \in 0..MaxReceived
  BY PostsAssumption
<1>5. TypeOK
  BY <1>1, <1>2, <1>3, <1>4, PostsAssumption DEF TypeOK
<1>6. FilesAreServed /\ NoFileLeft /\ LikesAreToggled /\ CommunityPostsByCreator
  BY <1>1, <1>3 DEF FilesAreServed, NoFileLeft, LikesAreToggled, CommunityPostsByCreator
<1>7. \A k \in Kinds : ~Uploaded(NoRequest, k)
  BY NoRequestFacts DEF Uploaded
<1>8. ASSUME NEW r \in Requests PROVE RequestOK(r) /\ KnowsThePost(r) /\ Holds(r) = {}
  <2>1. Holds(r) = {}
    BY <1>2, NoRequestFacts, NoMediaFacts DEF Holds
  <2>2. RequestOK(r)
    BY <1>2, <1>7, NoRequestFacts, NoMediaFacts DEF RequestOK, StepsOf, Kinds
  <2>3. KnowsThePost(r)
    BY <1>2, <1>7, NoRequestFacts, NoMediaFacts DEF KnowsThePost
  <2> QED BY <2>1, <2>2, <2>3
<1>9. FilesHaveOneOwner
  BY <1>3, <1>8 DEF FilesHaveOneOwner
<1>10. OverlapsAreNoted
  BY <1>2, NoRequestFacts DEF OverlapsAreNoted
<1> QED BY <1>5, <1>6, <1>8, <1>9, <1>10 DEF IInv, DiskAgrees

(* Every step keeps the invariant. *)
LEMMA NextIInv == IInv /\ [Next]_vars => IInv'
<1> SUFFICES ASSUME IInv, [Next]_vars PROVE IInv'
  OBVIOUS
<1>1. ASSUME NEW r \in Requests, Receive(r) PROVE IInv'
  BY <1>1, ReceiveKeeps
<1>2. ASSUME NEW r \in Requests, Step(r) PROVE IInv'
  <2>1. CASE UpdatePostReads(r) \/ DeletePostReads(r) \/ CreateCommentReads(r)
             \/ UpdateCommentReads(r) \/ DeleteCommentReads(r) \/ CommentAnswered(r)
    BY <2>1, ReadsKeep
  <2>2. CASE getPostAttachments(r) \/ getPostPhotos(r)
    BY <2>2, getPostMediaKeeps
  <2>3. CASE UploadFiles(r)
    BY <2>3, UploadFilesKeeps
  <2>4. CASE CheckCommunity(r)
    BY <2>4, CheckCommunityKeeps
  <2>5. CASE CreatePost(r)
    BY <2>5, CreatePostKeeps
  <2>6. CASE UpdatePost(r)
    BY <2>6, UpdatePostKeeps
  <2>7. CASE DeletePost(r)
    BY <2>7, DeletePostKeeps
  <2>8. CASE UpdatePostUnlinks(r)
    BY <2>8, UpdatePostUnlinksKeeps
  <2>9. CASE DeletePostUnlinks(r)
    BY <2>9, DeletePostUnlinksKeeps
  <2>10. CASE LikeSnapshot(r)
    BY <2>10, LikeSnapshotKeeps
  <2>11. CASE UpdateLikeOnPostByUserID(r)
    BY <2>11, UpdateLikeKeeps
  <2>12. CASE CreateComment(r) \/ UpdateComment(r) \/ DeleteComment(r)
    BY <2>12, CommentsKeep
  <2> QED BY <1>2, <2>1, <2>2, <2>3, <2>4, <2>5, <2>6, <2>7, <2>8, <2>9, <2>10, <2>11, <2>12 DEF Step
<1>3. ASSUME NEW u \in Users, Subscribed(u) PROVE IInv'
  <2>1. subscribers' \subseteq Users
    BY <1>3 DEF Subscribed, IInv, DiskAgrees, TypeOK
  <2>2. UNCHANGED <<created, posts, likes, commented, comments, community, files, used, req,
                    received, overlapped, unsure, cut, odd>>
    BY <1>3 DEF Subscribed, tables, disk, history
  <2> QED BY <2>1, <2>2, SubscribersKeep
<1>4. CASE CommunityDeleted
  BY <1>4, CommunityDeletedKeeps
<1>5. CASE Crash
  BY <1>5, CrashKeeps
<1>6. CASE UNCHANGED vars
  <2>1. subscribers' \subseteq Users
    BY <1>6 DEF vars, world, IInv, DiskAgrees, TypeOK
  <2>2. UNCHANGED <<created, posts, likes, commented, comments, community, files, used, req,
                    received, overlapped, unsure, cut, odd>>
    BY <1>6 DEF vars, tables, world, disk, history
  <2> QED BY <2>1, <2>2, SubscribersKeep
<1> QED BY <1>1, <1>2, <1>3, <1>4, <1>5, <1>6 DEF Next

(* IInv holds in every reachable state. *)
LEMMA SpecIInv == Spec => []IInv
  BY InitIInv, NextIInv, PTL DEF Spec

(* The files of a post that was not changed by two requests at a time can  *)
(* always be fetched, and a file nobody owns comes from one of the places  *)
(* where service/post.go is known to leave one: for any number of users,   *)
(* posts, files and requests in progress, whichever call fails, before or  *)
(* after it took effect, and wherever the process dies.                    *)
THEOREM PostsAgreeWithDisk == Spec => []DiskAgrees
<1>1. IInv => DiskAgrees
  BY DEF IInv
<1> QED BY <1>1, SpecIInv, PTL

(* UpdateLikeOnPostByUserID toggles: however the statements of any number  *)
(* of clicks overlap, a user likes a post exactly if an odd number of them *)
(* was answered 200.                                                       *)
THEOREM LikesToggle == Spec => []LikesAreToggled
<1>1. IInv => LikesAreToggled
  BY DEF IInv
<1> QED BY <1>1, SpecIInv, PTL

(* CreatePost checks the rights long before it writes, and yet whatever is *)
(* in the community was written by its creator, and nothing is left in one *)
(* that has been deleted meanwhile.                                        *)
THEOREM OnlyTheCreatorPosts == Spec => []CommunityPostsByCreator
<1>1. IInv => CommunityPostsByCreator
  BY DEF IInv
<1> QED BY <1>1, SpecIInv, PTL

(* The reason why deleting files is safe: a file belongs to one post, and  *)
(* no request but those that change this post ever holds it.               *)
THEOREM FilesAreNotShared == Spec => []FilesHaveOneOwner
<1>1. IInv => FilesHaveOneOwner
  BY DEF IInv
<1> QED BY <1>1, SpecIInv, PTL

-------------------------------------------------------------------------------
(* Comments and likes go with their post. *)

LEMMA TogetherAtFirst == Init => GoWithPosts
  BY DEF Init, GoWithPosts

LEMMA CascadeKeepsTogether ==
    ASSUME GoWithPosts, NEW gone, Cascade(gone)
    PROVE  GoWithPosts'
<1>1. /\ DOMAIN posts' = DOMAIN posts \ gone
      /\ \A l \in likes' : l \in likes /\ l[1] \notin gone
      /\ \A c \in DOMAIN comments' :
            c \in DOMAIN comments /\ comments[c].post \notin gone /\ comments'[c] = comments[c]
  BY DEF Cascade
<1> QED BY <1>1 DEF GoWithPosts

(* The steps that leave the tables alone, or only give posts. *)
LEMMA GrowthKeepsTogether ==
    ASSUME GoWithPosts, DOMAIN posts \subseteq DOMAIN posts', likes' = likes, comments' = comments
    PROVE  GoWithPosts'
  BY DEF GoWithPosts

LEMMA StepKeepsTogether ==
    ASSUME IInv, GoWithPosts, NEW r \in Requests, Step(r)
    PROVE  GoWithPosts'
<1>q. PICK q : q = req[r]
  OBVIOUS
<1>1. CASE \/ UpdatePostReads(r) \/ DeletePostReads(r) \/ CreateCommentReads(r)
           \/ getPostAttachments(r) \/ getPostPhotos(r) \/ UploadFiles(r) \/ CheckCommunity(r)
           \/ UpdatePostUnlinks(r) \/ DeletePostUnlinks(r)
           \/ LikeSnapshot(r) \/ CommentAnswered(r) \/ UpdateCommentReads(r) \/ DeleteCommentReads(r)
  <2>1. posts' = posts /\ likes' = likes /\ comments' = comments
    BY <1>1 DEF UpdatePostReads, DeletePostReads, CreateCommentReads, getPostAttachments, getPostPhotos,
       UploadFiles, CheckCommunity, UpdatePostUnlinks, DeletePostUnlinks, DeleteFiles, LikeSnapshot,
       CommentAnswered, UpdateCommentReads, DeleteCommentReads, tables
  <2> QED BY <2>1, GrowthKeepsTogether
<1>2. CASE CreatePost(r)
  <2>1. likes' = likes /\ comments' = comments
    BY <1>2 DEF CreatePost
  <2>2. \E x, v : posts' = posts \/ posts' = With(posts, x, v)
    BY <1>2 DEF CreatePost, InsertPost
  <2>3. DOMAIN posts \subseteq DOMAIN posts'
    BY <2>2 DEF With
  <2> QED BY <2>1, <2>3, GrowthKeepsTogether
<1>3. CASE UpdatePost(r)
  <2>1. likes' = likes /\ comments' = comments /\ DOMAIN posts' = DOMAIN posts
    BY <1>3 DEF UpdatePost
  <2> QED BY <2>1, GrowthKeepsTogether
<1>4. CASE DeletePost(r)
  <2>1. CASE Cascade({q.id})
    BY <2>1, CascadeKeepsTogether
  <2>2. CASE UNCHANGED <<posts, likes, comments>>
    BY <2>2, GrowthKeepsTogether
  <2> QED BY <1>4, <1>q, <2>1, <2>2 DEF DeletePost
<1>5. CASE UpdateLikeOnPostByUserID(r)
  <2>1. posts' = posts /\ comments' = comments
    BY <1>5 DEF UpdateLikeOnPostByUserID
  <2>2. \A l \in likes' : l \in likes \/ l[1] \in DOMAIN posts
    BY <1>5 DEF UpdateLikeOnPostByUserID
  <2> QED BY <2>1, <2>2 DEF GoWithPosts
<1>6. CASE CreateComment(r)
  <2>1. posts' = posts /\ likes' = likes
    BY <1>6 DEF CreateComment
  <2>2. CASE comments' = comments
    BY <2>1, <2>2, GrowthKeepsTogether
  <2>3. CASE comments' # comments
    <3>1. /\ q.id \in DOMAIN posts
          /\ comments' = With(comments, commented + 1, [post |-> q.id, author |-> q.user, edited |-> FALSE])
      BY <1>6, <1>q, <2>3 DEF CreateComment
    <3>2. \A c \in DOMAIN comments' :
             (c \in DOMAIN comments /\ comments'[c] = comments[c]) \/ comments'[c].post = q.id
      BY <3>1, Zenon DEF With
    <3> QED BY <2>1, <3>1, <3>2 DEF GoWithPosts
  <2> QED BY <2>2, <2>3
<1>7. CASE UpdateComment(r)
  <2>1. posts' = posts /\ likes' = likes
    BY <1>7 DEF UpdateComment
  <2>2. \E c : comments' = comments \/ comments' = [comments EXCEPT ![c].edited = TRUE]
    BY <1>7 DEF UpdateComment, ChangeComment
  <2>3. \A c \in DOMAIN comments :
           comments[c] \in [post : 1..created, author : Users, edited : BOOLEAN]
    BY DEF IInv, DiskAgrees, TypeOK
  <2>4. DOMAIN comments' = DOMAIN comments /\ \A c \in DOMAIN comments : comments'[c].post = comments[c].post
    BY <2>2, <2>3
  <2> QED BY <2>1, <2>4 DEF GoWithPosts
<1>8. CASE DeleteComment(r)
  <2>1. posts' = posts /\ likes' = likes
    BY <1>8 DEF DeleteComment
  <2>2. \E c : comments' = comments \/ comments' = Without(comments, c)
    BY <1>8 DEF DeleteComment, RemoveComment
  <2>3. \A c \in DOMAIN comments' : c \in DOMAIN comments /\ comments'[c] = comments[c]
    BY <2>2 DEF Without
  <2> QED BY <2>1, <2>3 DEF GoWithPosts
<1> QED BY <1>1, <1>2, <1>3, <1>4, <1>5, <1>6, <1>7, <1>8 DEF Step

LEMMA NextTogether == IInv /\ GoWithPosts /\ [Next]_vars => GoWithPosts'
<1> SUFFICES ASSUME IInv, GoWithPosts, [Next]_vars PROVE GoWithPosts'
  OBVIOUS
<1>1. ASSUME NEW r \in Requests, Receive(r) PROVE GoWithPosts'
  <2>1. UNCHANGED tables
    BY <1>1 DEF Receive, CreatePostHandler, UpdatePostHandler, DeletePostHandler,
       UpdateLikeOnPostHandler, CreateCommentHandler, UpdateCommentHandler, DeleteCommentHandler, Arrive
  <2> QED BY <2>1, GrowthKeepsTogether DEF tables
<1>2. ASSUME NEW r \in Requests, Step(r) PROVE GoWithPosts'
  BY <1>2, StepKeepsTogether
<1>3. ASSUME NEW u \in Users, Subscribed(u) PROVE GoWithPosts'
  BY <1>3, GrowthKeepsTogether DEF Subscribed, tables
<1>4. CASE CommunityDeleted
  <2>1. \E gone : Cascade(gone)
    BY <1>4 DEF CommunityDeleted
  <2> QED BY <2>1, CascadeKeepsTogether
<1>5. CASE Crash
  BY <1>5, GrowthKeepsTogether DEF Crash, tables
<1>6. CASE UNCHANGED vars
  BY <1>6, GrowthKeepsTogether DEF vars, tables
<1> QED BY <1>1, <1>2, <1>3, <1>4, <1>5, <1>6 DEF Next

LEMMA AlwaysTogether == Spec => [](IInv /\ GoWithPosts)
  BY InitIInv, NextIInv, TogetherAtFirst, NextTogether, PTL DEF Spec
-------------------------------------------------------------------------------
(* Lists of posts and comments. *)

LEMMA FiniteTables ==
    ASSUME IInv
    PROVE  /\ IsFiniteSet(DOMAIN posts) /\ \A p \in DOMAIN posts : p \in Int
           /\ IsFiniteSet(DOMAIN comments) /\ \A c \in DOMAIN comments : c \in Int
<1>1. /\ DOMAIN posts \subseteq 1..created /\ created \in Nat
      /\ DOMAIN comments \subseteq 1..commented /\ commented \in Nat
  BY PostsAssumption DEF IInv, DiskAgrees, TypeOK
<1>2. IsFiniteSet(1..created) /\ IsFiniteSet(1..commented)
  BY <1>1, FS_Interval
<1> QED BY <1>1, <1>2, FS_Subset

(* What a query finds in S, f, is of T and is made into h, which is of V   *)
(* and tells the members of S apart.                                       *)
Makes(S, T, V, f, g, h) ==
    /\ Maps(f, S, T) /\ Maps(g, T, V) /\ TellsApart(h, S)
    /\ \A x \in S : h[x] = g[f[x]]

LEMMA NewestFirst ==
    ASSUME NEW S, IsFiniteSet(S), \A x \in S : x \in Int,
           NEW T, NEW V, NEW f, NEW g, NEW h, Makes(S, T, V, f, g, h),
           NEW s, s = Newest(S), NEW list, list = MadeOf(s, f),
           NEW view, view = MadeOf(list, g)
    PROVE  list \in Seq(T) /\ view \in Seq(V) /\ Enumerates(view, h, S)
<1>r. PICK rank : rank = [x \in S |-> -x]
  OBVIOUS
<1>1. Maps(rank, S, Int) /\ TellsApart(rank, S)
  BY <1>r DEF Maps, TellsApart
<1>2. s = InOrder(S, rank)
  BY <1>r DEF Newest
<1>3. /\ Maps(f, S, T) /\ Maps(g, T, V) /\ TellsApart(h, S)
      /\ \A x \in S : h[x] = g[f[x]]
  BY Zenon DEF Makes
<1> QED BY <1>1, <1>2, <1>3, RowsMadeInOrder

LEMMA NewestItems ==
    ASSUME NEW S, IsFiniteSet(S), \A x \in S : x \in Int, NEW s, s = Newest(S)
    PROVE  \A i \in DOMAIN s : s[i] \in S
<1>r. PICK rank : rank = [x \in S |-> -x]
  OBVIOUS
<1>1. Maps(rank, S, Int) /\ TellsApart(rank, S)
  BY <1>r DEF Maps, TellsApart
<1>2. s = InOrder(S, rank)
  BY <1>r DEF Newest
<1>m. PICK list : list = MadeOf(s, rank)
  OBVIOUS
<1>3. DOMAIN s = 1..Cardinality(S) /\ s \in [1..Cardinality(S) -> S]
  BY <1>1, <1>2, <1>m, RowsInOrder
<1> QED BY <1>3

(* The entry of a post or a comment in a list. *)
PostEntry(p, u, profiles) == enrichPostWithProfile(PostDB(p, u), profiles)
CommentEntry(c, profiles) == enrichCommentWithProfile(Comment(c), profiles)

PostEntries(ids, u, profiles) == [p \in ids |-> PostEntry(p, u, profiles)]
CommentEntries(ids, profiles) == [c \in ids |-> CommentEntry(c, profiles)]
PostRange(ids, u, profiles) == {PostEntry(p, u, profiles) : p \in ids}
CommentRange(ids, profiles) == {CommentEntry(c, profiles) : c \in ids}

LEMMA EntryFacts ==
    ASSUME NEW u, NEW profiles
    PROVE  /\ \A p : PostEntry(p, u, profiles)[1] = PostDB(p, u) /\ PostDB(p, u).id = p
           /\ \A c : CommentEntry(c, profiles)[1] = Comment(c) /\ Comment(c).id = c
  BY DEF PostEntry, CommentEntry, enrichPostWithProfile, enrichCommentWithProfile, PostDB, Comment

(* Lists whose pages are enriched one by one. *)
PostsPagewise(list, view, profiles) ==
    \A page, limit \in Int :
       [Paged(list, page, limit) EXCEPT !.items = enrichPostsWithProfiles(@, profiles)]
         = Paged(view, page, limit)

CommentsPagewise(list, view, profiles) ==
    \A page, limit \in Int :
       [Paged(list, page, limit) EXCEPT !.items = enrichCommentsWithProfiles(@, profiles)]
         = Paged(view, page, limit)

CommentsOf(o) == {c \in DOMAIN comments : comments[c].post = o}

(* What a list of posts shows, and that it is enriched page by page. *)
LEMMA PostListFacts ==
    ASSUME IInv, NEW ids, ids \subseteq DOMAIN posts, NEW u, NEW profiles,
           NEW list, list = PostList(ids, u),
           NEW view, view = enrichPostsWithProfiles(list, profiles),
           NEW V, V = PostRange(ids, u, profiles), NEW h, h = PostEntries(ids, u, profiles)
    PROVE  view \in Seq(V) /\ Enumerates(view, h, ids) /\ PostsPagewise(list, view, profiles)
<1>0. IsFiniteSet(ids) /\ \A p \in ids : p \in Int
  BY FiniteTables, FS_Subset
<1>s. PICK s : s = Newest(ids)
  OBVIOUS
<1>T. PICK T : T = {PostDB(p, u) : p \in ids}
  OBVIOUS
<1>f. PICK f : f = [p \in ids |-> PostDB(p, u)]
  OBVIOUS
<1>g. PICK g : g = [x \in T |-> enrichPostWithProfile(x, profiles)]
  OBVIOUS
<1>1. /\ Maps(f, ids, T) /\ Maps(g, T, V)
      /\ \A p \in ids : h[p] = g[f[p]]
  BY <1>T, <1>f, <1>g DEF Maps, PostEntry, PostEntries, PostRange
<1>2. TellsApart(h, ids)
  BY EntryFacts DEF TellsApart, PostEntries
<1>3. list = MadeOf(s, f)
  <2>1. list = [i \in DOMAIN s |-> PostDB(s[i], u)]
    BY <1>s DEF PostList
  <2>2. \A i \in DOMAIN s : s[i] \in ids
    BY <1>0, <1>s, NewestItems
  <2> QED BY <1>f, <2>1, <2>2 DEF MadeOf
<1>4. \A x : (\A i \in DOMAIN x : x[i] \in T) => enrichPostsWithProfiles(x, profiles) = MadeOf(x, g)
  BY <1>g DEF enrichPostsWithProfiles, MadeOf
<1>5. view = MadeOf(list, g)
  <2>1. \A i \in DOMAIN list : list[i] \in T
    <3>1. \A i \in DOMAIN s : s[i] \in ids
      BY <1>0, <1>s, NewestItems
    <3> QED BY <1>1, <1>3, <3>1 DEF MadeOf, Maps
  <2> QED BY <1>4, <2>1
<1>6. list \in Seq(T) /\ view \in Seq(V) /\ Enumerates(view, h, ids)
  <2>1. Makes(ids, T, V, f, g, h)
    BY <1>1, <1>2, Zenon DEF Makes
  <2> QED BY <1>0, <1>3, <1>5, <1>s, <2>1, NewestFirst
<1>7. ASSUME NEW page \in Int, NEW limit \in Int
      PROVE  [Paged(list, page, limit) EXCEPT !.items = enrichPostsWithProfiles(@, profiles)]
               = Paged(view, page, limit)
  <2>r. PICK result : result = Paged(list, page, limit)
    OBVIOUS
  <2>1. Paged(view, page, limit) = [err |-> result.err, items |-> MadeOf(result.items, g)]
    BY <1>1, <1>5, <1>6, <2>r, PageOfMade
  <2>2. result.items \in Seq(T) /\ result = [err |-> result.err, items |-> result.items]
    BY <1>6, <2>r, PagedItems
  <2>3. enrichPostsWithProfiles(result.items, profiles) = MadeOf(result.items, g)
    BY <1>4, <2>2
  <2>4. [result EXCEPT !.items = enrichPostsWithProfiles(@, profiles)]
          = [err |-> result.err, items |-> enrichPostsWithProfiles(result.items, profiles)]
    BY <2>2
  <2> QED BY <2>1, <2>3, <2>4, <2>r
<1> QED BY <1>6, <1>7 DEF PostsPagewise

(* The same about the comments of a post. *)
LEMMA CommentListFacts ==
    ASSUME IInv, NEW o, NEW ids, ids = CommentsOf(o), NEW profiles,
           NEW list, list = GetCommentsByPost(o),
           NEW view, view = enrichCommentsWithProfiles(list, profiles),
           NEW V, V = CommentRange(ids, profiles), NEW h, h = CommentEntries(ids, profiles)
    PROVE  view \in Seq(V) /\ Enumerates(view, h, ids) /\ CommentsPagewise(list, view, profiles)
<1>0. IsFiniteSet(ids) /\ \A p \in ids : p \in Int
  <2>1. ids \subseteq DOMAIN comments
    BY DEF CommentsOf
  <2> QED BY <2>1, FiniteTables, FS_Subset
<1>s. PICK s : s = Newest(ids)
  OBVIOUS
<1>T. PICK T : T = {Comment(p) : p \in ids}
  OBVIOUS
<1>f. PICK f : f = [p \in ids |-> Comment(p)]
  OBVIOUS
<1>g. PICK g : g = [x \in T |-> enrichCommentWithProfile(x, profiles)]
  OBVIOUS
<1>1. /\ Maps(f, ids, T) /\ Maps(g, T, V)
      /\ \A p \in ids : h[p] = g[f[p]]
  BY <1>T, <1>f, <1>g DEF Maps, CommentEntry, CommentEntries, CommentRange
<1>2. TellsApart(h, ids)
  BY EntryFacts DEF TellsApart, CommentEntries
<1>3. list = MadeOf(s, f)
  <2>1. list = [i \in DOMAIN s |-> Comment(s[i])]
    BY <1>s DEF GetCommentsByPost, CommentsOf
  <2>2. \A i \in DOMAIN s : s[i] \in ids
    BY <1>0, <1>s, NewestItems
  <2> QED BY <1>f, <2>1, <2>2 DEF MadeOf
<1>4. \A x : (\A i \in DOMAIN x : x[i] \in T) => enrichCommentsWithProfiles(x, profiles) = MadeOf(x, g)
  BY <1>g DEF enrichCommentsWithProfiles, MadeOf
<1>5. view = MadeOf(list, g)
  <2>1. \A i \in DOMAIN list : list[i] \in T
    <3>1. \A i \in DOMAIN s : s[i] \in ids
      BY <1>0, <1>s, NewestItems
    <3> QED BY <1>1, <1>3, <3>1 DEF MadeOf, Maps
  <2> QED BY <1>4, <2>1
<1>6. list \in Seq(T) /\ view \in Seq(V) /\ Enumerates(view, h, ids)
  <2>1. Makes(ids, T, V, f, g, h)
    BY <1>1, <1>2, Zenon DEF Makes
  <2> QED BY <1>0, <1>3, <1>5, <1>s, <2>1, NewestFirst
<1>7. ASSUME NEW page \in Int, NEW limit \in Int
      PROVE  [Paged(list, page, limit) EXCEPT !.items = enrichCommentsWithProfiles(@, profiles)]
               = Paged(view, page, limit)
  <2>r. PICK result : result = Paged(list, page, limit)
    OBVIOUS
  <2>1. Paged(view, page, limit) = [err |-> result.err, items |-> MadeOf(result.items, g)]
    BY <1>1, <1>5, <1>6, <2>r, PageOfMade
  <2>2. result.items \in Seq(T) /\ result = [err |-> result.err, items |-> result.items]
    BY <1>6, <2>r, PagedItems
  <2>3. enrichCommentsWithProfiles(result.items, profiles) = MadeOf(result.items, g)
    BY <1>4, <2>2
  <2>4. [result EXCEPT !.items = enrichCommentsWithProfiles(@, profiles)]
          = [err |-> result.err, items |-> enrichCommentsWithProfiles(result.items, profiles)]
    BY <2>2
  <2> QED BY <2>1, <2>3, <2>4, <2>r
<1> QED BY <1>6, <1>7 DEF CommentsPagewise
-------------------------------------------------------------------------------
(* Pages of posts and comments. *)

PostsReply(list, profiles, page, limit) ==
    Reply(page, limit, [Paged(list, page, limit)
                          EXCEPT !.items = enrichPostsWithProfiles(@, profiles)])

CommentsReply(list, profiles, page, limit) ==
    Reply(page, limit, [Paged(list, page, limit)
                          EXCEPT !.items = enrichCommentsWithProfiles(@, profiles)])

LEMMA PostPages ==
    ASSUME IInv, NEW ids, ids \subseteq DOMAIN posts, NEW u, NEW profiles,
           NEW page \in Int, NEW limit \in Int32
    PROVE  PageIsRight(enrichPostsWithProfiles(PostList(ids, u), profiles), page, limit,
              PostsReply(PostList(ids, u), profiles, page, limit))
<1>l. PICK list : list = PostList(ids, u)
  OBVIOUS
<1>v. PICK view : view = enrichPostsWithProfiles(list, profiles)
  OBVIOUS
<1>V. PICK V : V = PostRange(ids, u, profiles)
  OBVIOUS
<1>h. PICK h : h = PostEntries(ids, u, profiles)
  OBVIOUS
<1>0. view \in Seq(V) /\ Enumerates(view, h, ids) /\ PostsPagewise(list, view, profiles)
  BY <1>l, <1>v, <1>V, <1>h, PostListFacts
<1>1. view \in Seq(V) /\ \A i, j \in 1..Len(view) : view[i] = view[j] => i = j
  BY <1>0 DEF Enumerates
<1>2. PageIsRight(view, page, limit, Reply(page, limit, Paged(view, page, limit)))
  BY <1>1, ReplyIsRight
<1>3. PostsReply(list, profiles, page, limit) = Reply(page, limit, Paged(view, page, limit))
  <2>1. page \in Int /\ limit \in Int
    BY PaginationAssumption DEF Int32
  <2> QED BY <1>0, <2>1 DEF PostsPagewise, PostsReply
<1> QED BY <1>2, <1>3, <1>l, <1>v

LEMMA CommentPages ==
    ASSUME IInv, NEW o, NEW profiles, NEW page \in Int, NEW limit \in Int32
    PROVE  PageIsRight(enrichCommentsWithProfiles(GetCommentsByPost(o), profiles), page, limit,
              CommentsReply(GetCommentsByPost(o), profiles, page, limit))
<1>i. PICK ids : ids = CommentsOf(o)
  OBVIOUS
<1>l. PICK list : list = GetCommentsByPost(o)
  OBVIOUS
<1>v. PICK view : view = enrichCommentsWithProfiles(list, profiles)
  OBVIOUS
<1>V. PICK V : V = CommentRange(ids, profiles)
  OBVIOUS
<1>h. PICK h : h = CommentEntries(ids, profiles)
  OBVIOUS
<1>0. view \in Seq(V) /\ Enumerates(view, h, ids) /\ CommentsPagewise(list, view, profiles)
  BY <1>i, <1>l, <1>v, <1>V, <1>h, CommentListFacts
<1>1. view \in Seq(V) /\ \A i, j \in 1..Len(view) : view[i] = view[j] => i = j
  BY <1>0 DEF Enumerates
<1>2. PageIsRight(view, page, limit, Reply(page, limit, Paged(view, page, limit)))
  BY <1>1, ReplyIsRight
<1>3. CommentsReply(list, profiles, page, limit) = Reply(page, limit, Paged(view, page, limit))
  <2>1. page \in Int /\ limit \in Int
    BY PaginationAssumption DEF Int32
  <2> QED BY <1>0, <2>1 DEF CommentsPagewise, CommentsReply
<1> QED BY <1>2, <1>3, <1>l, <1>v

LEMMA PostPagesAreRight == IInv => PagesAreRight
<1> SUFFICES ASSUME IInv, NEW u \in Users, NEW l \in {1, MaxLimit + 1}, NEW p \in 0..MaxPosts + 1
             PROVE  /\ PageIsRight(enrichPostsWithProfiles(PostsPaginatedList(u), Users), p, l,
                                   PostsPaginateHandler(u, p, l, Users))
                    /\ \A v \in Users :
                          PageIsRight(enrichPostsWithProfiles(GetPostsByUser(u, v), Users), p, l,
                                      GetUserPostsHandler(u, v, p, l, Users))
                    /\ community =>
                          PageIsRight(enrichPostsWithProfiles(GetCommunityPosts(u), Users), p, l,
                                      GetCommunityPostsHandler(u, p, l, Users))
                    /\ \A o \in DOMAIN posts :
                          PageIsRight(enrichCommentsWithProfiles(GetCommentsByPost(o), Users), p, l,
                                      GetPostCommentsHandler(o, p, l, Users))
  BY Zenon DEF PagesAreRight
<1>1. p \in Int /\ l \in Int32
  BY PaginationAssumption, PostsAssumption DEF Int32
<1>2. PageIsRight(enrichPostsWithProfiles(PostsPaginatedList(u), Users), p, l,
                  PostsPaginateHandler(u, p, l, Users))
  BY <1>1, PostPages DEF PostsPaginatedList, PostsPaginateHandler, PostsPaginate, PostsReply
<1>3. ASSUME NEW v \in Users
      PROVE  PageIsRight(enrichPostsWithProfiles(GetPostsByUser(u, v), Users), p, l,
                         GetUserPostsHandler(u, v, p, l, Users))
  BY <1>1, PostPages DEF GetPostsByUser, GetUserPostsHandler, GetUserPosts, PostsReply
<1>4. ASSUME community
      PROVE  PageIsRight(enrichPostsWithProfiles(GetCommunityPosts(u), Users), p, l,
                         GetCommunityPostsHandler(u, p, l, Users))
  BY <1>1, <1>4, PostPages DEF GetCommunityPosts, GetCommunityPostsHandler, CommunityPosts, PostsReply
<1>5. ASSUME NEW o \in DOMAIN posts
      PROVE  PageIsRight(enrichCommentsWithProfiles(GetCommentsByPost(o), Users), p, l,
                         GetPostCommentsHandler(o, p, l, Users))
  BY <1>1, CommentPages DEF GetPostCommentsHandler, GetPostComments, CommentsReply
<1> QED BY <1>2, <1>3, <1>4, <1>5

(* First pages that hold everything. *)
LEMMA IdsShown ==
    ASSUME NEW V, NEW view \in Seq(V), NEW h, NEW ids, Enumerates(view, h, ids),
           \A x \in ids : h[x][1].id = x,
           NEW answer, answer = [code |-> 200, items |-> view]
    PROVE  answer.code = 200 /\ IdsOf(answer) = ids /\ Len(answer.items) = Cardinality(ids)
<1>1. answer.items = view /\ answer.code = 200 /\ DOMAIN view = 1..Len(view)
  OBVIOUS
<1>2. /\ \A i \in 1..Len(view) : \E x \in ids : view[i] = h[x]
      /\ \A x \in ids : \E i \in 1..Len(view) : view[i] = h[x]
      /\ Len(view) = Cardinality(ids)
  BY DEF Enumerates
<1>3. /\ \A i \in 1..Len(view) : \E x \in ids : view[i][1].id = x
      /\ \A x \in ids : \E i \in 1..Len(view) : view[i][1].id = x
  <2>1. ASSUME NEW i \in 1..Len(view) PROVE \E x \in ids : view[i][1].id = x
    <3>1. PICK x \in ids : view[i] = h[x]
      BY <1>2
    <3> QED BY <3>1
  <2>2. ASSUME NEW x \in ids PROVE \E i \in 1..Len(view) : view[i][1].id = x
    <3>1. PICK i \in 1..Len(view) : view[i] = h[x]
      BY <1>2
    <3> QED BY <3>1
  <2> QED BY <2>1, <2>2
<1>4. IdsOf(answer) = {view[i][1].id : i \in 1..Len(view)}
  BY <1>1 DEF IdsOf
<1>5. {view[i][1].id : i \in 1..Len(view)} = ids
  <2>1. ASSUME NEW x \in {view[i][1].id : i \in 1..Len(view)} PROVE x \in ids
    <3>1. PICK i \in 1..Len(view) : x = view[i][1].id
      OBVIOUS
    <3> QED BY <1>3, <3>1
  <2>2. ASSUME NEW x \in ids PROVE x \in {view[i][1].id : i \in 1..Len(view)}
    BY <1>3, <2>2
  <2> QED BY <2>1, <2>2
<1> QED BY <1>1, <1>2, <1>4, <1>5

LEMMA FirstPageOfPosts ==
    ASSUME IInv, FitOnOnePage, NEW ids, ids \subseteq DOMAIN posts, NEW u, NEW profiles,
           NEW answer,
           answer = PostsReply(PostList(ids, u), profiles, 1, MaxLimit)
    PROVE  answer.code = 200 /\ IdsOf(answer) = ids
<1>l. PICK list : list = PostList(ids, u)
  OBVIOUS
<1>v. PICK view : view = enrichPostsWithProfiles(list, profiles)
  OBVIOUS
<1>V. PICK V : V = PostRange(ids, u, profiles)
  OBVIOUS
<1>h. PICK h : h = PostEntries(ids, u, profiles)
  OBVIOUS
<1>0. view \in Seq(V) /\ Enumerates(view, h, ids) /\ PostsPagewise(list, view, profiles)
  BY <1>l, <1>v, <1>V, <1>h, PostListFacts
<1>1. view \in Seq(V) /\ Len(view) <= MaxLimit
  <2>1. Cardinality(ids) <= Cardinality(DOMAIN posts)
    BY FiniteTables, FS_Subset
  <2>2. IsFiniteSet(ids) /\ Cardinality(ids) \in Nat /\ Cardinality(DOMAIN posts) \in Nat
    BY FiniteTables, FS_Subset, FS_CardinalityType
  <2>3. Len(view) = Cardinality(ids)
    BY <1>0 DEF Enumerates
  <2> QED BY <1>0, <2>1, <2>2, <2>3, PaginationAssumption DEF FitOnOnePage
<1>2. Paged(view, 1, MaxLimit) = [err |-> Ok, items |-> view] /\ DecodeQueryParams(1, MaxLimit)
  BY <1>1, FirstPage
<1>3. answer = Reply(1, MaxLimit, Paged(view, 1, MaxLimit))
  <2>1. 1 \in Int /\ MaxLimit \in Int
    BY PaginationAssumption
  <2>2. answer = PostsReply(list, profiles, 1, MaxLimit)
    BY <1>l
  <2> QED BY <1>0, <2>1, <2>2 DEF PostsPagewise, PostsReply
<1>4. answer = [code |-> 200, items |-> view]
  BY <1>2, <1>3 DEF Reply
<1>5. \A p \in ids : h[p][1].id = p
  BY <1>h, EntryFacts DEF PostEntries
<1> QED BY <1>0, <1>4, <1>5, IdsShown

LEMMA FirstPageOfComments ==
    ASSUME IInv, FitOnOnePage, NEW o, NEW profiles, NEW ids,
           ids = CommentsOf(o), NEW answer,
           answer = CommentsReply(GetCommentsByPost(o), profiles, 1, MaxLimit)
    PROVE  answer.code = 200 /\ IdsOf(answer) = ids /\ Len(answer.items) = Cardinality(ids)
<1>l. PICK list : list = GetCommentsByPost(o)
  OBVIOUS
<1>v. PICK view : view = enrichCommentsWithProfiles(list, profiles)
  OBVIOUS
<1>V. PICK V : V = CommentRange(ids, profiles)
  OBVIOUS
<1>h. PICK h : h = CommentEntries(ids, profiles)
  OBVIOUS
<1>0. view \in Seq(V) /\ Enumerates(view, h, ids) /\ CommentsPagewise(list, view, profiles)
  BY <1>l, <1>v, <1>V, <1>h, CommentListFacts
<1>c. Len(view) = Cardinality(ids)
  BY <1>0 DEF Enumerates
<1>1. view \in Seq(V) /\ Len(view) <= MaxLimit
  <2>0. ids \subseteq DOMAIN comments
    BY DEF CommentsOf
  <2>1. Cardinality(ids) <= Cardinality(DOMAIN comments)
    BY <2>0, FiniteTables, FS_Subset
  <2>2. IsFiniteSet(ids) /\ Cardinality(ids) \in Nat /\ Cardinality(DOMAIN comments) \in Nat
    BY <2>0, FiniteTables, FS_Subset, FS_CardinalityType
  <2> QED BY <1>0, <1>c, <2>1, <2>2, PaginationAssumption DEF FitOnOnePage
<1>2. Paged(view, 1, MaxLimit) = [err |-> Ok, items |-> view] /\ DecodeQueryParams(1, MaxLimit)
  BY <1>1, FirstPage
<1>3. answer = Reply(1, MaxLimit, Paged(view, 1, MaxLimit))
  <2>1. 1 \in Int /\ MaxLimit \in Int
    BY PaginationAssumption
  <2>2. answer = CommentsReply(list, profiles, 1, MaxLimit)
    BY <1>l
  <2> QED BY <1>0, <2>1, <2>2 DEF CommentsPagewise, CommentsReply
<1>4. answer = [code |-> 200, items |-> view]
  BY <1>2, <1>3 DEF Reply
<1>5. \A c \in ids : h[c][1].id = c
  BY <1>h, EntryFacts DEF CommentEntries
<1> QED BY <1>0, <1>4, <1>5, IdsShown
-------------------------------------------------------------------------------
(* What is fetched by itself. *)

LEMMA ListRefused ==
    ASSUME NEW err, NEW answer, err # Ok,
           answer = Reply(1, MaxLimit, Failure(err))
    PROVE  answer = [code |-> MapErrorToHTTP(err), items |-> <<>>]
<1>1. DecodeQueryParams(1, MaxLimit)
  <2>1. <<>> \in Seq({}) /\ Len(<<>>) <= MaxLimit
    BY PaginationAssumption
  <2> QED BY <2>1, FirstPage
<1> QED BY <1>1 DEF Reply, Failure

LEMMA ShownByItself ==
    ASSUME NEW p, NEW u, NEW profiles, NEW one, one = GetPostHandler(u, p, profiles)
    PROVE  /\ p \in DOMAIN posts => one.code = 200 /\ one.items[1][1].comments = Cardinality(CommentsOf(p))
           /\ p \notin DOMAIN posts => one.code = 404
<1>1. CASE p \in DOMAIN posts
  <2>e. PICK e : e = enrichPostWithProfile(PostDB(p, u), profiles)
    OBVIOUS
  <2>1. one = [code |-> 200, items |-> <<e>>]
    BY <1>1, <2>e DEF GetPostHandler, GetPost, Respond, Result
  <2>2. e[1].comments = Cardinality(CommentsOf(p))
    BY <2>e DEF enrichPostWithProfile, PostDB, GetPostCommentsCount, CommentsOf
  <2> QED BY <1>1, <2>1, <2>2
<1>2. CASE p \notin DOMAIN posts
  <2>1. one = [code |-> MapErrorToHTTP("ErrPostNotFound"), items |-> <<>>]
    BY <1>2 DEF GetPostHandler, GetPost, Respond, Failure, Ok
  <2>2. MapErrorToHTTP("ErrPostNotFound") = 404
    BY DEF MapErrorToHTTP
  <2> QED BY <1>2, <2>1, <2>2
<1> QED BY <1>1, <1>2

LEMMA CommentShownByItself ==
    ASSUME NEW c, NEW profiles
    PROVE  GetCommentHandler(c, profiles).code = 200 <=> c \in DOMAIN comments
<1>1. CASE c \in DOMAIN comments
  <2>e. PICK e : e = enrichCommentWithProfile(Comment(c), profiles)
    OBVIOUS
  <2>1. GetCommentHandler(c, profiles) = [code |-> 200, items |-> <<e>>]
    BY <1>1, <2>e DEF GetCommentHandler, GetComment, Respond, Result
  <2> QED BY <1>1, <2>1
<1>2. CASE c \notin DOMAIN comments
  <2>1. GetCommentHandler(c, profiles) = [code |-> MapErrorToHTTP("ErrNotFound"), items |-> <<>>]
    BY <1>2 DEF GetCommentHandler, GetComment, Respond, Failure, Ok
  <2>2. MapErrorToHTTP("ErrNotFound") = 404
    BY DEF MapErrorToHTTP
  <2> QED BY <1>2, <2>1, <2>2
<1> QED BY <1>1, <1>2

(* The comments of a post, of which there are none without the post. *)
LEMMA CommentsShown ==
    ASSUME IInv, GoWithPosts, FitOnOnePage, NEW p, NEW profiles,
           NEW all, all = GetPostCommentsHandler(p, 1, MaxLimit, profiles)
    PROVE  /\ p \in DOMAIN posts => all.code = 200
           /\ p \notin DOMAIN posts => all.code = 404
           /\ IdsOf(all) = CommentsOf(p) /\ Len(all.items) = Cardinality(CommentsOf(p))
<1>1. CASE p \in DOMAIN posts
  <2>1. all = CommentsReply(GetCommentsByPost(p), profiles, 1, MaxLimit)
    BY <1>1 DEF GetPostCommentsHandler, GetPostComments, CommentsReply
  <2> QED BY <1>1, <2>1, FirstPageOfComments
<1>2. CASE p \notin DOMAIN posts
  <2>1. all = Reply(1, MaxLimit, Failure("ErrNotFound"))
    BY <1>2 DEF GetPostCommentsHandler, GetPostComments
  <2>2. all = [code |-> MapErrorToHTTP("ErrNotFound"), items |-> <<>>]
    BY <2>1, ListRefused DEF Ok
  <2>3. MapErrorToHTTP("ErrNotFound") = 404
    BY DEF MapErrorToHTTP
  <2>4. CommentsOf(p) = {}
    BY <1>2 DEF CommentsOf, GoWithPosts
  <2>5. IdsOf(all) = {} /\ Len(all.items) = 0
    BY <2>2 DEF IdsOf
  <2> QED BY <1>2, <2>2, <2>3, <2>4, <2>5, FS_EmptySet
<1> QED BY <1>1, <1>2

-------------------------------------------------------------------------------
(* The lists of posts. *)

Inside == {p \in DOMAIN posts : posts[p].inside}
Own(v) == {p \in DOMAIN posts : posts[p].author = v /\ ~posts[p].inside}

LEMMA ListsShown ==
    ASSUME IInv, FitOnOnePage, NEW u \in Users, NEW profiles
    PROVE  /\ IdsOf(GetCommunityPostsHandler(u, 1, MaxLimit, profiles)) = Inside
           /\ \A v \in Users : IdsOf(GetUserPostsHandler(u, v, 1, MaxLimit, profiles)) = Own(v)
           /\ IdsOf(PostsPaginateHandler(u, 1, MaxLimit, profiles))
                = {p \in DOMAIN posts : ~posts[p].inside \/ u \in subscribers}
<1>1. IdsOf(GetCommunityPostsHandler(u, 1, MaxLimit, profiles)) = Inside
  <2>a. PICK answer : answer = GetCommunityPostsHandler(u, 1, MaxLimit, profiles)
    OBVIOUS
  <2>1. CASE community
    <3>1. answer = PostsReply(PostList(Inside, u), profiles, 1, MaxLimit)
      BY <2>1, <2>a DEF GetCommunityPostsHandler, CommunityPosts, GetCommunityPosts, PostsReply, Inside
    <3>2. Inside \subseteq DOMAIN posts
      BY DEF Inside
    <3> QED BY <2>a, <3>1, <3>2, FirstPageOfPosts
  <2>2. CASE ~community
    <3>1. answer = Reply(1, MaxLimit, Failure("ErrNotFound"))
      BY <2>2, <2>a DEF GetCommunityPostsHandler, CommunityPosts
    <3>2. answer = [code |-> MapErrorToHTTP("ErrNotFound"), items |-> <<>>]
      BY <3>1, ListRefused DEF Ok
    <3>3. IdsOf(answer) = {}
      BY <3>2 DEF IdsOf
    <3>4. Inside = {}
      BY <2>2 DEF Inside, IInv, CommunityPostsByCreator
    <3> QED BY <2>a, <3>3, <3>4
  <2> QED BY <2>1, <2>2
<1>2. ASSUME NEW v \in Users
      PROVE  IdsOf(GetUserPostsHandler(u, v, 1, MaxLimit, profiles)) = Own(v)
  <2>a. PICK answer : answer = GetUserPostsHandler(u, v, 1, MaxLimit, profiles)
    OBVIOUS
  <2>1. answer = PostsReply(PostList(Own(v), u), profiles, 1, MaxLimit)
    BY <2>a DEF GetUserPostsHandler, GetUserPosts, GetPostsByUser, PostsReply, Own
  <2>2. Own(v) \subseteq DOMAIN posts
    BY DEF Own
  <2> QED BY <2>a, <2>1, <2>2, FirstPageOfPosts
<1>3. IdsOf(PostsPaginateHandler(u, 1, MaxLimit, profiles))
        = {p \in DOMAIN posts : ~posts[p].inside \/ u \in subscribers}
  <2>i. PICK ids : ids = {p \in DOMAIN posts : ~posts[p].inside \/ u \in subscribers}
    OBVIOUS
  <2>a. PICK answer : answer = PostsPaginateHandler(u, 1, MaxLimit, profiles)
    OBVIOUS
  <2>1. answer = PostsReply(PostList(ids, u), profiles, 1, MaxLimit)
    BY <2>a, <2>i DEF PostsPaginateHandler, PostsPaginate, PostsPaginatedList, PostsReply
  <2>2. ids \subseteq DOMAIN posts
    BY <2>i
  <2>3. IdsOf(answer) = ids
    BY <2>1, <2>2, FirstPageOfPosts
  <2> QED BY <2>a, <2>i, <2>3
<1> QED BY <1>1, <1>2, <1>3

LEMMA EveryPostIsShown == IInv /\ GoWithPosts => EveryPostShown
<1> SUFFICES ASSUME IInv, GoWithPosts, FitOnOnePage,
                    NEW u \in Users, NEW profiles \in {{}, {Creator}}
    PROVE
       LET feed   == PostsPaginateHandler(u, 1, MaxLimit, profiles)
           inside == IdsOf(GetCommunityPostsHandler(u, 1, MaxLimit, profiles))
           own    == UNION {IdsOf(GetUserPostsHandler(u, v, 1, MaxLimit, profiles)) : v \in Users}
       IN  /\ own \cup inside = DOMAIN posts
           /\ IdsOf(feed) = own \cup (IF u \in subscribers THEN inside ELSE {})
           /\ \A p \in 1..created :
                 LET one == GetPostHandler(u, p, profiles)
                     all == GetPostCommentsHandler(p, 1, MaxLimit, profiles)
                 IN  /\ p \in DOMAIN posts <=> one.code = 200
                     /\ all.code = one.code
                     /\ GetPostCommentsCountHandler(p).items = <<Len(all.items)>>
                     /\ p \in DOMAIN posts => one.items[1][1].comments = Len(all.items)
                     /\ \A c \in IdsOf(all) : GetCommentHandler(c, profiles).code = 200
           /\ \A c \in 1..commented : GetCommentHandler(c, profiles).code = 200
                 => c \in IdsOf(GetPostCommentsHandler(comments[c].post, 1, MaxLimit, profiles))
           /\ {l[1] : l \in likes} \subseteq DOMAIN posts
  BY Zenon DEF EveryPostShown
<1> DEFINE feed   == PostsPaginateHandler(u, 1, MaxLimit, profiles)
           inside == IdsOf(GetCommunityPostsHandler(u, 1, MaxLimit, profiles))
           own    == UNION {IdsOf(GetUserPostsHandler(u, v, 1, MaxLimit, profiles)) : v \in Users}
<1>1. /\ inside = Inside
      /\ IdsOf(feed) = {p \in DOMAIN posts : ~posts[p].inside \/ u \in subscribers}
  BY ListsShown
<1>2. own = {p \in DOMAIN posts : ~posts[p].inside}
  <2>1. own = UNION {Own(v) : v \in Users}
    BY ListsShown
  <2>2. \A p \in DOMAIN posts : posts[p].author \in Users
    BY DEF IInv, DiskAgrees, TypeOK
  <2>3. UNION {Own(v) : v \in Users} = {p \in DOMAIN posts : ~posts[p].inside}
    BY <2>2 DEF Own
  <2> QED BY <2>1, <2>3
<1> HIDE DEF feed, inside, own
<1>3. /\ own \cup inside = DOMAIN posts
      /\ IdsOf(feed) = own \cup (IF u \in subscribers THEN inside ELSE {})
  BY <1>1, <1>2 DEF Inside
<1>4. ASSUME NEW p \in 1..created,
             NEW one, one = GetPostHandler(u, p, profiles),
             NEW all, all = GetPostCommentsHandler(p, 1, MaxLimit, profiles)
      PROVE  /\ p \in DOMAIN posts <=> one.code = 200
             /\ all.code = one.code
             /\ GetPostCommentsCountHandler(p).items = <<Len(all.items)>>
             /\ p \in DOMAIN posts => one.items[1][1].comments = Len(all.items)
             /\ \A c \in IdsOf(all) : GetCommentHandler(c, profiles).code = 200
  <2>1. /\ p \in DOMAIN posts => one.code = 200 /\ one.items[1][1].comments = Cardinality(CommentsOf(p))
        /\ p \notin DOMAIN posts => one.code = 404
    BY <1>4, ShownByItself
  <2>2. /\ p \in DOMAIN posts => all.code = 200
        /\ p \notin DOMAIN posts => all.code = 404
        /\ IdsOf(all) = CommentsOf(p) /\ Len(all.items) = Cardinality(CommentsOf(p))
    BY <1>4, CommentsShown
  <2>3. GetPostCommentsCountHandler(p).items = <<Cardinality(CommentsOf(p))>>
    BY DEF GetPostCommentsCountHandler, PostCommentsCount, GetPostCommentsCount, CommentsOf, Respond, Result
  <2>4. \A c \in CommentsOf(p) : GetCommentHandler(c, profiles).code = 200
    BY CommentShownByItself DEF CommentsOf
  <2> QED BY <2>1, <2>2, <2>3, <2>4
<1>5. ASSUME NEW c \in 1..commented, GetCommentHandler(c, profiles).code = 200
      PROVE  c \in IdsOf(GetPostCommentsHandler(comments[c].post, 1, MaxLimit, profiles))
  <2>1. c \in DOMAIN comments
    BY <1>5, CommentShownByItself
  <2>2. c \in CommentsOf(comments[c].post)
    BY <2>1 DEF CommentsOf
  <2> QED BY <2>2, CommentsShown
<1>6. {l[1] : l \in likes} \subseteq DOMAIN posts
  BY DEF GoWithPosts
<1> QED BY <1>3, <1>4, <1>5, <1>6 DEF feed, inside, own

(* Every post is shown by itself, by the list of its author or of its      *)
(* community and in the feed of everybody who may see it, with the comments*)
(* it counts, turning pages shows each of them once, and the posts of the  *)
(* community are its creator's: for any number of users, posts and         *)
(* comments and any page size, whatever the requests in progress do.       *)
THEOREM EverythingPostedIsShown == Spec => []PostsAreShown
<1>1. IInv /\ GoWithPosts => PostsAreShown
  BY EveryPostIsShown, PostPagesAreRight DEF PostsAreShown, IInv
<1> QED BY <1>1, AlwaysTogether, PTL
===============================================================================
