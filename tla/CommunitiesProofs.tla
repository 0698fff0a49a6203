--------------------------- MODULE CommunitiesProofs ---------------------------
(***************************************************************************)
(* Proofs about the communities and their files (module Communities).      *)
(*                                                                         *)
(* A request deletes files it has read of a row, or written itself, some   *)
(* steps ago.  That this takes no file away from another community rests   *)
(* on FilesHaveOneOwner; that it takes none away from its own rests on     *)
(* KnowsTheRow.  A step of a request is shown to touch nothing but its own *)
(* (Alone, KeepsItsOwn), once for all steps (StepKeeps).                   *)
(*                                                                         *)
(* What the index and the lists show rests on SInv: whoever creates a      *)
(* community joins it, its document follows its row, and nobody is         *)
(* subscribed to a community that never was.                               *)
(***************************************************************************)
EXTENDS Communities, PaginationProofs

(* What a request and a row are made of. *)
LEMMA RequestFields ==
    ASSUME NEW q \in Request
    PROVE  /\ q.op \in Ops /\ q.step \in Steps /\ q.id \in 0..MaxCommunities
           /\ q.user \in Users \cup {NoUser} /\ q.name \in Names \cup {NoName}
           /\ q.sent \in SUBSET Kinds
           /\ q.old \in Paths /\ q.new \in Paths
  BY DEF Request, Kinds

(* The files of paths. *)
LEMMA TakenFacts ==
    ASSUME NEW p
    PROVE  /\ Taken(p) = {p["avatar"], p["cover"]} \ {NoFile}
           /\ \A k \in Kinds : p[k] # NoFile => p[k] \in Taken(p)
           /\ \A f \in Taken(p) : \E k \in Kinds : f = p[k]
           /\ \A f \in Taken(p) : f # NoFile
  BY DEF Taken, Kinds

(* No paths, no request. *)
LEMMA NoRequestFacts ==
    /\ NoPaths \in Paths /\ Taken(NoPaths) = {} /\ Distinct(NoPaths)
    /\ \A k \in Kinds : NoPaths[k] = NoFile
    /\ NoRequest \in Request /\ NoRequest.step = "idle" /\ NoRequest.op = "unsubscribe"
    /\ NoRequest.old = NoPaths /\ NoRequest.new = NoPaths /\ NoRequest.sent = {}
    /\ NoRequest.id = 0
    /\ Sound(NoRequest) /\ ~Changes(NoRequest)
<1>1. NoPaths \in Paths /\ Taken(NoPaths) = {} /\ Distinct(NoPaths)
      /\ \A k \in Kinds : NoPaths[k] = NoFile
  BY DEF NoPaths, Paths, Taken, Distinct, Kinds
<1>2. NoRequest \in Request /\ NoRequest.step = "idle" /\ NoRequest.op = "unsubscribe"
      /\ NoRequest.old = NoPaths /\ NoRequest.new = NoPaths /\ NoRequest.sent = {}
      /\ NoRequest.id = 0
  BY <1>1, NullAssumption DEF NoRequest, Request, Ops, Steps
<1>3. Sound(NoRequest) /\ ~Changes(NoRequest)
  BY <1>1, <1>2 DEF Sound, Changes, StepsOf, Prepares, Finishes, Uploaded, Kinds
<1> QED BY <1>1, <1>2, <1>3

-------------------------------------------------------------------------------
(* What every step keeps. *)

(* The community a request changes. *)
Mine(c, r) == Changes(req[r]) /\ req[r].id = c /\ c # 0

(* The community c is one that a step of r has written: with files of its  *)
(* own.                                                                    *)
Writes(r, c) ==
    /\ \/ c \in DOMAIN communities /\ Mine(c, r) /\ communities'[c].creator = communities[c].creator
       \/ c = created + 1 /\ req[r].op = "create" /\ req[r].id = 0
             /\ (Holds(r)' = {} \/ req'[r].id = c)
    /\ PathsOf(c)' \subseteq Holds(r) /\ Distinct(communities'[c])

(* A step of r writes and deletes no files and rows but its own, and no    *)
(* history gets lost.                                                      *)
Alone(r) ==
    /\ \A s \in Requests \ {r} : req'[s] = req[s]
    /\ created <= created' /\ used <= used'
    /\ overlapped \subseteq overlapped' /\ unsure \subseteq unsure' /\ failed \subseteq failed'
    /\ \A f \in files : f \notin files' => f \in Holds(r)
    /\ \A c \in DOMAIN communities' :
          (c \in DOMAIN communities /\ communities'[c] = communities[c]) \/ Writes(r, c)
    /\ \A c \in DOMAIN communities : c \notin DOMAIN communities' => Mine(c, r)

(* The request stays what it is, and what it gets hold of is new or that   *)
(* of its community.                                                       *)
KeepsItsOwn(r) ==
    \/ Holds(r)' = {}
    \/ /\ req'[r].op = req[r].op
       /\ \/ req'[r].id = req[r].id
          \/ req[r].op = "create" /\ req[r].id = 0 /\ req'[r].id = created + 1
       /\ \A f \in Holds(r)' :
             \/ f \in Holds(r)
             \/ f \in (used + 1)..used'
             \/ \E c \in DOMAIN communities : Mine(c, r) /\ f \in PathsOf(c)

(* Histories only grow. *)
LEMMA ClearFacts ==
    ASSUME overlapped \subseteq overlapped', unsure \subseteq unsure', failed \subseteq failed'
    PROVE  (\A c : Clear(c)' => Clear(c)) /\ (Quiet' => Quiet)
  BY DEF Clear, Quiet

(* Types of the numbers. *)
LEMMA Numbers ==
    ASSUME IInv
    PROVE  /\ created \in Nat /\ used \in Nat /\ DOMAIN communities \subseteq 1..created
           /\ created <= MaxCommunities /\ files \subseteq 1..used
           /\ 1..used \subseteq Files /\ 1..created \subseteq Ids
           /\ \A c \in DOMAIN communities : c \in 1..created /\ c # 0 /\ c # created + 1
           /\ \A r \in Requests : req[r].id # created + 1
<1>1. /\ created \in 0..MaxCommunities /\ used \in 0..MaxFiles /\ files \subseteq 1..used
      /\ DOMAIN communities \subseteq 1..created
      /\ MaxCommunities \in Nat /\ MaxFiles \in Nat
  BY NullAssumption DEF IInv, DiskAgrees, TypeOK
<1>2. 1..used \subseteq Files /\ 1..created \subseteq Ids
  BY <1>1 DEF Files, Ids
<1>3. ASSUME NEW r \in Requests PROVE req[r].id # created + 1
  <2>1. req[r].id \in 0..created
    BY <1>1 DEF IInv, Sound
  <2> QED BY <1>1, <2>1
<1> QED BY <1>1, <1>2, <1>3

(* A request that waits keeps what is said of it. *)
LEMMA OthersKeep ==
    ASSUME IInv, TypeOK', NEW r \in Requests, Alone(r), NEW s \in Requests, s # r
    PROVE  Sound(req[s])' /\ KnowsTheRow(req[s])' /\ KnowsItsFate(req[s])'
<1>q. PICK q \in Request : q = req[s]
  BY DEF IInv, DiskAgrees, TypeOK
<1>1. req[s] = q /\ req'[s] = q /\ Sound(q) /\ KnowsTheRow(q) /\ KnowsItsFate(q)
  BY <1>q DEF IInv, Alone
<1>2. /\ created \in Nat /\ created' \in Nat /\ created <= created'
      /\ q.id \in 0..created /\ q.id # created + 1
      /\ (q.op # "create" /\ Changes(q) => q.id # 0)
  BY <1>1, Numbers DEF Alone, TypeOK, Sound, Changes, StepsOf
<1>3. Changes(q) /\ Mine(q.id, r) => q.id \in overlapped /\ q.id \in overlapped'
  BY <1>1 DEF IInv, OverlapsAreNoted, Mine, Alone
<1>4. ASSUME q.id \in DOMAIN communities'
      PROVE  \/ q.id \in DOMAIN communities /\ communities'[q.id] = communities[q.id]
             \/ q.id \in DOMAIN communities /\ Mine(q.id, r)
                  /\ communities'[q.id].creator = communities[q.id].creator
  BY <1>2, <1>4 DEF Alone, Writes
<1>5. \A c : Clear(c)' => Clear(c) /\ c \notin overlapped'
  BY ClearFacts DEF Alone, Clear
<1>6. Sound(q)'
  <2>1. \A i \in 1..created : i \in 1..created'
    BY <1>2
  <2> QED BY <1>1, <2>1 DEF Sound
<1>7. KnowsItsFate(q)'
  BY <1>1, <1>4 DEF KnowsItsFate, Exists
<1>8. KnowsTheRow(q)'
  <2> SUFFICES ASSUME Changes(q), Clear(q.id)'
               PROVE  /\ Prepares(q) /\ q.op # "create" =>
                           /\ q.id \in DOMAIN communities'
                           /\ q.old.avatar = communities'[q.id].avatar
                           /\ q.old.cover = communities'[q.id].cover
                      /\ Finishes(q) /\ q.op # "delete" =>
                           /\ q.id \in DOMAIN communities'
                           /\ q.new.avatar = communities'[q.id].avatar
                           /\ q.new.cover = communities'[q.id].cover
                      /\ Prepares(q) => \A k \in Kinds : Uploaded(q, k) => q.new[k] \in files'
    BY DEF KnowsTheRow, Exists
  <2>1. Clear(q.id) /\ ~Mine(q.id, r)
    BY <1>3, <1>5
  <2>2. q.id \in DOMAIN communities =>
           q.id \in DOMAIN communities' /\ communities'[q.id] = communities[q.id]
    BY <1>4, <2>1 DEF Alone
  <2>3. ASSUME Prepares(q), NEW k \in Kinds, Uploaded(q, k) PROVE q.new[k] \in files'
    <3>1. q.new[k] \in files
      BY <1>1, <2>1, <2>3 DEF KnowsTheRow
    <3>2. q.new[k] \in Holds(s)
      BY <1>1, <2>3, TakenFacts DEF Holds, Sound
    <3>3. q.new[k] \notin Holds(r)
      BY <1>1, <2>1, <3>2 DEF IInv, FilesHaveOneOwner, Mine
    <3> QED BY <3>1, <3>3 DEF Alone
  <2> QED BY <1>1, <2>1, <2>2, <2>3 DEF KnowsTheRow, Exists
<1> QED BY <1>1, <1>6, <1>7, <1>8

(* Files go on having one owner. *)
LEMMA OwnersKept ==
    ASSUME IInv, TypeOK', NEW r \in Requests, Alone(r), KeepsItsOwn(r), Holds(r)' \subseteq 1..used'
    PROVE  FilesHaveOneOwner'
<1>1. /\ created \in Nat /\ used \in Nat /\ used' \in Nat /\ used <= used'
      /\ DOMAIN communities \subseteq 1..created
      /\ \A c \in DOMAIN communities : c # 0 /\ c # created + 1
  BY Numbers DEF TypeOK, Alone
<1>2. \A s \in Requests : s # r => req'[s] = req[s] /\ Holds(s)' = Holds(s)
  BY DEF Alone, Holds
<1>3. FilesHaveOneOwner
  BY DEF IInv
<1>4. \A f \in 1..used : f \in 1..used'
  BY <1>1
<1>5. \A f \in (used + 1)..used' : f \notin 1..used
  BY <1>1
<1>p. \A c : communities'[c] = communities[c] => PathsOf(c)' = PathsOf(c)
  BY DEF PathsOf
<1>6. ASSUME NEW p \in DOMAIN communities'
      PROVE  \/ p \in DOMAIN communities /\ communities'[p] = communities[p] /\ PathsOf(p)' = PathsOf(p)
             \/ Writes(r, p)
  BY <1>p DEF Alone
<1>7. ASSUME NEW p \in DOMAIN communities'
      PROVE  Distinct(communities'[p]) /\ PathsOf(p)' \subseteq 1..used'
  BY <1>3, <1>4, <1>6 DEF FilesHaveOneOwner, Writes
<1>8. ASSUME NEW s \in Requests PROVE Holds(s)' \subseteq 1..used'
  BY <1>2, <1>3, <1>4 DEF FilesHaveOneOwner
<1>9. ASSUME NEW p \in DOMAIN communities', NEW o \in DOMAIN communities', NEW f \in PathsOf(p)',
             f \in PathsOf(o)', PathsOf(o)' = PathsOf(o), o \in DOMAIN communities
      PROVE  p = o
  <2>1. CASE p \in DOMAIN communities /\ PathsOf(p)' = PathsOf(p)
    BY <1>3, <1>9, <2>1 DEF FilesHaveOneOwner
  <2>2. CASE Writes(r, p)
    <3>1. f \in Holds(r) /\ f \in PathsOf(o)
      BY <1>9, <2>2 DEF Writes
    <3>2. Changes(req[r]) /\ req[r].id = o /\ o # 0
      BY <1>1, <1>3, <1>9, <3>1 DEF FilesHaveOneOwner
    <3> QED BY <2>2, <3>2 DEF Writes, Mine
  <2> QED BY <1>6, <2>1, <2>2
<1>10. ASSUME NEW p \in DOMAIN communities', NEW o \in DOMAIN communities', Writes(r, p), Writes(r, o)
       PROVE  p = o
  BY <1>10 DEF Writes, Mine
<1>11. ASSUME NEW p \in DOMAIN communities', NEW o \in DOMAIN communities', NEW f \in PathsOf(p)',
              f \in PathsOf(o)'
       PROVE  p = o
  <2>1. CASE o \in DOMAIN communities /\ PathsOf(o)' = PathsOf(o)
    BY <1>9, <1>11, <2>1
  <2>2. CASE p \in DOMAIN communities /\ PathsOf(p)' = PathsOf(p)
    BY <1>9, <1>11, <2>2
  <2>3. CASE Writes(r, p) /\ Writes(r, o)
    BY <1>10, <2>3
  <2> QED BY <1>6, <2>1, <2>2, <2>3
<1>12. ASSUME NEW s \in Requests, s # r, NEW p \in DOMAIN communities', NEW f \in Holds(s),
              f \in PathsOf(p)'
       PROVE  Changes(req[s]) /\ req[s].id = p
  <2>1. CASE p \in DOMAIN communities /\ PathsOf(p)' = PathsOf(p)
    BY <1>3, <1>12, <2>1 DEF FilesHaveOneOwner
  <2>2. CASE Writes(r, p)
    <3>1. f \in Holds(r)
      BY <1>12, <2>2 DEF Writes
    <3>2. Changes(req[r]) /\ Changes(req[s]) /\ req[r].id = req[s].id /\ req[r].id # 0
      BY <1>3, <1>12, <3>1 DEF FilesHaveOneOwner
    <3> QED BY <2>2, <3>2 DEF Writes, Mine
  <2> QED BY <1>6, <2>1, <2>2
<1>k. Holds(r)' # {} /\ req[r].id # 0 => req'[r].op = req[r].op /\ req'[r].id = req[r].id
  BY DEF KeepsItsOwn
<1>13. ASSUME NEW p \in DOMAIN communities', NEW f \in Holds(r)', f \in PathsOf(p)'
       PROVE  Changes(req'[r]) /\ req'[r].id = p
  <2>1. SUFFICES ASSUME ~(Writes(r, p) /\ req[r].id = 0) PROVE Mine(p, r)
    <3>1. CASE Writes(r, p) /\ req[r].id = 0
      <4>1. req'[r].id = p /\ req'[r].op = req[r].op /\ req[r].op = "create"
        BY <1>13, <3>1 DEF Writes, Mine, KeepsItsOwn
      <4> QED BY <4>1 DEF Changes
    <3>2. CASE Mine(p, r)
      BY <1>13, <1>k, <3>2 DEF Mine, Changes
    <3> QED BY <3>1, <3>2
  <2>3. CASE p \in DOMAIN communities /\ PathsOf(p)' = PathsOf(p)
    <3>1. CASE f \in Holds(r)
      BY <1>1, <1>3, <1>13, <2>3, <3>1 DEF FilesHaveOneOwner, Mine
    <3>2. CASE f \in (used + 1)..used'
      BY <1>3, <1>5, <1>13, <2>3, <3>2 DEF FilesHaveOneOwner
    <3>3. CASE \E o \in DOMAIN communities : Mine(o, r) /\ f \in PathsOf(o)
      BY <1>3, <1>13, <2>3, <3>3 DEF FilesHaveOneOwner
    <3> QED BY <1>13, <3>1, <3>2, <3>3 DEF KeepsItsOwn
  <2>4. CASE Writes(r, p)
    BY <1>13, <2>1, <2>4 DEF Writes
  <2> QED BY <1>6, <2>3, <2>4
<1>14. ASSUME NEW s \in Requests, s # r, NEW f \in Holds(s), f \in Holds(r)'
       PROVE  Changes(req'[r]) /\ Changes(req[s]) /\ req'[r].id = req[s].id /\ req'[r].id # 0
  <2>2. SUFFICES Changes(req[r]) /\ Changes(req[s]) /\ req[r].id = req[s].id /\ req[r].id # 0
    BY <1>14, <1>k DEF Changes
  <2>3. CASE f \in Holds(r)
    BY <1>3, <1>14, <2>3 DEF FilesHaveOneOwner
  <2>4. CASE f \in (used + 1)..used'
    BY <1>3, <1>5, <1>14, <2>4 DEF FilesHaveOneOwner
  <2>5. CASE \E o \in DOMAIN communities : Mine(o, r) /\ f \in PathsOf(o)
    BY <1>3, <1>14, <2>5 DEF FilesHaveOneOwner, Mine
  <2> QED BY <1>14, <2>3, <2>4, <2>5 DEF KeepsItsOwn
<1>15. \A s \in Requests, p \in DOMAIN communities' : \A f \in Holds(s)' :
          f \in PathsOf(p)' => Changes(req'[s]) /\ req'[s].id = p
  BY <1>2, <1>12, <1>13
<1>16. \A s, t \in Requests : \A f \in Holds(s)' : f \in Holds(t)' /\ s # t =>
          Changes(req'[s]) /\ Changes(req'[t]) /\ req'[s].id = req'[t].id /\ req'[s].id # 0
  <2> SUFFICES ASSUME NEW s \in Requests, NEW t \in Requests, NEW f \in Holds(s)',
                      f \in Holds(t)', s # t
               PROVE  /\ Changes(req'[s]) /\ Changes(req'[t])
                      /\ req'[s].id = req'[t].id /\ req'[s].id # 0
    OBVIOUS
  <2>1. CASE s # r /\ t # r
    BY <1>2, <1>3, <2>1 DEF FilesHaveOneOwner
  <2>2. CASE s = r
    BY <1>2, <1>14, <2>2
  <2>3. CASE t = r
    BY <1>2, <1>14, <2>3
  <2> QED BY <2>1, <2>2, <2>3
<1> QED BY <1>7, <1>8, <1>11, <1>15, <1>16, Zenon DEF FilesHaveOneOwner

(* No request goes on with another community than its own, except that a   *)
(* new one gets an id that no request has.                                 *)
LEMMA OverlapsKept ==
    ASSUME IInv, NEW r \in Requests, Alone(r),
           \/ ~Changes(req'[r])
           \/ /\ req'[r].op = req[r].op
              /\ \/ req'[r].id = req[r].id
                 \/ req[r].id = 0 /\ req'[r].id = created + 1
    PROVE  OverlapsAreNoted'
<1> SUFFICES ASSUME NEW s \in Requests, NEW t \in Requests, s # t,
                    Changes(req'[s]), Changes(req'[t]), req'[s].id = req'[t].id, req'[s].id # 0
             PROVE  req'[s].id \in overlapped'
  BY DEF OverlapsAreNoted, Changes
<1>1. \A u \in Requests : u # r => req'[u] = req[u] /\ req[u].id # created + 1
  BY Numbers DEF Alone
<1>2. Changes(req'[r]) => req'[r].op = req[r].op /\ (req'[r].id = req[r].id \/ req'[r].id = created + 1)
  OBVIOUS
<1>3. \A u \in {s, t} : req'[u].id = req[u].id /\ Changes(req[u])
  <2>1. CASE s # r /\ t # r
    BY <1>1, <2>1
  <2>2. CASE s = r
    BY <1>1, <1>2, <2>2 DEF Changes
  <2>3. CASE t = r
    BY <1>1, <1>2, <2>3 DEF Changes
  <2> QED BY <2>1, <2>2, <2>3
<1> QED BY <1>3 DEF IInv, OverlapsAreNoted, Alone

(* What a step of one request has to show for the invariant. *)
LEMMA StepKeeps ==
    ASSUME IInv, TypeOK', NEW r \in Requests, Alone(r), KeepsItsOwn(r), Holds(r)' \subseteq 1..used',
           Sound(req[r])', KnowsTheRow(req[r])', KnowsItsFate(req[r])',
           OverlapsAreNoted', unsure' \subseteq failed',
           \A c \in DOMAIN communities' : Clear(c)' /\ (Mine(c, r) \/ c \notin DOMAIN communities) =>
               PathsOf(c)' \subseteq files',
           Quiet' => \A f \in files' :
               \/ f \in Holds(r)
               \/ f \notin files
               \/ \E c \in DOMAIN communities : Mine(c, r) /\ f \in PathsOf(c)
               => \/ f \in Holds(r)'
                  \/ \E c \in DOMAIN communities' : f \in PathsOf(c)'
    PROVE  IInv'
<1>1. \A s \in Requests : Sound(req[s])' /\ KnowsTheRow(req[s])' /\ KnowsItsFate(req[s])'
  <2> SUFFICES ASSUME NEW s \in Requests
               PROVE  Sound(req[s])' /\ KnowsTheRow(req[s])' /\ KnowsItsFate(req[s])'
    OBVIOUS
  <2>1. CASE s = r
    BY <2>1
  <2>2. CASE s # r
    BY <2>2, OthersKeep
  <2> QED BY <2>1, <2>2
<1>2. FilesHaveOneOwner'
  BY OwnersKept
<1>3. (\A c : Clear(c)' => Clear(c)) /\ (Quiet' => Quiet)
  BY ClearFacts DEF Alone
<1>p. \A c : communities'[c] = communities[c] => PathsOf(c)' = PathsOf(c)
  BY DEF PathsOf
<1>4. FilesAreServed'
  <2> SUFFICES ASSUME NEW p \in DOMAIN communities', Clear(p)'
               PROVE  PathsOf(p)' \subseteq files'
    BY DEF FilesAreServed, Clear
  <2>1. CASE p \in DOMAIN communities /\ communities'[p] = communities[p] /\ ~Mine(p, r)
    <3> SUFFICES ASSUME NEW f \in PathsOf(p) PROVE f \in files'
      BY <1>p, <2>1
    <3>1. f \in files
      BY <1>3, <2>1 DEF IInv, DiskAgrees, FilesAreServed, Clear
    <3>2. f \notin Holds(r)
      BY <2>1, Numbers DEF IInv, FilesHaveOneOwner, Mine
    <3> QED BY <3>1, <3>2 DEF Alone
  <2>2. CASE p \in DOMAIN communities /\ ~Mine(p, r) /\ communities'[p] # communities[p]
    BY <2>2, Numbers DEF Alone, Writes
  <2> QED BY <2>1, <2>2
<1>5. NoFileLeft'
  <2> SUFFICES ASSUME Quiet', NEW f \in files'
               PROVE  \/ \E c \in DOMAIN communities' : f \in PathsOf(c)'
                      \/ \E s \in Requests : f \in Holds(s)'
    BY DEF NoFileLeft, Quiet
  <2>1. CASE \/ f \in Holds(r)
             \/ f \notin files
             \/ \E c \in DOMAIN communities : Mine(c, r) /\ f \in PathsOf(c)
    BY <2>1
  <2>2. CASE \E c \in DOMAIN communities : ~Mine(c, r) /\ f \in PathsOf(c)
    <3>1. PICK c \in DOMAIN communities : ~Mine(c, r) /\ f \in PathsOf(c)
      BY <2>2
    <3>2. c \in DOMAIN communities' /\ communities'[c] = communities[c]
      BY <3>1, Numbers DEF Alone, Writes
    <3> QED BY <1>p, <3>1, <3>2
  <2>3. CASE \E s \in Requests \ {r} : f \in Holds(s)
    BY <2>3 DEF Alone, Holds
  <2>4. CASE f \in files /\ f \notin Holds(r)
             /\ ~\E c \in DOMAIN communities : Mine(c, r) /\ f \in PathsOf(c)
    <3>1. \/ \E c \in DOMAIN communities : f \in PathsOf(c)
          \/ \E s \in Requests : f \in Holds(s)
      BY <1>3, <2>4 DEF IInv, DiskAgrees, NoFileLeft, Quiet
    <3> QED BY <2>2, <2>3, <2>4, <3>1
  <2> QED BY <2>1, <2>4
<1> QED BY <1>1, <1>2, <1>4, <1>5 DEF IInv, DiskAgrees

-------------------------------------------------------------------------------
(* Steps that leave the tables alone. *)

(* One request is replaced. *)
LEMMA RequestAt ==
    ASSUME TypeOK, NEW r \in Requests, NEW x \in Request, req' = [req EXCEPT ![r] = x]
    PROVE  /\ req' \in [Requests -> Request] /\ req'[r] = x
           /\ \A s \in Requests \ {r} : req'[s] = req[s]
           /\ Holds(r)' = Taken(x.old) \cup Taken(x.new)
  BY DEF TypeOK, Holds

(* A step of r that changes no row is alone if it deletes only r's files.  *)
LEMMA AloneSame ==
    ASSUME IInv, TypeOK', NEW r \in Requests, NEW x \in Request, req' = [req EXCEPT ![r] = x],
           created' = created, communities' = communities, overlapped' = overlapped,
           unsure' = unsure, used <= used', failed \subseteq failed',
           \A f \in files : f \notin files' => f \in Holds(r)
    PROVE  Alone(r)
<1>1. TypeOK /\ created \in Nat
  BY Numbers DEF IInv, DiskAgrees
<1>2. \A s \in Requests \ {r} : req'[s] = req[s]
  BY <1>1, RequestAt
<1> QED BY <1>1, <1>2 DEF Alone

(* A request goes on without having changed any file or row. *)
LEMMA GoesOn ==
    ASSUME IInv, TypeOK', NEW r \in Requests, NEW x \in Request, req' = [req EXCEPT ![r] = x],
           created' = created, communities' = communities, overlapped' = overlapped,
           unsure' = unsure, used' = used, files' = files, failed \subseteq failed',
           x.op = req[r].op, x.id = req[r].id,
           Sound(x)', KnowsTheRow(x)', KnowsItsFate(x)',
           Holds(r) \subseteq Taken(x.old) \cup Taken(x.new),
           \A f \in Taken(x.old) \cup Taken(x.new) :
               f \in Holds(r) \/ \E c \in DOMAIN communities : Mine(c, r) /\ f \in PathsOf(c)
    PROVE  IInv'
<1>1. TypeOK /\ used \in Nat /\ used <= used'
  BY Numbers DEF IInv, DiskAgrees
<1>2. req'[r] = x /\ Holds(r)' = Taken(x.old) \cup Taken(x.new)
  BY <1>1, RequestAt
<1>3. Alone(r)
  <2>1. \A f \in files : f \notin files' => f \in Holds(r)
    OBVIOUS
  <2> QED BY <1>1, <2>1, AloneSame
<1>4. KeepsItsOwn(r)
  BY <1>2 DEF KeepsItsOwn
<1>5. Holds(r)' \subseteq 1..used'
  BY <1>2 DEF IInv, FilesHaveOneOwner
<1>6. Sound(req[r])' /\ KnowsTheRow(req[r])' /\ KnowsItsFate(req[r])'
  BY <1>2
<1>7. OverlapsAreNoted'
  BY <1>2, <1>3, OverlapsKept
<1>8. unsure' \subseteq failed'
  BY DEF IInv
<1>9. \A c : PathsOf(c)' = PathsOf(c)
  BY DEF PathsOf
<1>10. \A c \in DOMAIN communities' : Clear(c)' /\ (Mine(c, r) \/ c \notin DOMAIN communities) =>
           PathsOf(c)' \subseteq files'
  BY <1>9 DEF IInv, DiskAgrees, FilesAreServed, Clear
<1>11. Quiet' => \A f \in files' :
           \/ f \in Holds(r)
           \/ f \notin files
           \/ \E c \in DOMAIN communities : Mine(c, r) /\ f \in PathsOf(c)
           => \/ f \in Holds(r)'
              \/ \E c \in DOMAIN communities' : f \in PathsOf(c)'
  BY <1>2, <1>9
<1> QED BY <1>3, <1>4, <1>5, <1>6, <1>7, <1>8, <1>10, <1>11, StepKeeps

(* A request ends. *)
LEMMA EndKeeps ==
    ASSUME IInv, TypeOK', NEW r \in Requests, Alone(r), req'[r] = NoRequest, unsure' \subseteq failed',
           \A c \in DOMAIN communities' : Clear(c)' /\ (Mine(c, r) \/ c \notin DOMAIN communities) =>
               PathsOf(c)' \subseteq files',
           Quiet' => \A f \in files' :
               \/ f \in Holds(r)
               \/ f \notin files
               \/ \E c \in DOMAIN communities : Mine(c, r) /\ f \in PathsOf(c)
               => \E c \in DOMAIN communities' : f \in PathsOf(c)'
    PROVE  IInv'
<1>1. Holds(r)' = {}
  BY NoRequestFacts DEF Holds
<1>2. KeepsItsOwn(r) /\ Holds(r)' \subseteq 1..used'
  BY <1>1 DEF KeepsItsOwn
<1>3. Sound(NoRequest)'
  BY NoRequestFacts DEF Sound, Changes, StepsOf, Prepares, Finishes, Uploaded, Kinds
<1>4. KnowsTheRow(NoRequest)' /\ KnowsItsFate(NoRequest)'
  BY NoRequestFacts DEF KnowsTheRow, KnowsItsFate, Finishes
<1>5. Sound(req[r])' /\ KnowsTheRow(req[r])' /\ KnowsItsFate(req[r])'
  BY <1>3, <1>4
<1>6. ~Changes(req'[r])
  BY NoRequestFacts
<1>7. OverlapsAreNoted'
  BY <1>6, OverlapsKept
<1> QED BY <1>1, <1>2, <1>5, <1>7, StepKeeps

(* A request ends without having changed a row since its last step. *)
LEMMA EndsSame ==
    ASSUME IInv, TypeOK', NEW r \in Requests, req' = [req EXCEPT ![r] = NoRequest],
           created' = created, communities' = communities, overlapped' = overlapped,
           unsure' = unsure, used' = used, files' \subseteq files, failed \subseteq failed',
           \A f \in files : f \notin files' => f \in Holds(r),
           \A c \in DOMAIN communities : Clear(c) /\ Mine(c, r) =>
               \A f \in PathsOf(c) : f \in files => f \in files',
           Quiet' => \A f \in files' : f \in Holds(r) => \E c \in DOMAIN communities : f \in PathsOf(c)
    PROVE  IInv'
<1>1. TypeOK /\ used \in Nat /\ used <= used'
  BY Numbers DEF IInv, DiskAgrees
<1>2. req'[r] = NoRequest
  BY <1>1, RequestAt, NoRequestFacts
<1>3. Alone(r)
  <2>1. NoRequest \in Request
    BY NoRequestFacts
  <2> QED BY <1>1, <2>1, AloneSame
<1>4. unsure' \subseteq failed'
  BY DEF IInv
<1>5. \A c : PathsOf(c)' = PathsOf(c) /\ (Clear(c)' => Clear(c))
  BY DEF PathsOf, Clear
<1>6. \A c \in DOMAIN communities' : Clear(c)' /\ (Mine(c, r) \/ c \notin DOMAIN communities) =>
           PathsOf(c)' \subseteq files'
  BY <1>5 DEF IInv, DiskAgrees, FilesAreServed, Clear
<1>7. Quiet' => \A f \in files' :
           \/ f \in Holds(r)
           \/ f \notin files
           \/ \E c \in DOMAIN communities : Mine(c, r) /\ f \in PathsOf(c)
           => \E c \in DOMAIN communities' : f \in PathsOf(c)'
  BY <1>5
<1> QED BY <1>2, <1>3, <1>4, <1>6, <1>7, EndKeeps

-------------------------------------------------------------------------------
(* Files that are deleted. *)

LEMMA UnlinkFacts ==
    ASSUME NEW gone, NEW c, Unlink(gone, c)
    PROVE  /\ files' \subseteq files
           /\ \A f \in files : f \notin files' => f \in gone
           /\ failed \subseteq failed' /\ failed' \subseteq failed \cup {c}
           /\ failed' = {} => \A f \in files' : f \notin gone \/ f = NoFile
  BY DEF Unlink

(* What a request has written is its own, and not what it has read. *)
LEMMA WrittenFacts ==
    ASSUME NEW q \in Request, Sound(q)
    PROVE  /\ \A f \in Written(q) : f \notin Taken(q.old) /\ f # NoFile /\ f \in Taken(q.new)
           /\ \A f \in Taken(q.new) : f \in Written(q) \/ f \in Taken(q.old)
           /\ q.step \in {"read", "avatar"} \/ ~Changes(q) => Written(q) = {}
<1>a. \A k \in Kinds : IF Uploaded(q, k) THEN q.new[k] \notin Taken(q.old) \cup {NoFile}
                                          ELSE q.new[k] = q.old[k]
  BY Zenon DEF Sound
<1>b. \A k \in Kinds : Uploaded(q, k) => k \in q.sent
  BY DEF Uploaded
<1>1. \A k \in Kinds : /\ q.new[k] # q.old[k] => Uploaded(q, k) /\ k \in q.sent
                       /\ Uploaded(q, k) => q.new[k] \notin Taken(q.old) /\ q.new[k] # NoFile
  BY <1>a, <1>b
<1>2. q.sent \subseteq Kinds
  BY RequestFields
<1>w. \A f : f \in Written(q) <=> \E k \in q.sent : q.new[k] # q.old[k] /\ f = q.new[k]
  BY Zenon DEF Written
<1>3. \A f \in Written(q) : \E k \in Kinds : Uploaded(q, k) /\ f = q.new[k]
  BY <1>1, <1>2, <1>w, Zenon
<1>4. \A f \in Written(q) : f \notin Taken(q.old) /\ f # NoFile /\ f \in Taken(q.new)
  BY <1>1, <1>3, TakenFacts
<1>5. ASSUME NEW f \in Taken(q.new) PROVE f \in Written(q) \/ f \in Taken(q.old)
  <2>1. PICK k \in Kinds : f = q.new[k] /\ f # NoFile
    BY TakenFacts
  <2>2. CASE q.new[k] = q.old[k]
    BY <2>1, <2>2, TakenFacts
  <2>3. CASE q.new[k] # q.old[k]
    BY <1>1, <1>w, <2>1, <2>3, Zenon
  <2> QED BY <2>2, <2>3
<1>6. q.step \in {"read", "avatar"} => Written(q) = {}
  <2>1. q.step \in {"read", "avatar"} => \A k \in Kinds : ~Uploaded(q, k)
    BY DEF Uploaded, Finishes
  <2> QED BY <1>3, <2>1
<1>7. ~Changes(q) => Written(q) = {}
  <2>1. ~Changes(q) => \A k \in Kinds : q.new[k] = q.old[k]
    BY DEF Sound
  <2> QED BY <1>2, <1>w, <2>1
<1> QED BY <1>4, <1>5, <1>6, <1>7

(* What a request knows of its row. *)
LEMMA RowFacts ==
    ASSUME IInv, NEW r \in Requests, NEW q \in Request, q = req[r], Changes(q), Clear(q.id)
    PROVE  /\ Prepares(q) /\ q.op # "create" =>
                 q.id \in DOMAIN communities /\ PathsOf(q.id) = Taken(q.old)
           /\ Finishes(q) /\ q.op # "delete" =>
                 q.id \in DOMAIN communities /\ PathsOf(q.id) = Taken(q.new)
<1>1. KnowsTheRow(q)
  BY DEF IInv
<1> QED BY <1>1 DEF KnowsTheRow, PathsOf, Taken, Exists

(* In quiet times every community is clear. *)
LEMMA QuietFacts ==
    ASSUME IInv, Quiet
    PROVE  \A c : Clear(c)
  BY DEF IInv, Quiet, Clear

(* A request that has read, and perhaps written files, gives up: it        *)
(* deletes what it has written.                                            *)
LEMMA CancelKeeps ==
    ASSUME IInv, TypeOK', NEW r \in Requests, req' = [req EXCEPT ![r] = NoRequest],
           created' = created, communities' = communities, overlapped' = overlapped,
           unsure' = unsure, used' = used, files' \subseteq files, failed \subseteq failed',
           ~Finishes(req[r]) \/ ~Changes(req[r]),
           \A f \in files : f \notin files' => f \in Written(req[r]),
           failed' = {} => \A f \in files' : f \notin Written(req[r]) \/ f = NoFile
    PROVE  IInv'
<1>q. PICK q \in Request : q = req[r]
  BY DEF IInv, DiskAgrees, TypeOK
<1>1. Sound(q)
  BY <1>q DEF IInv
<1>2. /\ \A f \in Written(q) : f \notin Taken(q.old) /\ f # NoFile /\ f \in Taken(q.new)
      /\ \A f \in Taken(q.new) : f \in Written(q) \/ f \in Taken(q.old)
      /\ q.step \in {"read", "avatar"} \/ ~Changes(q) => Written(q) = {}
  BY <1>1, WrittenFacts
<1>3. Holds(r) = Taken(q.old) \cup Taken(q.new)
  BY <1>q DEF Holds
<1>4. ASSUME Changes(q), q.step # "read"
      PROVE  Prepares(q) /\ (q.id # 0 => q.op # "create") /\ (q.op = "create" => Taken(q.old) = {})
  <2>1. q.step \in {"read", "avatar", "cover", "write", "index", "unlink", "subscribe"}
    BY <1>1, <1>4 DEF Sound, StepsOf, Changes
  <2>2. Prepares(q)
    BY <1>q, <1>4, <2>1 DEF Prepares, Finishes
  <2> QED BY <1>1, <2>2, NoRequestFacts DEF Sound
<1>5. ~Changes(q) \/ q.step = "read" => Taken(q.old) = {} /\ Taken(q.new) = {}
  BY <1>1, NoRequestFacts DEF Sound
<1>6. \A f \in files : f \notin files' => f \in Holds(r)
  BY <1>q, <1>2, <1>3
<1>7. ASSUME NEW c \in DOMAIN communities, Clear(c), Mine(c, r), NEW f \in PathsOf(c), f \in files
      PROVE  f \in files'
  <2>1. Changes(q) /\ q.id = c /\ q.id # 0
    BY <1>q, <1>7 DEF Mine
  <2>2. CASE q.step = "read"
    BY <1>q, <1>2, <1>7, <2>2
  <2>3. CASE q.step # "read"
    <3>1. PathsOf(c) = Taken(q.old)
      BY <1>q, <1>4, <1>7, <2>1, <2>3, RowFacts
    <3> QED BY <1>q, <1>2, <1>7, <3>1
  <2> QED BY <2>2, <2>3
<1>8. ASSUME Quiet', NEW f \in files', f \in Holds(r)
      PROVE  \E c \in DOMAIN communities : f \in PathsOf(c)
  <2>1. Quiet /\ failed' = {}
    BY <1>8 DEF Quiet
  <2>2. f \in Taken(q.old)
    BY <1>q, <1>2, <1>3, <1>8, <2>1
  <2>3. Changes(q) /\ q.step # "read"
    BY <1>5, <2>2
  <2>4. Prepares(q) /\ q.op # "create"
    BY <1>4, <2>2, <2>3
  <2>5. q.id \in DOMAIN communities /\ PathsOf(q.id) = Taken(q.old)
    BY <1>q, <2>1, <2>3, <2>4, QuietFacts, RowFacts
  <2> QED BY <2>2, <2>5
<1> QED BY <1>6, <1>7, <1>8, EndsSame

(* The creator has been subscribed. *)
LEMMA CreatedKeeps ==
    ASSUME IInv, TypeOK', NEW r \in Requests, req' = [req EXCEPT ![r] = NoRequest],
           created' = created, communities' = communities, overlapped' = overlapped,
           unsure' = unsure, used' = used, files' = files, failed \subseteq failed',
           req[r].op = "create", req[r].step = "subscribe"
    PROVE  IInv'
<1>q. PICK q \in Request : q = req[r]
  BY DEF IInv, DiskAgrees, TypeOK
<1>1. Sound(q) /\ Changes(q) /\ Finishes(q) /\ q.op # "delete" /\ q.op = "create"
  BY <1>q DEF IInv, Changes, Finishes
<1>2. Holds(r) = Taken(q.new)
  BY <1>q, <1>1, NoRequestFacts DEF Holds, Sound
<1>3. ASSUME Quiet', NEW f \in files', f \in Holds(r)
      PROVE  \E c \in DOMAIN communities : f \in PathsOf(c)
  <2>1. Quiet
    BY <1>3 DEF Quiet
  <2>2. q.id \in DOMAIN communities /\ PathsOf(q.id) = Taken(q.new)
    BY <1>q, <1>1, <2>1, QuietFacts, RowFacts
  <2> QED BY <1>2, <1>3, <2>2
<1> QED BY <1>3, EndsSame

-------------------------------------------------------------------------------
(* The last steps of the requests. *)

(* What a step of a request without a write to the tables leaves typed.    *)
LEMMA TypeKept ==
    ASSUME TypeOK, NEW r \in Requests, NEW x \in Request, req' = [req EXCEPT ![r] = x],
           created' = created, communities' = communities, overlapped' = overlapped,
           unsure' = unsure, received' = received,
           subs' \subseteq Ids \X Users, left' \subseteq Ids \X Users,
           index' \in [Ids -> Names \cup {NoName}],
           used' \in 0..MaxFiles, files' \subseteq 1..used', failed' \subseteq 0..MaxCommunities
    PROVE  TypeOK'
<1>1. req' \in [Requests -> Request]
  BY RequestAt
<1> QED BY <1>1 DEF TypeOK

LEMMA UpdateCommunityUnlinksKeeps ==
    ASSUME IInv, NEW r \in Requests, UpdateCommunityUnlinks(r)
    PROVE  IInv'
<1>q. PICK q \in Request : q = req[r]
  BY DEF IInv, DiskAgrees, TypeOK
<1>g. PICK gone : gone = {q.old[k] : k \in q.sent}
  OBVIOUS
<1>1. /\ q.step = "unlink" /\ q.op = "update" /\ req' = [req EXCEPT ![r] = NoRequest]
      /\ created' = created /\ communities' = communities /\ subs' = subs /\ index' = index
      /\ used' = used /\ overlapped' = overlapped /\ unsure' = unsure /\ left' = left
      /\ received' = received
      /\ Unlink(gone, q.id)
  BY <1>q, <1>g DEF UpdateCommunityUnlinks, Answer, store
<1>2. Sound(q) /\ Changes(q) /\ Finishes(q) /\ \A k \in Kinds : Uploaded(q, k) <=> k \in q.sent
  BY <1>q, <1>1 DEF IInv, Changes, Finishes, Uploaded
<1>3. /\ files' \subseteq files /\ failed \subseteq failed' /\ failed' \subseteq failed \cup {q.id}
      /\ \A f \in files : f \notin files' => f \in gone
      /\ failed' = {} => \A f \in files' : f \notin gone \/ f = NoFile
  BY <1>1, UnlinkFacts
<1>4. \A f : f \in gone <=> \E k \in q.sent : f = q.old[k]
  BY <1>g
<1>5. \A k \in q.sent : k \in Kinds
  BY RequestFields
<1>6. Holds(r) = Taken(q.old) \cup Taken(q.new)
  BY <1>q DEF Holds
<1>7. \A f \in files : f # NoFile
  BY Numbers DEF NoFile
<1>8. TypeOK'
  <2>1. TypeOK /\ NoRequest \in Request /\ q.id \in 0..MaxCommunities
    BY RequestFields, NoRequestFacts DEF IInv, DiskAgrees
  <2>2. used' \in 0..MaxFiles /\ files' \subseteq 1..used'
    BY <1>1, <1>3, <2>1 DEF TypeOK
  <2>3. failed' \subseteq 0..MaxCommunities
    BY <1>3, <2>1 DEF TypeOK
  <2>4. /\ subs' \subseteq Ids \X Users /\ left' \subseteq Ids \X Users
        /\ index' \in [Ids -> Names \cup {NoName}]
    BY <1>1, <2>1 DEF TypeOK
  <2> QED BY <1>1, <2>1, <2>2, <2>3, <2>4, TypeKept
<1>9. \A f \in files : f \notin files' => f \in Holds(r)
  BY <1>3, <1>4, <1>5, <1>6, <1>7, TakenFacts
<1>s. \A k \in Kinds : IF k \in q.sent THEN q.new[k] \notin Taken(q.old) \cup {NoFile}
                                       ELSE q.new[k] = q.old[k]
  BY <1>2, Zenon DEF Sound
<1>d. \A k, j \in Kinds : q.old[k] = q.old[j] => k = j \/ q.old[k] = NoFile
  BY <1>2 DEF Sound, Distinct, Kinds
<1>10. ASSUME NEW f \in gone, f \in Taken(q.new) PROVE FALSE
  <2>1. PICK k \in Kinds : k \in q.sent /\ f = q.old[k]
    BY <1>4, <1>5, <1>10
  <2>2. PICK j \in Kinds : f = q.new[j] /\ f # NoFile
    BY <1>10, TakenFacts
  <2>3. f \in Taken(q.old)
    <3>1. \A i \in Kinds : q.old[i] # NoFile => q.old[i] \in Taken(q.old)
      BY TakenFacts, Zenon
    <3> QED BY <2>1, <2>2, <3>1, Zenon
  <2>4. j \notin q.sent /\ q.old[k] = q.old[j]
    BY <1>s, <2>1, <2>2, <2>3
  <2> QED BY <1>d, <2>1, <2>2, <2>4
<1>11. \A f \in Taken(q.old) : f \in gone \/ f \in Taken(q.new)
  <2> SUFFICES ASSUME NEW f \in Taken(q.old) PROVE f \in gone \/ f \in Taken(q.new)
    OBVIOUS
  <2>1. PICK k \in Kinds : f = q.old[k] /\ f # NoFile
    BY TakenFacts
  <2>2. CASE k \in q.sent
    BY <1>4, <2>1, <2>2
  <2>3. CASE k \notin q.sent
    BY <1>s, <2>1, <2>3, TakenFacts
  <2> QED BY <2>2, <2>3
<1>12. Clear(q.id) => q.id \in DOMAIN communities /\ PathsOf(q.id) = Taken(q.new)
  BY <1>q, <1>1, <1>2, RowFacts
<1>13. ASSUME NEW c \in DOMAIN communities, Clear(c), Mine(c, r), NEW f \in PathsOf(c), f \in files
       PROVE  f \in files'
  BY <1>q, <1>3, <1>10, <1>12, <1>13 DEF Mine
<1>14. ASSUME Quiet', NEW f \in files', f \in Holds(r)
       PROVE  \E c \in DOMAIN communities : f \in PathsOf(c)
  <2>1. Quiet /\ failed' = {}
    BY <1>1, <1>3, <1>14 DEF Quiet
  <2>2. f \notin gone
    BY <1>3, <1>7, <2>1
  <2>3. f \in Taken(q.new)
    BY <1>6, <1>11, <1>14, <2>2
  <2> QED BY <1>12, <2>1, <2>3, QuietFacts
<1> QED BY <1>1, <1>3, <1>8, <1>9, <1>13, <1>14, EndsSame

LEMMA DeleteCommunityUnlinksKeeps ==
    ASSUME IInv, NEW r \in Requests, DeleteCommunityUnlinks(r)
    PROVE  IInv'
<1>q. PICK q \in Request : q = req[r]
  BY DEF IInv, DiskAgrees, TypeOK
<1>g. PICK gone : gone = {q.old.avatar, q.old.cover}
  OBVIOUS
<1>1. /\ q.step = "unlink" /\ q.op = "delete" /\ req' = [req EXCEPT ![r] = NoRequest]
      /\ created' = created /\ communities' = communities /\ subs' = subs /\ index' = index
      /\ used' = used /\ overlapped' = overlapped /\ unsure' = unsure /\ left' = left
      /\ received' = received
      /\ Unlink(gone, q.id)
  BY <1>q, <1>g DEF DeleteCommunityUnlinks, Answer, store
<1>2. Sound(q) /\ Changes(q) /\ Finishes(q) /\ q.id \notin DOMAIN communities /\ q.sent = {}
  BY <1>q, <1>1 DEF IInv, Changes, Finishes, KnowsItsFate, Exists, Sound
<1>3. /\ files' \subseteq files /\ failed \subseteq failed' /\ failed' \subseteq failed \cup {q.id}
      /\ \A f \in files : f \notin files' => f \in gone
      /\ failed' = {} => \A f \in files' : f \notin gone \/ f = NoFile
  BY <1>1, UnlinkFacts
<1>4. Taken(q.old) = gone \ {NoFile}
  BY <1>g DEF Taken
<1>s. \A k \in Kinds : q.new[k] = q.old[k]
  BY <1>2 DEF Sound, Uploaded
<1>5. Taken(q.new) = Taken(q.old)
  BY <1>s DEF Taken, Kinds
<1>6. Holds(r) = Taken(q.old)
  BY <1>q, <1>5 DEF Holds
<1>7. \A f \in files : f # NoFile
  BY Numbers DEF NoFile
<1>8. TypeOK'
  <2>1. TypeOK /\ NoRequest \in Request /\ q.id \in 0..MaxCommunities
    BY RequestFields, NoRequestFacts DEF IInv, DiskAgrees
  <2>2. used' \in 0..MaxFiles /\ files' \subseteq 1..used'
    BY <1>1, <1>3, <2>1 DEF TypeOK
  <2>3. failed' \subseteq 0..MaxCommunities
    BY <1>3, <2>1 DEF TypeOK
  <2>4. /\ subs' \subseteq Ids \X Users /\ left' \subseteq Ids \X Users
        /\ index' \in [Ids -> Names \cup {NoName}]
    BY <1>1, <2>1 DEF TypeOK
  <2> QED BY <1>1, <2>1, <2>2, <2>3, <2>4, TypeKept
<1>9. \A f \in files : f \notin files' => f \in Holds(r)
  BY <1>3, <1>4, <1>6, <1>7
<1>10. \A c \in DOMAIN communities : ~Mine(c, r)
  BY <1>q, <1>2 DEF Mine
<1>11. Quiet' => \A f \in files' : f \in Holds(r) => \E c \in DOMAIN communities : f \in PathsOf(c)
  <2> SUFFICES ASSUME Quiet' PROVE \A f \in files' : f \notin Holds(r)
    OBVIOUS
  <2> QED BY <1>3, <1>4, <1>6, <1>7 DEF Quiet
<1> QED BY <1>1, <1>3, <1>8, <1>9, <1>10, <1>11, EndsSame

-------------------------------------------------------------------------------
(* The first steps. *)

(* A request that has written no file ends. *)
LEMMA RefusedKeeps ==
    ASSUME IInv, NEW r \in Requests, req' = [req EXCEPT ![r] = NoRequest],
           created' = created, communities' = communities, files' = files, used' = used,
           overlapped' = overlapped, unsure' = unsure, received' = received,
           subs' \subseteq Ids \X Users, left' \subseteq Ids \X Users,
           index' \in [Ids -> Names \cup {NoName}],
           failed \subseteq failed', failed' \subseteq 0..MaxCommunities,
           req[r].step \in {"read", "avatar"} \/ ~Changes(req[r])
    PROVE  IInv'
<1>q. PICK q \in Request : q = req[r]
  BY DEF IInv, DiskAgrees, TypeOK
<1>1. Sound(q) /\ TypeOK /\ NoRequest \in Request
  BY <1>q, NoRequestFacts DEF IInv, DiskAgrees
<1>2. Written(req[r]) = {}
  BY <1>q, <1>1, WrittenFacts
<1>3. TypeOK'
  <2>1. used' \in 0..MaxFiles /\ files' \subseteq 1..used'
    BY <1>1 DEF TypeOK
  <2> QED BY <1>1, <2>1, TypeKept
<1>4. ~Finishes(req[r]) \/ ~Changes(req[r])
  BY DEF Finishes
<1> QED BY <1>2, <1>3, <1>4, CancelKeeps

(* A request has read its community. *)
HasRead(r, paths, step) ==
    req' = [req EXCEPT ![r].old = paths, ![r].new = paths, ![r].step = step]

LEMMA HasReadKeeps ==
    ASSUME IInv, NEW r \in Requests, NEW q \in Request, q = req[r], NEW step,
           q.step = "read", q.op \in {"update", "delete"}, q.id \in DOMAIN communities,
           NEW paths,
           paths = [avatar |-> communities[q.id].avatar, cover |-> communities[q.id].cover],
           HasRead(r, paths, step),
           step = IF q.op = "update" THEN FirstUpload(q) ELSE "write",
           UNCHANGED <<store, index, files, history>>
    PROVE  IInv'
<1>u. /\ created' = created /\ communities' = communities /\ files' = files /\ used' = used
      /\ overlapped' = overlapped /\ unsure' = unsure /\ received' = received /\ failed' = failed
      /\ subs' = subs /\ left' = left /\ index' = index
  BY DEF store, history
<1>1. TypeOK /\ Sound(q) /\ q.sent \subseteq Kinds /\ Changes(q)
  BY RequestFields DEF IInv, DiskAgrees, Changes
<1>2. /\ step \in Steps /\ step \in {"avatar", "cover", "write"}
      /\ step \in Kinds => step \in q.sent
      /\ q.op = "delete" => step = "write"
      /\ "avatar" \in q.sent => step # "cover"
      /\ step = "write" /\ q.op = "update" => "avatar" \notin q.sent /\ "cover" \notin q.sent
  BY DEF FirstUpload, Steps, Prepares, Kinds
<1>3. paths \in Paths /\ Distinct(paths) /\ Taken(paths) = PathsOf(q.id)
      /\ paths.avatar = communities[q.id].avatar /\ paths.cover = communities[q.id].cover
  <2>1. communities[q.id] \in Row /\ Distinct(communities[q.id])
    BY <1>1 DEF TypeOK, IInv, FilesHaveOneOwner
  <2> QED BY <2>1 DEF Paths, Row, Distinct, Taken, PathsOf
<1>x. PICK x \in Request : x = [q EXCEPT !.old = paths, !.new = paths, !.step = step]
  BY <1>2, <1>3 DEF Request
<1>4. /\ x.op = q.op /\ x.id = q.id /\ x.sent = q.sent /\ x.user = q.user /\ x.name = q.name
      /\ x.old = paths /\ x.new = paths /\ x.step = step
  BY <1>x DEF Request
<1>5. req' = [req EXCEPT ![r] = x]
  BY <1>x DEF HasRead
<1>6. \A k \in Kinds : ~Uploaded(x, k)
  <2>1. q.op = "delete" => q.sent = {}
    BY <1>1 DEF Sound
  <2> QED BY <1>2, <1>4, <2>1 DEF Uploaded, Finishes, Kinds
<1>7. Prepares(x) /\ ~Finishes(x) /\ Changes(x) /\ x.step # "idle" /\ x.step # "read"
  BY <1>1, <1>2, <1>4 DEF Prepares, Finishes, Changes, FirstUpload
<1>8. q.id \in 1..created /\ q.user \in Users /\ (q.op = "update" => q.name \in Names)
      /\ (q.op = "delete" => q.sent = {}) /\ q.old = NoPaths /\ q.new = NoPaths
  BY <1>1 DEF Sound, Prepares
<1>9. Sound(x)'
  <2>1. x.step \in StepsOf(x.op)
    BY <1>2, <1>4 DEF StepsOf, FirstUpload
  <2>2. \A k \in Kinds : IF Uploaded(x, k) THEN x.new[k] \notin Taken(x.old) \cup {NoFile}
                                           ELSE x.new[k] = x.old[k]
    BY <1>4, <1>6
  <2>3. x.op # "create" /\ (x.op \notin {"create", "update"} => x.sent = {}) /\ (x.step \in Kinds => x.step \in x.sent)
        /\ x.user \in Users /\ x.id \in 1..created' /\ (x.op \in {"create", "update"} => x.name \in Names)
        /\ Distinct(x.old) /\ Distinct(x.new)
    BY <1>u, <1>2, <1>3, <1>4, <1>8
  <2> QED BY <1>7, <2>1, <2>2, <2>3 DEF Sound
<1>10. KnowsTheRow(x)' /\ KnowsItsFate(x)'
  BY <1>u, <1>3, <1>4, <1>6, <1>7 DEF KnowsTheRow, KnowsItsFate, Exists
<1>11. TypeOK'
  <2>1. /\ used' \in 0..MaxFiles /\ files' \subseteq 1..used' /\ failed' \subseteq 0..MaxCommunities
        /\ subs' \subseteq Ids \X Users /\ left' \subseteq Ids \X Users
        /\ index' \in [Ids -> Names \cup {NoName}]
    BY <1>u, <1>1 DEF TypeOK
  <2> QED BY <1>u, <1>1, <1>5, <2>1, TypeKept
<1>12. Holds(r) = {} /\ Mine(q.id, r)
  <2>1. q.id # 0
    BY <1>8
  <2> QED BY <1>1, <1>8, <2>1, NoRequestFacts DEF Holds, Mine
<1>13. Taken(x.old) \cup Taken(x.new) = PathsOf(q.id)
  BY <1>3, <1>4
<1>14. Holds(r) \subseteq Taken(x.old) \cup Taken(x.new)
       /\ \A f \in Taken(x.old) \cup Taken(x.new) :
               f \in Holds(r) \/ \E c \in DOMAIN communities : Mine(c, r) /\ f \in PathsOf(c)
  BY <1>12, <1>13
<1> QED BY <1>u, <1>4, <1>5, <1>9, <1>10, <1>11, <1>14, GoesOn

(* What reading may lead to. *)
LEMMA ReadOwnFacts ==
    ASSUME IInv, NEW r \in Requests, NEW q \in Request, q = req[r], NEW step, ReadOwnCommunity(r, step)
    PROVE  \/ req' = [req EXCEPT ![r] = NoRequest]
           \/ /\ q.id \in DOMAIN communities
              /\ HasRead(r, [avatar |-> communities[q.id].avatar, cover |-> communities[q.id].cover], step)
<1>1. PICK err \in GetCommunityByID(q.id) :
         \/ req' = [req EXCEPT ![r] = NoRequest]
         \/ /\ err = Ok
            /\ HasRead(r, [avatar |-> communities[q.id].avatar, cover |-> communities[q.id].cover], step)
  BY Zenon DEF ReadOwnCommunity, Refuse, Answer, HasRead
<1>2. err = Ok => q.id \in DOMAIN communities
  <2>1. err = "ErrDB" \/ err = (IF Exists(q.id) THEN Ok ELSE "ErrNotFound")
    BY DEF GetCommunityByID
  <2>2. Ok # "ErrDB" /\ Ok # "ErrNotFound"
    BY Zenon DEF Ok
  <2> QED BY <2>1, <2>2 DEF Exists
<1> QED BY <1>1, <1>2, Zenon

LEMMA UpdateCommunityReadsKeeps ==
    ASSUME IInv, NEW r \in Requests, UpdateCommunityReads(r)
    PROVE  IInv'
<1>q. PICK q \in Request : q = req[r]
  BY DEF IInv, DiskAgrees, TypeOK
<1>p. PICK paths : paths = [avatar |-> communities[q.id].avatar, cover |-> communities[q.id].cover]
  OBVIOUS
<1>s. PICK step : step = FirstUpload(q)
  OBVIOUS
<1>1. /\ q.step = "read" /\ q.op = "update" /\ ReadOwnCommunity(r, step)
      /\ UNCHANGED <<store, index, files, history>>
  BY <1>q, <1>s, Zenon DEF UpdateCommunityReads
<1>2. CASE req' = [req EXCEPT ![r] = NoRequest]
  <2>1. TypeOK /\ req[r].step = "read"
    BY <1>q, <1>1 DEF IInv, DiskAgrees
  <2>2. /\ created' = created /\ communities' = communities /\ files' = files /\ used' = used
        /\ overlapped' = overlapped /\ unsure' = unsure /\ received' = received /\ failed' = failed
        /\ subs' = subs /\ left' = left /\ index' = index
    BY <1>1 DEF store, history
  <2>3. /\ subs' \subseteq Ids \X Users /\ left' \subseteq Ids \X Users
        /\ index' \in [Ids -> Names \cup {NoName}]
        /\ failed \subseteq failed' /\ failed' \subseteq 0..MaxCommunities
    BY <2>1, <2>2 DEF TypeOK
  <2> QED BY <1>2, <2>1, <2>2, <2>3, RefusedKeeps
<1>3. CASE /\ q.id \in DOMAIN communities
           /\ HasRead(r, paths, step)
  <2>1. step = IF q.op = "update" THEN FirstUpload(q) ELSE "write"
    BY <1>1, <1>s
  <2>2. q.op \in {"update", "delete"}
    BY <1>1
  <2> QED BY <1>q, <1>p, <1>1, <1>3, <2>1, <2>2, HasReadKeeps
<1>4. \/ req' = [req EXCEPT ![r] = NoRequest]
      \/ /\ q.id \in DOMAIN communities
         /\ HasRead(r, [avatar |-> communities[q.id].avatar, cover |-> communities[q.id].cover], step)
  BY <1>q, <1>1, ReadOwnFacts, Zenon
<1>5. \/ req' = [req EXCEPT ![r] = NoRequest]
      \/ /\ q.id \in DOMAIN communities
         /\ HasRead(r, paths, step)
  BY <1>p, <1>4
<1> QED BY <1>2, <1>3, <1>5, Zenon

LEMMA DeleteCommunityReadsKeeps ==
    ASSUME IInv, NEW r \in Requests, DeleteCommunityReads(r)
    PROVE  IInv'
<1>q. PICK q \in Request : q = req[r]
  BY DEF IInv, DiskAgrees, TypeOK
<1>p. PICK paths : paths = [avatar |-> communities[q.id].avatar, cover |-> communities[q.id].cover]
  OBVIOUS
<1>s. PICK step : step = "write"
  OBVIOUS
<1>1. /\ q.step = "read" /\ q.op = "delete" /\ ReadOwnCommunity(r, step)
      /\ UNCHANGED <<store, index, files, history>>
  BY <1>q, <1>s, Zenon DEF DeleteCommunityReads
<1>2. CASE req' = [req EXCEPT ![r] = NoRequest]
  <2>1. TypeOK /\ req[r].step = "read"
    BY <1>q, <1>1 DEF IInv, DiskAgrees
  <2>2. /\ created' = created /\ communities' = communities /\ files' = files /\ used' = used
        /\ overlapped' = overlapped /\ unsure' = unsure /\ received' = received /\ failed' = failed
        /\ subs' = subs /\ left' = left /\ index' = index
    BY <1>1 DEF store, history
  <2>3. /\ subs' \subseteq Ids \X Users /\ left' \subseteq Ids \X Users
        /\ index' \in [Ids -> Names \cup {NoName}]
        /\ failed \subseteq failed' /\ failed' \subseteq 0..MaxCommunities
    BY <2>1, <2>2 DEF TypeOK
  <2> QED BY <1>2, <2>1, <2>2, <2>3, RefusedKeeps
<1>3. CASE /\ q.id \in DOMAIN communities
           /\ HasRead(r, paths, step)
  <2>1. step = IF q.op = "update" THEN FirstUpload(q) ELSE "write"
    BY <1>1, <1>s
  <2>2. q.op \in {"update", "delete"}
    BY <1>1
  <2> QED BY <1>q, <1>p, <1>1, <1>3, <2>1, <2>2, HasReadKeeps
<1>4. \/ req' = [req EXCEPT ![r] = NoRequest]
      \/ /\ q.id \in DOMAIN communities
         /\ HasRead(r, [avatar |-> communities[q.id].avatar, cover |-> communities[q.id].cover], step)
  BY <1>q, <1>1, ReadOwnFacts, Zenon
<1>5. \/ req' = [req EXCEPT ![r] = NoRequest]
      \/ /\ q.id \in DOMAIN communities
         /\ HasRead(r, paths, step)
  BY <1>p, <1>4
<1> QED BY <1>2, <1>3, <1>5, Zenon

(* A request only gets to its next step. *)
LEMMA GotoKeeps ==
    ASSUME IInv, NEW r \in Requests, NEW q \in Request, q = req[r], NEW step,
           Goto(r, step),
           created' = created, communities' = communities, files' = files, used' = used,
           overlapped' = overlapped, unsure' = unsure, received' = received,
           subs' = subs, left' = left, index' \in [Ids -> Names \cup {NoName}],
           failed \subseteq failed', failed' \subseteq 0..MaxCommunities,
           \/ q.op = "subscribe" /\ step \in {"user", "subscribe"} /\ q.step \in {"read", "user"}
           \/ q.step = "index" /\ step = IF q.op = "create" THEN "subscribe" ELSE "unlink"
    PROVE  IInv'
<1>1. TypeOK /\ Sound(q) /\ KnowsTheRow(q) /\ KnowsItsFate(q)
  BY DEF IInv, DiskAgrees
<1>2. step \in Steps /\ step \in StepsOf(q.op) /\ step \in {"user", "subscribe", "unlink"}
  BY <1>1 DEF Steps, StepsOf, Sound
<1>x. PICK x \in Request : x = [q EXCEPT !.step = step]
  BY <1>2 DEF Request
<1>3. /\ x.op = q.op /\ x.id = q.id /\ x.sent = q.sent /\ x.user = q.user /\ x.name = q.name
      /\ x.old = q.old /\ x.new = q.new /\ x.step = step
  BY <1>x DEF Request
<1>4. req' = [req EXCEPT ![r] = x]
  BY <1>x DEF Goto
<1>5. (Changes(x) <=> Changes(q)) /\ ~Prepares(x)
      /\ (Changes(q) => Finishes(x) /\ Finishes(q) /\ ~Prepares(q))
  BY <1>2, <1>3 DEF Changes, Prepares, Finishes
<1>6. ~Changes(q) => \A k \in Kinds : q.new[k] = q.old[k] /\ ~Uploaded(q, k) /\ Taken(q.old) = {}
  BY <1>1, NoRequestFacts DEF Sound, Uploaded, Finishes, StepsOf, Changes
<1>7. Changes(q) => \A k \in Kinds : Uploaded(x, k) <=> Uploaded(q, k)
  BY <1>3, <1>5 DEF Uploaded
<1>8. Sound(x)'
  <2>1. x.step \in StepsOf(x.op) /\ x.step # "idle" /\ x.step # "read" /\ x.step \notin Kinds
    BY <1>2, <1>3 DEF Kinds
  <2>2. \A k \in Kinds : IF Uploaded(x, k) THEN x.new[k] \notin Taken(x.old) \cup {NoFile}
                                           ELSE x.new[k] = x.old[k]
    <3>1. CASE Changes(q)
      BY <1>1, <1>3, <1>7, <3>1, Zenon DEF Sound
    <3>2. CASE ~Changes(q)
      <4>1. q.op = "subscribe" /\ q.sent = {}
        BY <3>2, <1>1 DEF Changes, Sound, StepsOf
      <4> QED BY <1>3, <1>6, <3>2, <4>1 DEF Uploaded
    <3> QED BY <3>1, <3>2
  <2>3. /\ q.user \in Users /\ q.id \in 1..created
        /\ (q.op \in {"create", "update"} => q.name \in Names)
        /\ (~Changes(q) => q.old = NoPaths /\ q.new = NoPaths)
        /\ (q.op = "create" => q.old = NoPaths)
        /\ (q.op \notin {"create", "update"} => q.sent = {})
        /\ Distinct(q.old) /\ Distinct(q.new)
    BY <1>1, <1>5 DEF Sound, Prepares, Changes
  <2> QED BY <1>3, <1>5, <2>1, <2>2, <2>3 DEF Sound
<1>9. KnowsTheRow(x)'
  BY <1>1, <1>3, <1>5 DEF KnowsTheRow, Exists, Clear
<1>10. KnowsItsFate(x)'
  BY <1>1, <1>3, <1>5 DEF KnowsItsFate, Exists, Changes
<1>11. TypeOK'
  <2>1. /\ used' \in 0..MaxFiles /\ files' \subseteq 1..used'
        /\ subs' \subseteq Ids \X Users /\ left' \subseteq Ids \X Users
    BY <1>1 DEF TypeOK
  <2> QED BY <1>1, <1>4, <2>1, TypeKept
<1>12. Holds(r) = Taken(x.old) \cup Taken(x.new)
  BY <1>3 DEF Holds
<1> QED BY <1>3, <1>4, <1>8, <1>9, <1>10, <1>11, <1>12, GoesOn

(* A subscribing request finds what it asked for, or is refused. *)
LEMMA AsksKeeps ==
    ASSUME IInv, NEW r \in Requests, NEW q \in Request, q = req[r],
           NEW step \in {"user", "subscribe"}, q.step \in {"read", "user"}, q.op = "subscribe",
           UNCHANGED <<store, index, files, history>>,
           Goto(r, step) \/ req' = [req EXCEPT ![r] = NoRequest]
    PROVE  IInv'
<1>2. TypeOK /\ ~Changes(q)
  BY DEF IInv, DiskAgrees, Changes
<1>3. /\ created' = created /\ communities' = communities /\ files' = files /\ used' = used
      /\ overlapped' = overlapped /\ unsure' = unsure /\ received' = received /\ failed' = failed
      /\ subs' = subs /\ left' = left /\ index' = index
  BY DEF store, history
<1>4. /\ subs' \subseteq Ids \X Users /\ left' \subseteq Ids \X Users
      /\ index' \in [Ids -> Names \cup {NoName}]
      /\ failed \subseteq failed' /\ failed' \subseteq 0..MaxCommunities
  BY <1>2, <1>3 DEF TypeOK
<1>5. CASE Goto(r, step)
  BY <1>3, <1>4, <1>5, GotoKeeps
<1>6. CASE req' = [req EXCEPT ![r] = NoRequest]
  BY <1>2, <1>3, <1>4, <1>6, RefusedKeeps
<1> QED BY <1>5, <1>6

LEMMA SubscribeReadsKeeps ==
    ASSUME IInv, NEW r \in Requests, SubscribeReads(r)
    PROVE  IInv'
<1>q. PICK q \in Request : q = req[r]
  BY DEF IInv, DiskAgrees, TypeOK
<1>s. PICK step : step = "user"
  OBVIOUS
<1>1. /\ q.step = "read" /\ q.op = "subscribe" /\ UNCHANGED <<store, index, files, history>>
      /\ Goto(r, step) \/ req' = [req EXCEPT ![r] = NoRequest]
  BY <1>q, <1>s, Zenon DEF SubscribeReads, Refuse, Answer
<1> QED BY <1>q, <1>s, <1>1, AsksKeeps

LEMMA SubscribeAsksForUserKeeps ==
    ASSUME IInv, NEW r \in Requests, SubscribeAsksForUser(r)
    PROVE  IInv'
<1>q. PICK q \in Request : q = req[r]
  BY DEF IInv, DiskAgrees, TypeOK
<1>s. PICK step : step = "subscribe"
  OBVIOUS
<1>1. /\ q.step = "user" /\ UNCHANGED <<store, index, files, history>>
      /\ Goto(r, step) \/ req' = [req EXCEPT ![r] = NoRequest]
  BY <1>q, <1>s, Zenon DEF SubscribeAsksForUser, Refuse, Answer
<1>2. q.op = "subscribe"
  BY <1>q, <1>1 DEF IInv, Sound, StepsOf
<1> QED BY <1>q, <1>s, <1>1, <1>2, AsksKeeps

(* The index holds names, whatever a request does to it. *)
LEMMA IndexTyped ==
    ASSUME TypeOK, NEW q \in Request, Sound(q), q.step = "index"
    PROVE  Indexed(q) \in Names \cup {NoName}
<1>1. q.op \in {"create", "update", "delete"}
  BY DEF Sound, StepsOf
<1>2. q.op = "delete" \/ q.name \in Names
  BY <1>1 DEF Sound
<1> QED BY <1>1, <1>2 DEF Indexed

LEMMA IndexCommunityKeeps ==
    ASSUME IInv, NEW r \in Requests, IndexCommunity(r)
    PROVE  IInv'
<1>q. PICK q \in Request : q = req[r]
  BY DEF IInv, DiskAgrees, TypeOK
<1>s. PICK step : step = IF q.op = "create" THEN "subscribe" ELSE "unlink"
  OBVIOUS
<1>1. /\ q.step = "index" /\ Goto(r, step)
      /\ \/ index' = [index EXCEPT ![q.id] = Indexed(q)] /\ failed' = failed
         \/ failed' = failed \cup {q.id} /\ index' = index
      /\ UNCHANGED <<store, files, used, overlapped, unsure, left, received>>
  BY <1>q, <1>s, Zenon DEF IndexCommunity
<1>2. TypeOK /\ Sound(q) /\ q.id \in 0..MaxCommunities
  BY <1>q, RequestFields DEF IInv, DiskAgrees
<1>3. /\ created' = created /\ communities' = communities /\ files' = files /\ used' = used
      /\ overlapped' = overlapped /\ unsure' = unsure /\ received' = received
      /\ subs' = subs /\ left' = left
  BY <1>1 DEF store
<1>4. Indexed(q) \in Names \cup {NoName}
  BY <1>1, <1>2, IndexTyped
<1>5. index' \in [Ids -> Names \cup {NoName}]
  BY <1>1, <1>2, <1>4 DEF TypeOK
<1>6. failed \subseteq failed' /\ failed' \subseteq 0..MaxCommunities
  BY <1>1, <1>2 DEF TypeOK
<1> QED BY <1>q, <1>s, <1>1, <1>3, <1>5, <1>6, GotoKeeps

(* Whoever subscribes is a user. *)
LEMMA InsertTyped ==
    ASSUME TypeOK, NEW c \in 0..MaxCommunities, NEW u \in Users, NEW err,
           InsertSubscription(<<c, u>>, err)
    PROVE  subs' \subseteq Ids \X Users
<1>1. \/ c \in DOMAIN communities /\ subs' = subs \cup {<<c, u>>}
      \/ subs' = subs
  BY DEF InsertSubscription, Exists
<1>2. c \in DOMAIN communities => c \in Ids
  BY NullAssumption DEF TypeOK, Ids
<1>3. subs \subseteq Ids \X Users
  BY DEF TypeOK
<1>4. CASE c \in DOMAIN communities /\ subs' = subs \cup {<<c, u>>}
  <2>1. <<c, u>> \in Ids \X Users
    BY <1>2, <1>4
  <2> QED BY <1>3, <1>4, <2>1
<1>5. CASE subs' = subs
  BY <1>3, <1>5
<1> QED BY <1>1, <1>4, <1>5

LEMMA SubscribeCreatorKeeps ==
    ASSUME IInv, NEW r \in Requests, SubscribeCreator(r)
    PROVE  IInv'
<1>q. PICK q \in Request : q = req[r]
  BY DEF IInv, DiskAgrees, TypeOK
<1>1. /\ q.step = "subscribe" /\ q.op = "create" /\ req' = [req EXCEPT ![r] = NoRequest]
      /\ \E err : InsertSubscription(<<q.id, q.user>>, err)
      /\ created' = created /\ communities' = communities /\ files' = files /\ used' = used
      /\ overlapped' = overlapped /\ unsure' = unsure /\ received' = received
      /\ left' = left /\ index' = index /\ (failed' = failed \/ failed' = failed \cup {q.id})
  BY <1>q, Zenon DEF SubscribeCreator, Answer
<1>2. TypeOK /\ Sound(q) /\ q.id \in 0..MaxCommunities /\ q.user \in Users
  BY <1>q, <1>1, RequestFields DEF IInv, DiskAgrees, Sound
<1>3. /\ subs' \subseteq Ids \X Users
      /\ failed \subseteq failed' /\ failed' \subseteq 0..MaxCommunities
  <2>1. subs' \subseteq Ids \X Users
    BY <1>1, <1>2, InsertTyped
  <2>2. failed \subseteq 0..MaxCommunities
    BY <1>2 DEF TypeOK
  <2> QED BY <1>1, <1>2, <2>1, <2>2
<1>4. TypeOK'
  <2>1. /\ used' \in 0..MaxFiles /\ files' \subseteq 1..used'
        /\ left' \subseteq Ids \X Users /\ index' \in [Ids -> Names \cup {NoName}]
    BY <1>1, <1>2 DEF TypeOK
  <2>2. NoRequest \in Request
    BY NoRequestFacts
  <2> QED BY <1>1, <1>2, <1>3, <2>1, <2>2, TypeKept
<1> QED BY <1>q, <1>1, <1>3, <1>4, CreatedKeeps

LEMMA SubscribeKeeps ==
    ASSUME IInv, NEW r \in Requests, Subscribe(r)
    PROVE  IInv'
<1>q. PICK q \in Request : q = req[r]
  BY DEF IInv, DiskAgrees, TypeOK
<1>1. /\ q.step = "subscribe" /\ q.op = "subscribe" /\ req' = [req EXCEPT ![r] = NoRequest]
      /\ \E err : InsertSubscription(<<q.id, q.user>>, err)
      /\ created' = created /\ communities' = communities /\ files' = files /\ used' = used
      /\ overlapped' = overlapped /\ unsure' = unsure /\ received' = received
      /\ left' = left /\ index' = index /\ failed' = failed
  BY <1>q, Zenon DEF Subscribe, Answer, Refuse, history
<1>2. TypeOK /\ Sound(q) /\ q.id \in 0..MaxCommunities /\ q.user \in Users /\ ~Changes(q)
  BY <1>q, <1>1, RequestFields DEF IInv, DiskAgrees, Sound, Changes
<1>3. subs' \subseteq Ids \X Users
  BY <1>1, <1>2, InsertTyped
<1>4. /\ left' \subseteq Ids \X Users /\ index' \in [Ids -> Names \cup {NoName}]
      /\ failed \subseteq failed' /\ failed' \subseteq 0..MaxCommunities
  BY <1>1, <1>2 DEF TypeOK
<1> QED BY <1>q, <1>1, <1>2, <1>3, <1>4, RefusedKeeps

LEMMA UnsubscribeKeeps ==
    ASSUME IInv, NEW r \in Requests, Unsubscribe(r)
    PROVE  IInv'
<1>q. PICK q \in Request : q = req[r]
  BY DEF IInv, DiskAgrees, TypeOK
<1>1. /\ q.step = "unsubscribe" /\ req' = [req EXCEPT ![r] = NoRequest]
      /\ \E err : DeleteSubscription(<<q.id, q.user>>, err)
      /\ created' = created /\ communities' = communities /\ files' = files /\ used' = used
      /\ overlapped' = overlapped /\ unsure' = unsure /\ received' = received
      /\ failed' = failed /\ index' = index
  BY <1>q, Zenon DEF Unsubscribe, Answer, Refuse
<1>2. TypeOK /\ Sound(q) /\ ~Changes(q)
  BY <1>q, <1>1 DEF IInv, DiskAgrees, Sound, Changes, StepsOf
<1>3. /\ subs' \subseteq subs /\ (left' = left \/ (<<q.id, q.user>> \in subs /\ left' = left \cup {<<q.id, q.user>>}))
  BY <1>1 DEF DeleteSubscription
<1>4. /\ subs' \subseteq Ids \X Users /\ left' \subseteq Ids \X Users
      /\ index' \in [Ids -> Names \cup {NoName}]
      /\ failed \subseteq failed' /\ failed' \subseteq 0..MaxCommunities
  BY <1>1, <1>2, <1>3 DEF TypeOK
<1> QED BY <1>q, <1>1, <1>2, <1>4, RefusedKeeps

-------------------------------------------------------------------------------
(* The uploads. *)

(* A file is written under the next name. *)
NewFile == used + 1 \in Files /\ used' = used + 1 /\ files' = files \cup {used + 1}

(* The request q becomes x when its file of the kind k is written. *)
Gets(q, x, k) ==
    /\ x.op = q.op /\ x.id = q.id /\ x.sent = q.sent /\ x.user = q.user /\ x.name = q.name
    /\ x.old = q.old
    /\ x.step \in {"cover", "write"} /\ (x.step = "cover" => "cover" \in q.sent)
    /\ x.new[k] = used + 1 /\ \A j \in Kinds \ {k} : x.new[j] = q.new[j]
    /\ \A j \in Kinds : Uploaded(x, j) <=> Uploaded(q, j) \/ j = k

(* A new file of the kind k is written. *)
LEMMA UploadKeeps ==
    ASSUME IInv, NEW r \in Requests, NEW q \in Request, q = req[r], NEW k \in Kinds, q.step = k,
           NEW x \in Request, req' = [req EXCEPT ![r] = x], NewFile, Gets(q, x, k),
           created' = created, communities' = communities, overlapped' = overlapped,
           unsure' = unsure, received' = received, subs' = subs, left' = left, index' = index,
           failed' = failed
    PROVE  IInv'
<1>n. used + 1 \in Files /\ used' = used + 1 /\ files' = files \cup {used + 1}
  BY DEF NewFile
<1>g. /\ x.op = q.op /\ x.id = q.id /\ x.sent = q.sent /\ x.user = q.user /\ x.name = q.name
      /\ x.old = q.old
      /\ x.step \in {"cover", "write"} /\ (x.step = "cover" => "cover" \in q.sent)
      /\ x.new[k] = used + 1 /\ \A j \in Kinds \ {k} : x.new[j] = q.new[j]
      /\ \A j \in Kinds : Uploaded(x, j) <=> Uploaded(q, j) \/ j = k
  BY Zenon DEF Gets
<1> USE <1>n, <1>g
<1>1. TypeOK /\ Sound(q) /\ KnowsTheRow(q) /\ q.op \in {"create", "update"} /\ Changes(q)
  BY DEF IInv, DiskAgrees, Sound, StepsOf, Kinds, Changes
<1>2. /\ used \in Nat /\ used <= used' /\ \A f \in 1..used : f \in 1..used' /\ f # used + 1
      /\ used + 1 \in (used + 1)..used' /\ used + 1 \in 1..used' /\ used + 1 # NoFile
  BY Numbers DEF NoFile
<1>3. ~Uploaded(q, k) /\ q.new[k] = q.old[k] /\ Prepares(q) /\ Prepares(x) /\ ~Finishes(x)
      /\ x.step # "idle" /\ x.step # "read" /\ q.step # "idle" /\ q.step # "read"
  <2>1. ~Uploaded(q, k)
    BY DEF Uploaded, Finishes, Kinds
  <2>2. q.new[k] = q.old[k]
    BY <1>1, <2>1, Zenon DEF Sound
  <2> QED BY <2>1, <2>2 DEF Prepares, Finishes, Kinds
<1>4. Holds(r) = Taken(q.old) \cup Taken(q.new) /\ Holds(r) \subseteq 1..used
  BY DEF Holds, IInv, FilesHaveOneOwner
<1>5. Holds(r)' = Taken(q.old) \cup Taken(x.new) /\ req'[r] = x
  BY <1>1, RequestAt
<1>6. \A f \in Taken(x.new) : f \in Taken(q.new) \/ f = used + 1
  <2> SUFFICES ASSUME NEW f \in Taken(x.new) PROVE f \in Taken(q.new) \/ f = used + 1
    OBVIOUS
  <2>1. PICK j \in Kinds : f = x.new[j] /\ f # NoFile
    BY TakenFacts
  <2>2. CASE j = k
    BY <2>1, <2>2
  <2>3. CASE j # k
    BY <2>1, <2>3, TakenFacts
  <2> QED BY <2>2, <2>3
<1>7. \A f \in Taken(q.new) : f \in Taken(q.old) \/ f \in Taken(x.new)
  <2> SUFFICES ASSUME NEW f \in Taken(q.new) PROVE f \in Taken(q.old) \/ f \in Taken(x.new)
    OBVIOUS
  <2>1. PICK j \in Kinds : f = q.new[j] /\ f # NoFile
    BY TakenFacts
  <2>2. CASE j = k
    BY <1>3, <2>1, <2>2, TakenFacts
  <2>3. CASE j # k
    <3>1. x.new[j] = f
      BY <2>1, <2>3
    <3> QED BY <2>1, <3>1, TakenFacts
  <2> QED BY <2>2, <2>3
<1>8. used + 1 \in Taken(x.new)
  BY <1>2, TakenFacts
<1>9. TypeOK'
  <2>1. /\ subs' \subseteq Ids \X Users /\ left' \subseteq Ids \X Users
        /\ index' \in [Ids -> Names \cup {NoName}]
        /\ failed' \subseteq 0..MaxCommunities
    BY <1>1 DEF TypeOK
  <2>2. used' \in 0..MaxFiles
    BY NullAssumption DEF Files
  <2>3. files' \subseteq 1..used'
    BY <1>1, <1>2 DEF TypeOK
  <2> QED BY <1>1, <2>1, <2>2, <2>3, TypeKept
<1>10. Alone(r)
  <2>1. failed \subseteq failed' /\ \A f \in files : f \notin files' => f \in Holds(r)
    OBVIOUS
  <2> QED BY <1>2, <1>9, <2>1, AloneSame
<1>11. KeepsItsOwn(r)
  BY <1>2, <1>4, <1>5, <1>6 DEF KeepsItsOwn
<1>12. Holds(r)' \subseteq 1..used'
  BY <1>2, <1>4, <1>5, <1>6
<1>13. Sound(x)'
  <2>1. x.step \in StepsOf(x.op) /\ (x.step \in Kinds => x.step \in x.sent)
    BY <1>1 DEF StepsOf, Kinds
  <2>2. \A j \in Kinds : IF Uploaded(x, j) THEN x.new[j] \notin Taken(x.old) \cup {NoFile}
                                           ELSE x.new[j] = x.old[j]
    <3> SUFFICES ASSUME NEW j \in Kinds
                 PROVE IF Uploaded(x, j) THEN x.new[j] \notin Taken(x.old) \cup {NoFile}
                                         ELSE x.new[j] = x.old[j]
      OBVIOUS
    <3>1. CASE j = k
      BY <1>2, <1>4, <3>1
    <3>2. CASE j # k
      <4>1. IF Uploaded(q, j) THEN q.new[j] \notin Taken(q.old) \cup {NoFile}
                              ELSE q.new[j] = q.old[j]
        BY <1>1, Zenon DEF Sound
      <4> QED BY <3>2, <4>1
    <3> QED BY <3>1, <3>2
  <2>3. /\ q.user \in Users /\ (IF q.op = "create" THEN q.id = 0 ELSE q.id \in 1..created')
        /\ q.name \in Names
        /\ (q.op = "create" => q.old = NoPaths) /\ Distinct(q.old)
    BY <1>1, <1>3 DEF Sound
  <2>4. Distinct(x.new)
    <3>1. \A j \in Kinds \ {k} : x.new[j] # used + 1
      <4> SUFFICES ASSUME NEW j \in Kinds \ {k}, q.new[j] = used + 1 PROVE FALSE
        OBVIOUS
      <4>1. q.new[j] \in Taken(q.new)
        BY <1>2, TakenFacts
      <4> QED BY <1>2, <1>4, <4>1
    <3>2. x.new["avatar"] # x.new["cover"]
      BY <3>1 DEF Kinds
    <3> QED BY <3>2 DEF Distinct
  <2> QED BY <1>1, <1>3, <2>1, <2>2, <2>3, <2>4 DEF Sound, Changes
<1>14. KnowsTheRow(x)'
  <2>1. ASSUME NEW j \in Kinds, Uploaded(x, j), Clear(q.id) PROVE x.new[j] \in files'
    <3>1. CASE j = k
      BY <3>1
    <3>2. CASE j # k
      BY <1>1, <1>3, <2>1, <3>2 DEF KnowsTheRow
    <3> QED BY <3>1, <3>2
  <2> QED BY <1>1, <1>3, <2>1 DEF KnowsTheRow, Exists, Clear
<1>15. KnowsItsFate(x)'
  BY <1>3 DEF KnowsItsFate
<1>16. OverlapsAreNoted'
  BY <1>5, <1>10, OverlapsKept
<1>17. unsure' \subseteq failed'
  BY DEF IInv
<1>18. \A c : PathsOf(c)' = PathsOf(c) /\ (Clear(c)' => Clear(c))
  BY DEF PathsOf, Clear
<1>19. \A c \in DOMAIN communities' : Clear(c)' /\ (Mine(c, r) \/ c \notin DOMAIN communities) =>
           PathsOf(c)' \subseteq files'
  BY <1>18 DEF IInv, DiskAgrees, FilesAreServed, Clear
<1>20. \A f \in files' :
           \/ f \in Holds(r)
           \/ f \notin files
           \/ \E c \in DOMAIN communities : Mine(c, r) /\ f \in PathsOf(c)
           => \/ f \in Holds(r)'
              \/ \E c \in DOMAIN communities' : f \in PathsOf(c)'
  BY <1>4, <1>5, <1>7, <1>8, <1>18
<1>21. Sound(req[r])' /\ KnowsTheRow(req[r])' /\ KnowsItsFate(req[r])'
  BY <1>5, <1>13, <1>14, <1>15
<1> QED BY <1>9, <1>10, <1>11, <1>12, <1>16, <1>17, <1>19, <1>20, <1>21, StepKeeps

(* A request deletes the files it has written, as far as that works.       *)
LEMMA GivesUpKeeps ==
    ASSUME IInv, NEW r \in Requests, req' = [req EXCEPT ![r] = NoRequest],
           Unlink(Written(req[r]), req[r].id), req[r].step \in {"cover", "write"},
           created' = created, communities' = communities, overlapped' = overlapped,
           unsure' = unsure, used' = used, received' = received,
           subs' = subs, left' = left, index' = index
    PROVE  IInv'
<1>q. PICK q \in Request : q = req[r]
  BY DEF IInv, DiskAgrees, TypeOK
<1>1. TypeOK /\ q.id \in 0..MaxCommunities /\ NoRequest \in Request
  BY RequestFields, NoRequestFacts DEF IInv, DiskAgrees
<1>2. /\ files' \subseteq files /\ failed \subseteq failed' /\ failed' \subseteq failed \cup {q.id}
      /\ \A f \in files : f \notin files' => f \in Written(req[r])
      /\ failed' = {} => \A f \in files' : f \notin Written(req[r]) \/ f = NoFile
  BY <1>q, UnlinkFacts
<1>3. TypeOK'
  <2>1. /\ used' \in 0..MaxFiles /\ files' \subseteq 1..used' /\ failed' \subseteq 0..MaxCommunities
        /\ subs' \subseteq Ids \X Users /\ left' \subseteq Ids \X Users
        /\ index' \in [Ids -> Names \cup {NoName}]
    BY <1>1, <1>2 DEF TypeOK
  <2> QED BY <1>1, <2>1, TypeKept
<1>4. ~Finishes(req[r])
  BY DEF Finishes
<1> QED BY <1>2, <1>3, <1>4, CancelKeeps

LEMMA UploadAvatarKeeps ==
    ASSUME IInv, NEW r \in Requests, UploadAvatar(r)
    PROVE  IInv'
<1>q. PICK q \in Request : q = req[r]
  BY DEF IInv, DiskAgrees, TypeOK
<1>1. /\ q.step = "avatar"
      /\ \/ /\ used + 1 \in Files /\ used' = used + 1 /\ files' = files \cup {used + 1}
            /\ req' = [req EXCEPT ![r].new.avatar = used + 1,
                          ![r].step = IF "cover" \in req[r].sent THEN "cover" ELSE "write"]
         \/ req' = [req EXCEPT ![r] = NoRequest] /\ files' = files /\ used' = used
      /\ created' = created /\ communities' = communities /\ overlapped' = overlapped
      /\ unsure' = unsure /\ received' = received /\ subs' = subs /\ left' = left
      /\ index' = index /\ failed' = failed
  BY <1>q DEF UploadAvatar, Refuse, Answer, store
<1>2. TypeOK /\ Sound(q) /\ q.new \in Paths
  BY <1>q, RequestFields DEF IInv, DiskAgrees
<1>3. CASE req' = [req EXCEPT ![r] = NoRequest] /\ files' = files /\ used' = used
  <2>1. /\ subs' \subseteq Ids \X Users /\ left' \subseteq Ids \X Users
        /\ index' \in [Ids -> Names \cup {NoName}]
        /\ failed \subseteq failed' /\ failed' \subseteq 0..MaxCommunities
    BY <1>1, <1>2 DEF TypeOK
  <2>2. req[r].step \in {"read", "avatar"}
    BY <1>q, <1>1
  <2> QED BY <1>1, <1>3, <2>1, <2>2, RefusedKeeps
<1>4. CASE /\ used + 1 \in Files /\ used' = used + 1 /\ files' = files \cup {used + 1}
           /\ req' = [req EXCEPT ![r].new.avatar = used + 1,
                         ![r].step = IF "cover" \in req[r].sent THEN "cover" ELSE "write"]
  <2>n. PICK new : new = [q.new EXCEPT !.avatar = used + 1]
    OBVIOUS
  <2>s. PICK step : step = IF "cover" \in q.sent THEN "cover" ELSE "write"
    OBVIOUS
  <2>1. new \in Paths /\ new["avatar"] = used + 1 /\ new["cover"] = q.new["cover"]
    BY <1>2, <1>4, <2>n DEF Paths
  <2>x. PICK x \in Request : x = [q EXCEPT !.new = new, !.step = step]
    BY <2>1, <2>s DEF Request, Steps
  <2>2. /\ x.op = q.op /\ x.id = q.id /\ x.sent = q.sent /\ x.user = q.user /\ x.name = q.name
        /\ x.old = q.old /\ x.new = new /\ x.step = step
    BY <2>x DEF Request
  <2>3. req' = [req EXCEPT ![r] = x]
    BY <1>q, <1>4, <2>n, <2>s, <2>x
  <2>4. /\ x.step \in {"cover", "write"} /\ (x.step = "cover" => "cover" \in q.sent)
        /\ x.new["avatar"] = used + 1 /\ (\A j \in Kinds \ {"avatar"} : x.new[j] = q.new[j])
        /\ "avatar" \in Kinds
    BY <2>1, <2>2, <2>s DEF Kinds
  <2>5. \A j \in Kinds : Uploaded(x, j) <=> Uploaded(q, j) \/ j = "avatar"
    <3>1. "avatar" \in q.sent
      BY <1>1, <1>2 DEF Sound, Kinds
    <3> QED BY <1>1, <2>2, <2>s, <3>1 DEF Uploaded, Finishes, Kinds
  <2>6. NewFile /\ failed' = failed
    BY <1>1, <1>4 DEF NewFile
  <2>7. Gets(q, x, "avatar")
    BY <1>4, <2>2, <2>4, <2>5 DEF Gets
  <2> QED BY <1>q, <1>1, <2>x, <2>3, <2>4, <2>6, <2>7, UploadKeeps
<1> QED BY <1>1, <1>3, <1>4

LEMMA UploadCoverKeeps ==
    ASSUME IInv, NEW r \in Requests, UploadCover(r)
    PROVE  IInv'
<1>q. PICK q \in Request : q = req[r]
  BY DEF IInv, DiskAgrees, TypeOK
<1>1. /\ q.step = "cover"
      /\ \/ /\ used + 1 \in Files /\ used' = used + 1 /\ files' = files \cup {used + 1}
            /\ req' = [req EXCEPT ![r].new.cover = used + 1, ![r].step = "write"]
            /\ failed' = failed
         \/ /\ req' = [req EXCEPT ![r] = NoRequest] /\ used' = used
            /\ Unlink(Written(req[r]), req[r].id)
      /\ created' = created /\ communities' = communities /\ overlapped' = overlapped
      /\ unsure' = unsure /\ received' = received /\ subs' = subs /\ left' = left
      /\ index' = index
  BY <1>q DEF UploadCover, Refuse, Answer, store
<1>2. TypeOK /\ Sound(q) /\ q.new \in Paths
  BY <1>q, RequestFields DEF IInv, DiskAgrees
<1>3. CASE /\ req' = [req EXCEPT ![r] = NoRequest] /\ used' = used
           /\ Unlink(Written(req[r]), req[r].id)
  BY <1>q, <1>1, <1>3, GivesUpKeeps
<1>4. CASE /\ used + 1 \in Files /\ used' = used + 1 /\ files' = files \cup {used + 1}
           /\ req' = [req EXCEPT ![r].new.cover = used + 1, ![r].step = "write"]
           /\ failed' = failed
  <2>n. PICK new : new = [q.new EXCEPT !.cover = used + 1]
    OBVIOUS
  <2>1. new \in Paths /\ new["cover"] = used + 1 /\ new["avatar"] = q.new["avatar"]
    BY <1>2, <1>4, <2>n DEF Paths
  <2>x. PICK x \in Request : x = [q EXCEPT !.new = new, !.step = "write"]
    BY <2>1 DEF Request, Steps
  <2>2. /\ x.op = q.op /\ x.id = q.id /\ x.sent = q.sent /\ x.user = q.user /\ x.name = q.name
        /\ x.old = q.old /\ x.new = new /\ x.step = "write"
    BY <2>x DEF Request
  <2>3. req' = [req EXCEPT ![r] = x]
    BY <1>q, <1>4, <2>n, <2>x
  <2>4. /\ x.step \in {"cover", "write"} /\ (x.step = "cover" => "cover" \in q.sent)
        /\ x.new["cover"] = used + 1 /\ (\A j \in Kinds \ {"cover"} : x.new[j] = q.new[j])
        /\ "cover" \in Kinds
    BY <2>1, <2>2 DEF Kinds
  <2>5. \A j \in Kinds : Uploaded(x, j) <=> Uploaded(q, j) \/ j = "cover"
    <3>1. "cover" \in q.sent
      BY <1>1, <1>2 DEF Sound, Kinds
    <3> QED BY <1>1, <2>2, <3>1 DEF Uploaded, Finishes, Kinds
  <2>6. NewFile /\ failed' = failed
    BY <1>1, <1>4 DEF NewFile
  <2>7. Gets(q, x, "cover")
    BY <1>4, <2>2, <2>4, <2>5 DEF Gets
  <2> QED BY <1>q, <1>1, <2>x, <2>3, <2>4, <2>6, <2>7, UploadKeeps
<1> QED BY <1>1, <1>3, <1>4, Zenon

-------------------------------------------------------------------------------
(* The writes. *)

(* The request q of r has written the row of the community c. *)
Wrote(r, q, c) ==
    /\ q.step = "write"
    /\ \/ q.op = "create" /\ c = created + 1 /\ created < MaxCommunities /\ created' = created + 1
             /\ (Holds(r)' = {} \/ req'[r].id = c)
       \/ q.op = "update" /\ c = q.id /\ c \in DOMAIN communities /\ created' = created
             /\ communities[c].creator = q.user
    /\ DOMAIN communities' = DOMAIN communities \cup {c}
    /\ communities'[c] = NewRow(q)
    /\ \A d \in DOMAIN communities \ {c} : communities'[d] = communities[d]

LEMMA WroteFacts ==
    ASSUME IInv, NEW r \in Requests, NEW q \in Request, q = req[r], NEW c, Wrote(r, q, c),
           \A s \in Requests \ {r} : req'[s] = req[s],
           used' = used, overlapped' = overlapped,
           unsure \subseteq unsure', failed \subseteq failed',
           \A f \in files : f \notin files' => f \in Written(q)
    PROVE  /\ Alone(r)
           /\ created' \in 0..MaxCommunities /\ DOMAIN communities' \subseteq 1..created'
           /\ \A d \in DOMAIN communities' : communities'[d] \in Row
           /\ PathsOf(c)' = Taken(q.new)
           /\ c \in 1..created' /\ c # 0
           /\ \A d \in DOMAIN communities : Mine(d, r) => d = c /\ q.op = "update"
           /\ \A d \in DOMAIN communities \ {c} : PathsOf(d)' = PathsOf(d)
<1>1. /\ TypeOK /\ Sound(q) /\ Changes(q) /\ q.op \in {"create", "update"} /\ q.new \in Paths
      /\ q.name \in Names /\ q.user \in Users
  BY RequestFields DEF IInv, DiskAgrees, Wrote, Changes, Sound
<1>2. /\ created \in Nat /\ used \in Nat /\ MaxCommunities \in Nat
      /\ DOMAIN communities \subseteq 1..created /\ \A d \in DOMAIN communities : d # 0
      /\ created <= MaxCommunities
  BY Numbers, NullAssumption
<1>3. created' \in 0..MaxCommunities /\ created <= created' /\ c \in 1..created' /\ c # 0
  <2>1. CASE q.op = "create"
    BY <1>2, <2>1 DEF Wrote
  <2>2. CASE q.op = "update"
    BY <1>2, <2>2 DEF Wrote
  <2> QED BY <1>1, <2>1, <2>2
<1>4. DOMAIN communities' \subseteq 1..created'
  BY <1>2, <1>3 DEF Wrote
<1>5. NewRow(q) \in Row /\ NewRow(q).creator = q.user
      /\ NewRow(q).avatar = q.new.avatar /\ NewRow(q).cover = q.new.cover
  BY <1>1 DEF NewRow, Row, Paths
<1>6. \A d \in DOMAIN communities' : communities'[d] \in Row
  BY <1>1, <1>5 DEF Wrote, TypeOK
<1>7. PathsOf(c)' = Taken(q.new) /\ Distinct(communities'[c])
  BY <1>1, <1>5 DEF Wrote, PathsOf, Taken, Distinct, Sound
<1>8. Holds(r) = Taken(q.old) \cup Taken(q.new)
  BY DEF Holds
<1>9. q.op = "create" => q.id = 0
  BY <1>1 DEF Sound, Prepares, Wrote
<1>10. Writes(r, c)
  <2>1. PathsOf(c)' \subseteq Holds(r) /\ Distinct(communities'[c])
    BY <1>7, <1>8
  <2>2. CASE q.op = "create"
    BY <1>9, <2>1, <2>2 DEF Wrote, Writes
  <2>3. CASE q.op = "update"
    <3>1. Mine(c, r) /\ c \in DOMAIN communities
      BY <1>1, <1>3, <2>3 DEF Wrote, Mine
    <3>2. communities'[c].creator = communities[c].creator
      BY <1>5, <2>3 DEF Wrote
    <3> QED BY <2>1, <3>1, <3>2 DEF Writes
  <2> QED BY <1>1, <2>2, <2>3
<1>11. Alone(r)
  <2>1. \A f \in files : f \notin files' => f \in Holds(r)
    BY <1>1, <1>8, WrittenFacts
  <2>2. \A d \in DOMAIN communities' :
          (d \in DOMAIN communities /\ communities'[d] = communities[d]) \/ Writes(r, d)
    BY <1>10 DEF Wrote
  <2>3. DOMAIN communities \subseteq DOMAIN communities'
    BY DEF Wrote
  <2> QED BY <1>2, <1>3, <2>1, <2>2, <2>3 DEF Alone
<1>12. \A d \in DOMAIN communities : Mine(d, r) => d = c /\ q.op = "update"
  BY <1>1, <1>9 DEF Mine, Wrote
<1>13. \A d \in DOMAIN communities \ {c} : PathsOf(d)' = PathsOf(d)
  BY DEF Wrote, PathsOf
<1> QED BY <1>3, <1>4, <1>6, <1>7, <1>11, <1>12, <1>13

(* Types after a write. *)
LEMMA WriteTyped ==
    ASSUME TypeOK, NEW r \in Requests, NEW x \in Request, req' = [req EXCEPT ![r] = x],
           created' \in 0..MaxCommunities, DOMAIN communities' \subseteq 1..created',
           \A d \in DOMAIN communities' : communities'[d] \in Row,
           subs' \subseteq subs, index' = index, used' = used, overlapped' = overlapped,
           left' = left, received' = received, files' \subseteq files,
           unsure' \subseteq Ids, failed' \subseteq 0..MaxCommunities
    PROVE  TypeOK'
<1>1. req' \in [Requests -> Request]
  BY RequestAt
<1> QED BY <1>1 DEF TypeOK

(* A row is written, and the request goes on to the index. *)
LEMMA WroteOn ==
    ASSUME IInv, NEW r \in Requests, NEW q \in Request, q = req[r], NEW c, Wrote(r, q, c),
           NEW x \in Request, req' = [req EXCEPT ![r] = x], x = [q EXCEPT !.id = c, !.step = "index"],
           files' = files, used' = used, overlapped' = overlapped, unsure' = unsure,
           failed' = failed, subs' = subs, index' = index, left' = left, received' = received
    PROVE  IInv'
<1>1. /\ TypeOK /\ Sound(q) /\ Changes(q) /\ KnowsTheRow(q) /\ q.op \in {"create", "update"}
      /\ q.step = "write" /\ Prepares(q)
  BY DEF IInv, DiskAgrees, Wrote, Changes, Prepares
<1>2. /\ x.op = q.op /\ x.id = c /\ x.sent = q.sent /\ x.user = q.user /\ x.name = q.name
      /\ x.old = q.old /\ x.new = q.new /\ x.step = "index"
  BY DEF Request
<1>3. /\ req'[r] = x /\ \A s \in Requests \ {r} : req'[s] = req[s]
      /\ Holds(r)' = Taken(x.old) \cup Taken(x.new)
  BY <1>1, RequestAt
<1>4. /\ Alone(r)
      /\ created' \in 0..MaxCommunities /\ DOMAIN communities' \subseteq 1..created'
      /\ \A d \in DOMAIN communities' : communities'[d] \in Row
      /\ PathsOf(c)' = Taken(q.new)
      /\ c \in 1..created' /\ c # 0
      /\ \A d \in DOMAIN communities : Mine(d, r) => d = c /\ q.op = "update"
      /\ \A d \in DOMAIN communities \ {c} : PathsOf(d)' = PathsOf(d)
  BY <1>3, WroteFacts
<1>5. TypeOK'
  <2>1. unsure' \subseteq Ids /\ failed' \subseteq 0..MaxCommunities
    BY <1>1 DEF TypeOK
  <2> QED BY <1>1, <1>4, <2>1, WriteTyped
<1>6. Holds(r)' = Holds(r) /\ Holds(r) = Taken(q.old) \cup Taken(q.new)
  BY <1>2, <1>3 DEF Holds
<1>7. q.op = "create" => q.id = 0 /\ c = created + 1 /\ q.old = NoPaths
  BY <1>1 DEF Sound, Wrote
<1>8. q.op = "update" => q.id = c /\ c \in DOMAIN communities
  BY DEF Wrote
<1>9. KeepsItsOwn(r)
  BY <1>1, <1>2, <1>3, <1>6, <1>7, <1>8 DEF KeepsItsOwn
<1>10. Holds(r)' \subseteq 1..used'
  BY <1>6 DEF IInv, FilesHaveOneOwner
<1>11. Sound(x)'
  <2>1. x.step \in StepsOf(x.op) /\ Finishes(x) /\ ~Prepares(x)
    BY <1>1, <1>2 DEF StepsOf, Finishes, Prepares
  <2>2. \A j \in Kinds : Uploaded(x, j) <=> Uploaded(q, j)
    BY <1>1, <1>2, <2>1 DEF Uploaded
  <2>3. \A j \in Kinds : IF Uploaded(q, j) THEN q.new[j] \notin Taken(q.old) \cup {NoFile}
                                           ELSE q.new[j] = q.old[j]
    BY <1>1, Zenon DEF Sound
  <2>4. \A j \in Kinds : IF Uploaded(x, j) THEN x.new[j] \notin Taken(x.old) \cup {NoFile}
                                           ELSE x.new[j] = x.old[j]
    BY <1>2, <2>2, <2>3
  <2>5. /\ q.user \in Users /\ q.name \in Names /\ (q.op = "create" => q.old = NoPaths)
        /\ Distinct(q.old) /\ Distinct(q.new)
    BY <1>1 DEF Sound
  <2> QED BY <1>1, <1>2, <1>4, <2>1, <2>4, <2>5 DEF Sound, Changes, Kinds
<1>12. c \in DOMAIN communities' /\ communities'[c].avatar = x.new.avatar
       /\ communities'[c].cover = x.new.cover /\ communities'[c].creator = x.user
  BY <1>2 DEF Wrote, NewRow
<1>13. KnowsTheRow(x)' /\ KnowsItsFate(x)'
  BY <1>1, <1>2, <1>12 DEF KnowsTheRow, KnowsItsFate, Exists, Prepares
<1>14. OverlapsAreNoted'
  BY <1>2, <1>3, <1>4, <1>7, <1>8, <1>1, OverlapsKept
<1>15. unsure' \subseteq failed'
  BY DEF IInv
<1>16. ASSUME Clear(c) PROVE PathsOf(c)' \subseteq files
  <2>1. Clear(q.id)
    BY <1>1, <1>7, <1>8, <1>16 DEF Clear, TypeOK, Ids
  <2>2. Taken(q.old) \subseteq files
    <3>1. CASE q.op = "create"
      BY <1>7, <3>1, NoRequestFacts
    <3>2. CASE q.op = "update"
      <4>1. PathsOf(c) = Taken(q.old)
        BY <1>1, <1>8, <2>1, <3>2, RowFacts
      <4> QED BY <1>8, <1>16, <3>2, <4>1 DEF IInv, DiskAgrees, FilesAreServed, Clear
    <3> QED BY <1>1, <3>1, <3>2
  <2> SUFFICES ASSUME NEW f \in Taken(q.new) PROVE f \in files
    BY <1>4
  <2>3. PICK k \in Kinds : f = q.new[k] /\ f # NoFile
    BY TakenFacts
  <2>4. CASE Uploaded(q, k)
    BY <1>1, <2>1, <2>3, <2>4 DEF KnowsTheRow
  <2>5. CASE ~Uploaded(q, k)
    <3>1. f = q.old[k]
      BY <1>1, <2>3, <2>5, Zenon DEF Sound
    <3> QED BY <2>2, <2>3, <3>1, TakenFacts
  <2> QED BY <2>4, <2>5
<1>17. \A d \in DOMAIN communities' : Clear(d)' /\ (Mine(d, r) \/ d \notin DOMAIN communities) =>
           PathsOf(d)' \subseteq files'
  <2>1. \A d \in DOMAIN communities' : Mine(d, r) \/ d \notin DOMAIN communities => d = c
    BY <1>4 DEF Wrote
  <2>2. Clear(c)' => Clear(c)
    BY DEF Clear
  <2> QED BY <1>16, <2>1, <2>2
<1>18. Quiet' => \A f \in files' :
           \/ f \in Holds(r)
           \/ f \notin files
           \/ \E d \in DOMAIN communities : Mine(d, r) /\ f \in PathsOf(d)
           => \/ f \in Holds(r)'
              \/ \E d \in DOMAIN communities' : f \in PathsOf(d)'
  <2> SUFFICES ASSUME Quiet', NEW f \in files',
                      NEW d \in DOMAIN communities, Mine(d, r), f \in PathsOf(d)
               PROVE  f \in Holds(r)
    BY <1>6
  <2>1. Quiet /\ d = c /\ q.op = "update"
    BY <1>4 DEF Quiet
  <2>2. PathsOf(c) = Taken(q.old)
    BY <1>1, <1>8, <2>1, QuietFacts, RowFacts
  <2> QED BY <1>6, <2>1, <2>2
<1>19. Sound(req[r])' /\ KnowsTheRow(req[r])' /\ KnowsItsFate(req[r])'
  BY <1>3, <1>11, <1>13
<1> QED BY <1>4, <1>5, <1>9, <1>10, <1>14, <1>15, <1>17, <1>18, <1>19, StepKeeps

(* A row is written, but the request does not learn of it.                 *)
LEMMA WroteEnds ==
    ASSUME IInv, NEW r \in Requests, NEW q \in Request, q = req[r], NEW c, Wrote(r, q, c),
           CleanUpApplied(r, c),
           used' = used, overlapped' = overlapped, subs' = subs, index' = index,
           left' = left, received' = received
    PROVE  IInv'
<1>1. TypeOK /\ NoRequest \in Request /\ q.op \in {"create", "update"}
  BY NoRequestFacts DEF IInv, DiskAgrees, Wrote
<1>2. /\ req' = [req EXCEPT ![r] = NoRequest] /\ files' \subseteq files
      /\ \A f \in files : f \notin files' => f \in Written(q)
      /\ failed' = failed \cup {c} /\ unsure' = unsure \cup {c}
  BY DEF CleanUpApplied, Refuse, Answer
<1>3. req'[r] = NoRequest /\ \A s \in Requests \ {r} : req'[s] = req[s]
  BY <1>1, <1>2, RequestAt
<1>4. /\ Alone(r)
      /\ created' \in 0..MaxCommunities /\ DOMAIN communities' \subseteq 1..created'
      /\ \A d \in DOMAIN communities' : communities'[d] \in Row
      /\ PathsOf(c)' = Taken(q.new)
      /\ c \in 1..created' /\ c # 0
      /\ \A d \in DOMAIN communities : Mine(d, r) => d = c /\ q.op = "update"
      /\ \A d \in DOMAIN communities \ {c} : PathsOf(d)' = PathsOf(d)
  <2>1. unsure \subseteq unsure' /\ failed \subseteq failed'
    BY <1>2
  <2> QED BY <1>2, <1>3, <2>1, WroteFacts
<1>5. TypeOK'
  <2>1. c \in Ids /\ c \in 0..MaxCommunities
    BY <1>4, NullAssumption DEF Ids
  <2>2. unsure' \subseteq Ids /\ failed' \subseteq 0..MaxCommunities
    BY <1>1, <1>2, <2>1 DEF TypeOK
  <2> QED BY <1>1, <1>2, <1>4, <2>2, WriteTyped
<1>6. unsure' \subseteq failed'
  BY <1>2 DEF IInv
<1>7. ~Clear(c)' /\ ~Quiet'
  BY <1>2 DEF Clear, Quiet
<1>8. \A d \in DOMAIN communities' : Clear(d)' /\ (Mine(d, r) \/ d \notin DOMAIN communities) =>
           PathsOf(d)' \subseteq files'
  <2>1. \A d \in DOMAIN communities' : Mine(d, r) \/ d \notin DOMAIN communities => d = c
    BY <1>4 DEF Wrote
  <2> QED BY <1>7, <2>1
<1> QED BY <1>3, <1>4, <1>5, <1>6, <1>7, <1>8, EndKeeps

LEMMA CreateCommunityKeeps ==
    ASSUME IInv, NEW r \in Requests, CreateCommunity(r)
    PROVE  IInv'
<1>q. PICK q \in Request : q = req[r]
  BY DEF IInv, DiskAgrees, TypeOK
<1>c. PICK c : c = created + 1
  OBVIOUS
<1>1. /\ q.step = "write" /\ q.op = "create"
      /\ \/ /\ created < MaxCommunities /\ created' = c
            /\ communities' = [d \in DOMAIN communities \cup {c} |->
                                   IF d = c THEN NewRow(q) ELSE communities[d]]
            /\ \/ /\ req' = [req EXCEPT ![r].id = c, ![r].step = "index"]
                  /\ files' = files /\ unsure' = unsure /\ failed' = failed
               \/ CleanUpApplied(r, c)
         \/ CleanUp(r) /\ created' = created /\ communities' = communities /\ unsure' = unsure
      /\ subs' = subs /\ index' = index /\ used' = used /\ overlapped' = overlapped
      /\ left' = left /\ received' = received
  BY <1>q, <1>c, Zenon DEF CreateCommunity
<1>2. TypeOK /\ NoRequest \in Request /\ c \in Nat
  BY <1>c, NoRequestFacts, Numbers DEF IInv, DiskAgrees
<1>3. CASE CleanUp(r) /\ created' = created /\ communities' = communities /\ unsure' = unsure
  <2>1. req' = [req EXCEPT ![r] = NoRequest] /\ Unlink(Written(req[r]), req[r].id)
    BY <1>3 DEF CleanUp, Refuse, Answer
  <2>2. /\ created' = created /\ communities' = communities /\ overlapped' = overlapped
        /\ unsure' = unsure /\ used' = used /\ received' = received
        /\ subs' = subs /\ left' = left /\ index' = index
        /\ req[r].step \in {"cover", "write"}
    BY <1>q, <1>1, <1>3
  <2> QED BY <2>1, <2>2, GivesUpKeeps
<1>4. CASE /\ created < MaxCommunities /\ created' = c
           /\ communities' = [d \in DOMAIN communities \cup {c} |->
                                   IF d = c THEN NewRow(q) ELSE communities[d]]
           /\ \/ /\ req' = [req EXCEPT ![r].id = c, ![r].step = "index"]
                 /\ files' = files /\ unsure' = unsure /\ failed' = failed
              \/ CleanUpApplied(r, c)
  <2>1. /\ DOMAIN communities' = DOMAIN communities \cup {c}
        /\ communities'[c] = NewRow(q)
        /\ \A d \in DOMAIN communities \ {c} : communities'[d] = communities[d]
    BY <1>4
  <2>2. Holds(r)' = {} \/ req'[r].id = c => Wrote(r, q, c)
    BY <1>c, <1>1, <1>4, <2>1 DEF Wrote
  <2>3. CASE CleanUpApplied(r, c)
    <3>1. req'[r] = NoRequest
      BY <1>2, <2>3, RequestAt DEF CleanUpApplied, Refuse, Answer
    <3>2. Holds(r)' = {}
      BY <3>1, NoRequestFacts DEF Holds
    <3> QED BY <1>q, <1>1, <2>2, <2>3, <3>2, WroteEnds
  <2>4. CASE /\ req' = [req EXCEPT ![r].id = c, ![r].step = "index"]
             /\ files' = files /\ unsure' = unsure /\ failed' = failed
    <3>1. c \in 0..MaxCommunities
      BY <1>c, <1>4, Numbers, NullAssumption
    <3>x. PICK x \in Request : x = [q EXCEPT !.id = c, !.step = "index"]
      BY <3>1 DEF Request, Steps
    <3>2. req' = [req EXCEPT ![r] = x]
      BY <1>q, <2>4, <3>x
    <3>3. req'[r].id = c
      BY <1>2, <3>2, <3>x, RequestAt DEF Request
    <3>4. /\ files' = files /\ used' = used /\ overlapped' = overlapped /\ unsure' = unsure
          /\ failed' = failed /\ subs' = subs /\ index' = index /\ left' = left
          /\ received' = received
      BY <1>1, <2>4
    <3>5. Wrote(r, q, c)
      BY <2>2, <3>3
    <3> QED BY <1>q, <3>x, <3>2, <3>4, <3>5, WroteOn
  <2> QED BY <1>4, <2>3, <2>4
<1> QED BY <1>1, <1>3, <1>4, Zenon

LEMMA UpdateCommunityKeeps ==
    ASSUME IInv, NEW r \in Requests, UpdateCommunity(r)
    PROVE  IInv'
<1>q. PICK q \in Request : q = req[r]
  BY DEF IInv, DiskAgrees, TypeOK
<1>1. /\ q.step = "write" /\ q.op = "update"
      /\ \/ /\ q.id \in DOMAIN communities /\ communities[q.id].creator = q.user
            /\ communities' = [communities EXCEPT ![q.id] = NewRow(q)]
            /\ \/ /\ Goto(r, "index")
                  /\ files' = files /\ unsure' = unsure /\ failed' = failed
               \/ CleanUpApplied(r, q.id)
         \/ CleanUp(r) /\ communities' = communities /\ unsure' = unsure
      /\ subs' = subs /\ index' = index /\ used' = used /\ overlapped' = overlapped
      /\ left' = left /\ received' = received /\ created' = created
  BY <1>q, Zenon DEF UpdateCommunity, Exists
<1>2. TypeOK /\ NoRequest \in Request
  BY NoRequestFacts DEF IInv, DiskAgrees
<1>3. CASE CleanUp(r) /\ communities' = communities /\ unsure' = unsure
  <2>1. req' = [req EXCEPT ![r] = NoRequest] /\ Unlink(Written(req[r]), req[r].id)
    BY <1>3 DEF CleanUp, Refuse, Answer
  <2>2. /\ created' = created /\ communities' = communities /\ overlapped' = overlapped
        /\ unsure' = unsure /\ used' = used /\ received' = received
        /\ subs' = subs /\ left' = left /\ index' = index
        /\ req[r].step \in {"cover", "write"}
    BY <1>q, <1>1, <1>3
  <2> QED BY <2>1, <2>2, GivesUpKeeps
<1>4. CASE /\ q.id \in DOMAIN communities /\ communities[q.id].creator = q.user
           /\ communities' = [communities EXCEPT ![q.id] = NewRow(q)]
           /\ \/ /\ Goto(r, "index")
                 /\ files' = files /\ unsure' = unsure /\ failed' = failed
              \/ CleanUpApplied(r, q.id)
  <2>1. /\ DOMAIN communities' = DOMAIN communities \cup {q.id}
        /\ communities'[q.id] = NewRow(q)
        /\ \A d \in DOMAIN communities \ {q.id} : communities'[d] = communities[d]
    BY <1>4
  <2>2. Wrote(r, q, q.id)
    BY <1>1, <1>4, <2>1 DEF Wrote
  <2>3. CASE CleanUpApplied(r, q.id)
    BY <1>q, <1>1, <2>2, <2>3, WroteEnds
  <2>4. CASE /\ Goto(r, "index")
             /\ files' = files /\ unsure' = unsure /\ failed' = failed
    <3>c. PICK c : c = q.id
      OBVIOUS
    <3>1. c \in 0..MaxCommunities
      BY <3>c, RequestFields
    <3>x. PICK x \in Request : x = [q EXCEPT !.id = c, !.step = "index"]
      BY <3>1 DEF Request, Steps
    <3>2. x = [q EXCEPT !.step = "index"]
      BY <3>c, <3>x DEF Request
    <3>3. req' = [req EXCEPT ![r] = x]
      BY <1>q, <2>4, <3>2 DEF Goto
    <3>4. Wrote(r, q, c)
      BY <2>2, <3>c
    <3>5. /\ files' = files /\ used' = used /\ overlapped' = overlapped /\ unsure' = unsure
          /\ failed' = failed /\ subs' = subs /\ index' = index /\ left' = left
          /\ received' = received
      BY <1>1, <2>4
    <3> QED BY <1>q, <3>x, <3>3, <3>4, <3>5, WroteOn
  <2> QED BY <1>4, <2>3, <2>4
<1> QED BY <1>1, <1>3, <1>4, Zenon

(* The row of q is deleted by the request of r. *)
Deleted(r, q) ==
    /\ q.step = "write" /\ q.op = "delete"
    /\ q.id \in DOMAIN communities /\ DOMAIN communities' = DOMAIN communities \ {q.id}
    /\ \A d \in DOMAIN communities \ {q.id} : communities'[d] = communities[d]
    /\ created' = created /\ files' = files /\ used' = used /\ overlapped' = overlapped
    /\ index' = index /\ left' = left /\ received' = received /\ subs' \subseteq subs

LEMMA DeletedFacts ==
    ASSUME IInv, NEW r \in Requests, NEW q \in Request, q = req[r], Deleted(r, q),
           NEW x \in Request, req' = [req EXCEPT ![r] = x],
           unsure \subseteq unsure', unsure' \subseteq unsure \cup {q.id},
           failed \subseteq failed', failed' \subseteq failed \cup {q.id}
    PROVE  /\ Alone(r) /\ TypeOK' /\ Mine(q.id, r) /\ Changes(q)
           /\ \A d \in DOMAIN communities' : d \in DOMAIN communities /\ ~Mine(d, r)
<1>1. TypeOK /\ Sound(q) /\ Changes(q)
  BY DEF IInv, DiskAgrees, Deleted, Changes
<1>2. /\ created \in Nat /\ used \in Nat /\ MaxCommunities \in Nat
      /\ DOMAIN communities \subseteq 1..created /\ 1..created \subseteq Ids
      /\ \A d \in DOMAIN communities : d # 0
  BY Numbers, NullAssumption
<1>3. Mine(q.id, r) /\ \A d \in DOMAIN communities' : d \in DOMAIN communities /\ ~Mine(d, r)
  BY <1>1, <1>2 DEF Mine, Deleted
<1>4. \A s \in Requests \ {r} : req'[s] = req[s]
  BY <1>1, RequestAt
<1>5. Alone(r)
  <2>1. created <= created' /\ used <= used'
    BY <1>2 DEF Deleted
  <2>2. \A d \in DOMAIN communities : d \notin DOMAIN communities' => Mine(d, r)
    BY <1>3 DEF Deleted
  <2>3. \A d \in DOMAIN communities' : d \in DOMAIN communities /\ communities'[d] = communities[d]
    BY DEF Deleted
  <2>4. overlapped \subseteq overlapped' /\ \A f \in files : f \notin files' => f \in Holds(r)
    BY DEF Deleted
  <2> QED BY <1>4, <2>1, <2>2, <2>3, <2>4 DEF Alone
<1>6. TypeOK'
  <2>1. created' \in 0..MaxCommunities /\ DOMAIN communities' \subseteq 1..created'
    BY <1>1, <1>2 DEF TypeOK, Deleted
  <2>2. \A d \in DOMAIN communities' : communities'[d] \in Row
    BY <1>1 DEF TypeOK, Deleted
  <2>3. q.id \in Ids /\ q.id \in 0..MaxCommunities
    BY <1>2, RequestFields DEF Deleted
  <2>4. unsure' \subseteq Ids /\ failed' \subseteq 0..MaxCommunities
    BY <1>1, <2>3 DEF TypeOK
  <2>5. /\ subs' \subseteq subs /\ index' = index /\ used' = used /\ overlapped' = overlapped
        /\ left' = left /\ received' = received /\ files' \subseteq files
    BY DEF Deleted
  <2> QED BY <1>1, <2>1, <2>2, <2>4, <2>5, WriteTyped
<1> QED BY <1>1, <1>3, <1>5, <1>6

LEMMA DeletedOn ==
    ASSUME IInv, NEW r \in Requests, NEW q \in Request, q = req[r], Deleted(r, q),
           Goto(r, "index"), unsure' = unsure, failed' = failed
    PROVE  IInv'
<1>1. TypeOK /\ Sound(q) /\ q.op = "delete" /\ q.step = "write" /\ q.sent = {}
  BY DEF IInv, DiskAgrees, Deleted, Sound
<1>x. PICK x \in Request : x = [q EXCEPT !.step = "index"]
  BY DEF Request, Steps
<1>2. req' = [req EXCEPT ![r] = x]
  BY <1>x DEF Goto
<1>3. /\ x.op = q.op /\ x.id = q.id /\ x.sent = q.sent /\ x.user = q.user /\ x.name = q.name
      /\ x.old = q.old /\ x.new = q.new /\ x.step = "index"
  BY <1>x DEF Request
<1>4. req'[r] = x /\ Holds(r)' = Taken(x.old) \cup Taken(x.new)
  BY <1>1, <1>2, RequestAt
<1>5. /\ Alone(r) /\ TypeOK' /\ Mine(q.id, r) /\ Changes(q)
      /\ \A d \in DOMAIN communities' : d \in DOMAIN communities /\ ~Mine(d, r)
  BY <1>2, DeletedFacts
<1>6. Holds(r)' = Holds(r) /\ Holds(r) = Taken(q.old) \cup Taken(q.new)
  BY <1>3, <1>4 DEF Holds
<1>7. KeepsItsOwn(r)
  BY <1>3, <1>4, <1>6 DEF KeepsItsOwn
<1>8. Holds(r)' \subseteq 1..used'
  BY <1>6 DEF IInv, FilesHaveOneOwner, Deleted
<1>9. Sound(x)'
  <2>1. x.step \in StepsOf(x.op) /\ ~Prepares(x)
    BY <1>1, <1>3 DEF StepsOf, Prepares
  <2>2. \A j \in Kinds : ~Uploaded(x, j) /\ ~Uploaded(q, j)
    BY <1>1, <1>3 DEF Uploaded
  <2>3. \A j \in Kinds : x.new[j] = x.old[j]
    BY <1>1, <1>3, <2>2, Zenon DEF Sound
  <2>4. q.user \in Users /\ q.id \in 1..created' /\ Distinct(q.old) /\ Distinct(q.new)
    BY <1>1 DEF Sound, Prepares, Deleted
  <2> QED BY <1>1, <1>3, <1>5, <2>1, <2>2, <2>3, <2>4 DEF Sound, Changes, Kinds
<1>10. KnowsTheRow(x)' /\ KnowsItsFate(x)'
  BY <1>1, <1>3 DEF KnowsTheRow, KnowsItsFate, Exists, Prepares, Deleted
<1>11. Sound(req[r])' /\ KnowsTheRow(req[r])' /\ KnowsItsFate(req[r])'
  BY <1>4, <1>9, <1>10
<1>12. OverlapsAreNoted'
  BY <1>3, <1>4, <1>5, OverlapsKept
<1>13. unsure' \subseteq failed'
  BY DEF IInv
<1>14. \A d \in DOMAIN communities' : Clear(d)' /\ (Mine(d, r) \/ d \notin DOMAIN communities) =>
           PathsOf(d)' \subseteq files'
  BY <1>5
<1>15. Quiet' => \A f \in files' :
           \/ f \in Holds(r)
           \/ f \notin files
           \/ \E d \in DOMAIN communities : Mine(d, r) /\ f \in PathsOf(d)
           => \/ f \in Holds(r)'
              \/ \E d \in DOMAIN communities' : f \in PathsOf(d)'
  <2> SUFFICES ASSUME Quiet', NEW f \in files',
                      NEW d \in DOMAIN communities, Mine(d, r), f \in PathsOf(d)
               PROVE  f \in Holds(r)
    BY <1>6 DEF Deleted
  <2>1. Quiet /\ d = q.id
    BY DEF Quiet, Mine, Deleted
  <2>2. PathsOf(q.id) = Taken(q.old)
    BY <1>1, <1>5, <2>1, QuietFacts, RowFacts DEF Prepares
  <2> QED BY <1>6, <2>1, <2>2
<1> QED BY <1>5, <1>7, <1>8, <1>11, <1>12, <1>13, <1>14, <1>15, StepKeeps

LEMMA DeletedEnds ==
    ASSUME IInv, NEW r \in Requests, NEW q \in Request, q = req[r], Deleted(r, q),
           req' = [req EXCEPT ![r] = NoRequest],
           unsure' = unsure \cup {q.id}, failed' = failed \cup {q.id}
    PROVE  IInv'
<1>1. TypeOK /\ NoRequest \in Request
  BY NoRequestFacts DEF IInv, DiskAgrees
<1>2. req'[r] = NoRequest
  BY <1>1, RequestAt
<1>3. /\ Alone(r) /\ TypeOK'
      /\ \A d \in DOMAIN communities' : d \in DOMAIN communities /\ ~Mine(d, r)
  BY <1>1, DeletedFacts
<1>4. ~Quiet' /\ unsure' \subseteq failed'
  BY DEF Quiet, IInv
<1> QED BY <1>2, <1>3, <1>4, EndKeeps

LEMMA DeleteCommunityKeeps ==
    ASSUME IInv, NEW r \in Requests, DeleteCommunity(r)
    PROVE  IInv'
<1>q. PICK q \in Request : q = req[r]
  BY DEF IInv, DiskAgrees, TypeOK
<1>1. /\ q.step = "write" /\ q.op = "delete"
      /\ \/ /\ q.id \in DOMAIN communities
            /\ communities' = [c \in DOMAIN communities \ {q.id} |-> communities[c]]
            /\ subs' = {s \in subs : s[1] # q.id}
            /\ \/ Goto(r, "index") /\ unsure' = unsure /\ failed' = failed
               \/ /\ req' = [req EXCEPT ![r] = NoRequest]
                  /\ unsure' = unsure \cup {q.id} /\ failed' = failed \cup {q.id}
         \/ /\ req' = [req EXCEPT ![r] = NoRequest] /\ communities' = communities /\ subs' = subs
            /\ unsure' = unsure /\ failed' = failed
      /\ created' = created /\ files' = files /\ index' = index /\ used' = used
      /\ overlapped' = overlapped /\ left' = left /\ received' = received
  BY <1>q, Zenon DEF DeleteCommunity, Exists, Refuse, Answer
<1>2. TypeOK /\ Sound(q) /\ NoRequest \in Request
  BY <1>q, NoRequestFacts DEF IInv, DiskAgrees
<1>3. CASE /\ req' = [req EXCEPT ![r] = NoRequest] /\ communities' = communities /\ subs' = subs
           /\ unsure' = unsure /\ failed' = failed
  <2>1. Written(req[r]) = {}
    BY <1>q, <1>1, <1>2 DEF Sound, Written
  <2>2. TypeOK'
    <3>1. /\ used' \in 0..MaxFiles /\ files' \subseteq 1..used' /\ failed' \subseteq 0..MaxCommunities
          /\ subs' \subseteq Ids \X Users /\ left' \subseteq Ids \X Users
          /\ index' \in [Ids -> Names \cup {NoName}]
      BY <1>1, <1>2, <1>3 DEF TypeOK
    <3>2. created' = created /\ overlapped' = overlapped /\ received' = received
      BY <1>1
    <3> QED BY <1>2, <1>3, <3>1, <3>2, TypeKept
  <2>3. ~Finishes(req[r])
    BY <1>q, <1>1 DEF Finishes
  <2>4. /\ created' = created /\ overlapped' = overlapped /\ used' = used /\ files' = files
    BY <1>1
  <2> QED BY <1>3, <2>1, <2>2, <2>3, <2>4, CancelKeeps
<1>4. CASE /\ q.id \in DOMAIN communities
           /\ communities' = [c \in DOMAIN communities \ {q.id} |-> communities[c]]
           /\ subs' = {s \in subs : s[1] # q.id}
           /\ \/ Goto(r, "index") /\ unsure' = unsure /\ failed' = failed
              \/ /\ req' = [req EXCEPT ![r] = NoRequest]
                 /\ unsure' = unsure \cup {q.id} /\ failed' = failed \cup {q.id}
  <2>1. Deleted(r, q)
    BY <1>1, <1>4 DEF Deleted
  <2>2. CASE Goto(r, "index") /\ unsure' = unsure /\ failed' = failed
    BY <1>q, <2>1, <2>2, DeletedOn
  <2>3. CASE /\ req' = [req EXCEPT ![r] = NoRequest]
             /\ unsure' = unsure \cup {q.id} /\ failed' = failed \cup {q.id}
    BY <1>q, <2>1, <2>3, DeletedEnds
  <2> QED BY <1>4, <2>2, <2>3
<1> QED BY <1>1, <1>3, <1>4, Zenon

-------------------------------------------------------------------------------
(* Requests that arrive, crashes, and the beginning. *)

(* What is known of a request that arrives. *)
New(q) ==
    /\ q \in Request /\ q.old = NoPaths /\ q.new = NoPaths /\ q.user \in Users
    /\ q.op \in {"create", "update"} => q.name \in Names
    /\ q.op \notin {"create", "update"} => q.sent = {}
    /\ IF q.op = "create" THEN q.id = 0 ELSE q.id \in 1..created

LEMMA ArriveKeeps ==
    ASSUME IInv, NEW r \in Requests, NEW q, New(q), Arrive(r, q)
    PROVE  IInv'
<1>s. PICK step : step = FirstStep(q)
  OBVIOUS
<1>1. /\ req[r].step = "idle" /\ received < MaxReceived /\ received' = received + 1
      /\ req' = [req EXCEPT ![r] = [q EXCEPT !.step = step]]
      /\ created' = created /\ communities' = communities /\ subs' = subs /\ index' = index
      /\ files' = files /\ used' = used /\ unsure' = unsure /\ failed' = failed /\ left' = left
      /\ overlapped' = IF Changes(q) /\ \E s \in Requests : /\ Busy(s) /\ Changes(req[s])
                                                            /\ req[s].id = q.id /\ q.id # 0
                         THEN overlapped \cup {q.id} ELSE overlapped
  BY <1>s DEF Arrive, Busy, store
<1>2. TypeOK /\ q \in Request /\ q.sent \subseteq Kinds /\ q.op \in Ops /\ q.id \in 0..MaxCommunities
      /\ created \in Nat /\ used \in Nat
  BY RequestFields, Numbers DEF New, IInv, DiskAgrees
<1>3. /\ step \in StepsOf(q.op) /\ step \in Steps /\ step # "idle"
      /\ step \notin {"index", "unlink"} /\ (step = "subscribe" => q.op = "subscribe")
      /\ (step \in {"avatar", "cover", "write"} <=> q.op = "create")
      /\ (step \in Kinds => step \in q.sent)
      /\ (step = "cover" => "avatar" \notin q.sent)
      /\ (step = "write" => "avatar" \notin q.sent /\ "cover" \notin q.sent)
      /\ (step = "read" \/ step = "unsubscribe" \/ q.op = "create")
  <2>1. CASE q.op = "create"
    BY <1>s, <2>1 DEF FirstStep, FirstUpload, StepsOf, Steps, Kinds
  <2>2. CASE q.op = "unsubscribe"
    BY <1>s, <2>2 DEF FirstStep, StepsOf, Steps, Kinds
  <2>3. CASE q.op \in {"update", "delete", "subscribe"}
    BY <1>s, <2>3 DEF FirstStep, StepsOf, Steps, Kinds
  <2> QED BY <1>2, <2>1, <2>2, <2>3 DEF Ops
<1>x. PICK x \in Request : x = [q EXCEPT !.step = step]
  BY <1>2, <1>3 DEF Request
<1>4. /\ x.op = q.op /\ x.id = q.id /\ x.sent = q.sent /\ x.user = q.user /\ x.name = q.name
      /\ x.old = NoPaths /\ x.new = NoPaths /\ x.step = step
  BY <1>2, <1>x DEF Request, New
<1>5. req' = [req EXCEPT ![r] = x]
  BY <1>1, <1>x
<1>6. /\ req'[r] = x /\ Holds(r)' = Taken(x.old) \cup Taken(x.new)
      /\ req' \in [Requests -> Request] /\ \A s \in Requests \ {r} : req'[s] = req[s]
  BY <1>2, <1>5, RequestAt
<1>7. Holds(r)' = {}
  BY <1>4, <1>6, NoRequestFacts
<1>8. overlapped \subseteq overlapped' /\ overlapped' \subseteq overlapped \cup {q.id}
      /\ (q.id = 0 => overlapped' = overlapped)
  BY <1>1
<1>9. TypeOK'
  <2>1. received' \in 0..MaxReceived
    BY <1>1, <1>2, NullAssumption DEF TypeOK
  <2>2. q.id # 0 => q.id \in Ids
    BY <1>2 DEF Ids
  <2>3. overlapped' \subseteq Ids
    BY <1>2, <1>8, <2>2 DEF TypeOK
  <2> QED BY <1>1, <1>2, <1>6, <2>1, <2>3 DEF TypeOK
<1>10. Alone(r)
  BY <1>1, <1>2, <1>6, <1>8 DEF Alone
<1>11. KeepsItsOwn(r) /\ Holds(r)' \subseteq 1..used'
  BY <1>7 DEF KeepsItsOwn
<1>12. (step = "subscribe" => FALSE) /\ \A k \in Kinds : ~Uploaded(x, k)
  <2>1. step # "subscribe"
    BY <1>3 DEF StepsOf
  <2> QED BY <1>2, <1>3, <1>4, <2>1 DEF Uploaded, Finishes, Kinds
<1>13. ~Finishes(x) /\ (Prepares(x) <=> q.op = "create")
  BY <1>3, <1>4, <1>12 DEF Finishes, Prepares
<1>14. Sound(x)'
  <2>1. \A k \in Kinds : x.new[k] = x.old[k]
    BY <1>4
  <2>2. x.id \in 1..created' \/ (x.op = "create" /\ x.id = 0)
    BY <1>1, <1>4 DEF New
  <2>3. x.op = "create" => x.id = 0
    BY <1>4 DEF New
  <2>4. /\ x.user \in Users /\ (x.op \in {"create", "update"} => x.name \in Names)
        /\ (x.op \notin {"create", "update"} => x.sent = {})
        /\ Distinct(NoPaths)
    BY <1>4, NoRequestFacts DEF New
  <2> QED BY <1>3, <1>4, <1>12, <1>13, <2>1, <2>2, <2>3, <2>4 DEF Sound
<1>15. KnowsTheRow(x)' /\ KnowsItsFate(x)'
  BY <1>4, <1>12, <1>13 DEF KnowsTheRow, KnowsItsFate
<1>16. Sound(req[r])' /\ KnowsTheRow(req[r])' /\ KnowsItsFate(req[r])'
  BY <1>6, <1>14, <1>15
<1>17. OverlapsAreNoted'
  <2> SUFFICES ASSUME NEW s \in Requests, NEW t \in Requests, s # t,
                      Changes(req'[s]), Changes(req'[t]), req'[s].id = req'[t].id, req'[s].id # 0
               PROVE  req'[s].id \in overlapped'
    BY DEF OverlapsAreNoted, Changes
  <2>1. ASSUME NEW u \in Requests \ {r}, Changes(req[u]), req[u].id = q.id, q.id # 0, Changes(q)
        PROVE  q.id \in overlapped'
    <3>1. Busy(u)
      BY <2>1 DEF IInv, Sound, StepsOf, Busy, Changes
    <3> QED BY <1>1, <2>1, <3>1
  <2>2. Changes(x) => Changes(q)
    BY <1>4 DEF Changes
  <2>3. CASE s # r /\ t # r
    BY <1>6, <1>8, <2>3 DEF IInv, OverlapsAreNoted, Changes
  <2>4. CASE s = r
    BY <1>4, <1>6, <2>1, <2>2, <2>4
  <2>5. CASE t = r
    BY <1>4, <1>6, <2>1, <2>2, <2>5
  <2> QED BY <2>3, <2>4, <2>5
<1>18. unsure' \subseteq failed'
  BY <1>1 DEF IInv
<1>19. \A c : PathsOf(c)' = PathsOf(c) /\ (Clear(c)' => Clear(c))
  BY <1>1, <1>8 DEF PathsOf, Clear
<1>20. \A c \in DOMAIN communities' : Clear(c)' /\ (Mine(c, r) \/ c \notin DOMAIN communities) =>
           PathsOf(c)' \subseteq files'
  BY <1>1, <1>19 DEF IInv, DiskAgrees, FilesAreServed, Clear
<1>21. req[r] = NoRequest
  BY <1>1 DEF IInv, Sound
<1>22. Holds(r) = {}
  BY <1>21, NoRequestFacts DEF Holds
<1>23. Quiet' => \A f \in files' :
           \/ f \in Holds(r)
           \/ f \notin files
           \/ \E c \in DOMAIN communities : Mine(c, r) /\ f \in PathsOf(c)
           => \/ f \in Holds(r)'
              \/ \E c \in DOMAIN communities' : f \in PathsOf(c)'
  BY <1>1, <1>19, <1>22
<1> QED BY <1>9, <1>10, <1>11, <1>16, <1>17, <1>18, <1>20, <1>23, StepKeeps

LEMMA ReceiveKeeps ==
    ASSUME IInv, NEW r \in Requests, Receive(r)
    PROVE  IInv'
<1>0. \A c \in 1..created : c \in 0..MaxCommunities
  BY Numbers, NullAssumption
<1>1. CASE CreateCommunityHandler(r)
  <2>1. PICK u \in Users, n \in Names, s \in SUBSET {"avatar", "cover"} :
           Arrive(r, [NoRequest EXCEPT !.op = "create", !.user = u, !.name = n, !.sent = s])
    BY <1>1 DEF CreateCommunityHandler
  <2>q. PICK q : q = [NoRequest EXCEPT !.op = "create", !.user = u, !.name = n, !.sent = s]
    OBVIOUS
  <2>2. New(q)
    BY <2>q, NoRequestFacts DEF New, Request, Ops
  <2> QED BY <2>1, <2>q, <2>2, ArriveKeeps
<1>2. CASE UpdateCommunityHandler(r)
  <2>1. PICK u \in Users, c \in 1..created, n \in Names, s \in SUBSET {"avatar", "cover"} :
           Arrive(r, [NoRequest EXCEPT !.op = "update", !.user = u, !.id = c, !.name = n, !.sent = s])
    BY <1>2 DEF UpdateCommunityHandler
  <2>q. PICK q : q = [NoRequest EXCEPT !.op = "update", !.user = u, !.id = c, !.name = n, !.sent = s]
    OBVIOUS
  <2>2. New(q)
    BY <1>0, <2>q, NoRequestFacts DEF New, Request, Ops
  <2> QED BY <2>1, <2>q, <2>2, ArriveKeeps
<1>3. ASSUME NEW op \in {"delete", "subscribe", "unsubscribe"}, NEW u \in Users, NEW c \in 1..created,
             Arrive(r, [NoRequest EXCEPT !.op = op, !.user = u, !.id = c])
      PROVE  IInv'
  <2>q. PICK q : q = [NoRequest EXCEPT !.op = op, !.user = u, !.id = c]
    OBVIOUS
  <2>2. New(q)
    BY <1>0, <1>3, <2>q, NoRequestFacts DEF New, Request, Ops
  <2> QED BY <1>3, <2>q, <2>2, ArriveKeeps
<1>4. CASE DeleteCommunityHandler(r)
  BY <1>3, <1>4 DEF DeleteCommunityHandler
<1>5. CASE SubscribeHandler(r)
  BY <1>3, <1>5 DEF SubscribeHandler
<1>6. CASE UnsubscribeHandler(r)
  BY <1>3, <1>6 DEF UnsubscribeHandler
<1> QED BY <1>1, <1>2, <1>4, <1>5, <1>6 DEF Receive

LEMMA CrashKeeps ==
    ASSUME IInv, Crash
    PROVE  IInv'
<1>1. /\ req' = [r \in Requests |-> NoRequest]
      /\ failed' = failed \cup {req[r].id : r \in {s \in Requests : Changes(req[s])}}
      /\ created' = created /\ communities' = communities /\ subs' = subs /\ index' = index
      /\ files' = files /\ used' = used /\ overlapped' = overlapped /\ unsure' = unsure
      /\ left' = left /\ received' = received
  BY DEF Crash, store
<1>2. TypeOK /\ NoRequest \in Request
  BY NoRequestFacts DEF IInv, DiskAgrees
<1>3. \A r \in Requests : Changes(req[r]) => req[r].id \in failed'
  BY <1>1
<1>4. failed \subseteq failed' /\ failed' \subseteq 0..MaxCommunities
  <2>1. \A r \in Requests : req[r].id \in 0..MaxCommunities
    BY <1>2, RequestFields DEF TypeOK
  <2> QED BY <1>1, <1>2, <2>1 DEF TypeOK
<1>5. \A r \in Requests : req'[r] = NoRequest
  BY <1>1
<1>6. TypeOK'
  <2>1. req' \in [Requests -> Request]
    BY <1>1, <1>2
  <2> QED BY <1>1, <1>2, <1>4, <2>1 DEF TypeOK
<1>7. \A c : PathsOf(c)' = PathsOf(c)
  BY <1>1 DEF PathsOf
<1>8. \A r \in Requests : Holds(r)' = {}
  BY <1>5, NoRequestFacts DEF Holds
<1>9. FilesAreServed'
  BY <1>1, <1>7 DEF FilesAreServed, IInv, DiskAgrees
<1>10. NoFileLeft'
  <2> SUFFICES ASSUME Quiet', NEW f \in files
               PROVE  \E c \in DOMAIN communities : f \in PathsOf(c)
    BY <1>1, <1>7 DEF NoFileLeft, Quiet
  <2>1. Quiet /\ failed' = {}
    BY <1>1, <1>4 DEF Quiet
  <2>2. \A r \in Requests : Holds(r) = {}
    <3> SUFFICES ASSUME NEW r \in Requests PROVE Holds(r) = {}
      OBVIOUS
    <3>1. ~Changes(req[r])
      BY <1>3, <2>1
    <3> QED BY <3>1, NoRequestFacts DEF IInv, Sound, Holds
  <2> QED BY <2>1, <2>2 DEF IInv, DiskAgrees, NoFileLeft, Quiet
<1>11. FilesHaveOneOwner'
  <2>1. /\ \A c \in DOMAIN communities' : Distinct(communities'[c]) /\ PathsOf(c)' \subseteq 1..used'
        /\ \A c, d \in DOMAIN communities' : \A f \in PathsOf(c)' : f \in PathsOf(d)' => c = d
    BY <1>1, <1>7 DEF FilesHaveOneOwner, IInv
  <2> QED BY <1>8, <2>1, Zenon DEF FilesHaveOneOwner
<1>12. OverlapsAreNoted'
  <2>1. \A r \in Requests : ~Changes(req'[r])
    BY <1>5, NoRequestFacts
  <2> QED BY <2>1 DEF OverlapsAreNoted, Changes
<1>13. unsure' \subseteq failed'
  BY <1>1, <1>4 DEF IInv
<1>14. Sound(NoRequest)' /\ KnowsTheRow(NoRequest)' /\ KnowsItsFate(NoRequest)'
  <2>1. Sound(NoRequest)'
    BY NoRequestFacts DEF Sound, Changes, StepsOf, Prepares, Finishes, Uploaded, Kinds
  <2> QED BY <2>1, NoRequestFacts DEF KnowsTheRow, KnowsItsFate, Finishes
<1>15. \A r \in Requests : Sound(req[r])' /\ KnowsTheRow(req[r])' /\ KnowsItsFate(req[r])'
  BY <1>5, <1>14
<1> QED BY <1>6, <1>9, <1>10, <1>11, <1>12, <1>13, <1>15 DEF IInv, DiskAgrees

LEMMA InitIInv == Init => IInv
<1> SUFFICES ASSUME Init PROVE IInv
  OBVIOUS
<1>1. /\ created = 0 /\ communities = <<>> /\ subs = {}
      /\ index = [c \in Ids |-> NoName]
      /\ files = {} /\ used = 0 /\ received = 0
      /\ overlapped = {} /\ unsure = {} /\ failed = {} /\ left = {}
      /\ \A r \in Requests : req[r] = NoRequest
      /\ req \in [Requests -> Request] /\ DOMAIN communities = {}
  BY NoRequestFacts DEF Init
<1>2. TypeOK
  BY <1>1, NullAssumption DEF TypeOK
<1>3. \A r \in Requests : Holds(r) = {}
  BY <1>1, NoRequestFacts DEF Holds
<1>4. FilesAreServed /\ NoFileLeft
  BY <1>1 DEF FilesAreServed, NoFileLeft
<1>5. FilesHaveOneOwner
  BY <1>1, <1>3 DEF FilesHaveOneOwner
<1>6. OverlapsAreNoted
  BY <1>1, NoRequestFacts DEF OverlapsAreNoted
<1>7. \A r \in Requests : Sound(req[r])
  BY <1>1, NoRequestFacts
<1>8. KnowsTheRow(NoRequest) /\ KnowsItsFate(NoRequest)
  BY NoRequestFacts DEF KnowsTheRow, KnowsItsFate, Finishes
<1>9. \A r \in Requests : KnowsTheRow(req[r]) /\ KnowsItsFate(req[r])
  BY <1>1, <1>8
<1> QED BY <1>1, <1>2, <1>4, <1>5, <1>6, <1>7, <1>9 DEF IInv, DiskAgrees

LEMMA NextIInv == IInv /\ [Next]_vars => IInv'
<1> SUFFICES ASSUME IInv, [Next]_vars PROVE IInv'
  OBVIOUS
<1>1. CASE Crash
  BY <1>1, CrashKeeps
<1>2. ASSUME NEW r \in Requests, Receive(r) PROVE IInv'
  BY <1>2, ReceiveKeeps
<1>3. ASSUME NEW r \in Requests, Step(r) PROVE IInv'
  BY <1>3, UpdateCommunityReadsKeeps, DeleteCommunityReadsKeeps, SubscribeReadsKeeps,
     SubscribeAsksForUserKeeps,
     UploadAvatarKeeps, UploadCoverKeeps, CreateCommunityKeeps, UpdateCommunityKeeps,
     DeleteCommunityKeeps, IndexCommunityKeeps, UpdateCommunityUnlinksKeeps,
     DeleteCommunityUnlinksKeeps, SubscribeCreatorKeeps, SubscribeKeeps, UnsubscribeKeeps
     DEF Step
<1>4. CASE UNCHANGED vars
  <2>1. /\ created' = created /\ communities' = communities /\ subs' = subs /\ index' = index
        /\ files' = files /\ req' = req /\ received' = received /\ used' = used
        /\ overlapped' = overlapped /\ unsure' = unsure /\ failed' = failed /\ left' = left
    BY <1>4 DEF vars, store, history
  <2>2. TypeOK' /\ FilesAreServed' /\ NoFileLeft'
    BY <2>1 DEF IInv, DiskAgrees, TypeOK, FilesAreServed, NoFileLeft, PathsOf, Holds
  <2>3. FilesHaveOneOwner'
    BY <2>1 DEF IInv, FilesHaveOneOwner, PathsOf, Holds
  <2>4. OverlapsAreNoted' /\ unsure' \subseteq failed'
    BY <2>1 DEF IInv, OverlapsAreNoted
  <2>5. \A r \in Requests : Sound(req[r])' /\ KnowsTheRow(req[r])' /\ KnowsItsFate(req[r])'
    BY <2>1 DEF IInv, Sound, KnowsTheRow, KnowsItsFate, Clear, Exists
  <2> QED BY <2>2, <2>3, <2>4, <2>5 DEF IInv, DiskAgrees
<1> QED BY <1>1, <1>2, <1>3, <1>4 DEF Next

LEMMA Invariance == Spec => []IInv
  BY InitIInv, NextIInv, PTL DEF Spec

-------------------------------------------------------------------------------
(* The theorems. *)

(* What a community names is on the disk, and nothing else stays there, in *)
(* spite of crashes, failed calls and requests that overlap: the handlers  *)
(* delete a file only after the row names another.                         *)
THEOREM CommunitiesAgreeWithDisk == Spec => []DiskAgrees
<1>1. IInv => DiskAgrees
  BY DEF IInv
<1> QED BY <1>1, Invariance, PTL

-------------------------------------------------------------------------------
(* The index and the subscriptions. *)

(* No step of r concerns other requests; histories grow. *)
Others(r) == \A s \in Requests \ {r} : req'[s] = req[s]

Grow ==
    overlapped \subseteq overlapped' /\ failed \subseteq failed' /\ left \subseteq left'

(* What IndexFollows and CreatorJoins say of one community. *)
ToIndex(r, c) == req[r].id = c /\ req[r].step = "index"

Follows(c) ==
    c \notin overlapped \cup failed =>
       IF \E r \in Requests : ToIndex(r, c)
         THEN \A r \in Requests : ToIndex(r, c) => Indexed(req[r]) = NameOf(c)
         ELSE index[c] = NameOf(c)

Joins(c) ==
    c \notin overlapped \cup failed =>
       \/ communities[c].creator \in GetCommunitySubscribers(c)
       \/ <<c, communities[c].creator>> \in left
       \/ \E r \in Requests : req[r].op = "create" /\ req[r].id = c

LEMMA OneByOne ==
    /\ IndexFollows <=> \A c \in 1..created : Follows(c)
    /\ CreatorJoins <=> \A c \in DOMAIN communities : Joins(c)
  BY DEF IndexFollows, CreatorJoins, Follows, Joins, ToIndex

LEMMA OneByOnePrimed ==
    /\ (\A c \in 1..created' : Follows(c)') => IndexFollows'
    /\ (\A c \in DOMAIN communities' : Joins(c)') => CreatorJoins'
  BY DEF IndexFollows, CreatorJoins, Follows, Joins, ToIndex

(* A community whose row, document and requests stay is found as before. *)
LEMMA FollowsSame ==
    ASSUME NEW c, Follows(c), overlapped \subseteq overlapped', failed \subseteq failed',
           index'[c] = index[c], NameOf(c)' = NameOf(c),
           \A s \in Requests : ToIndex(s, c) \/ ToIndex(s, c)' => req'[s] = req[s]
    PROVE  Follows(c)'
<1> SUFFICES ASSUME c \notin overlapped' \cup failed'
             PROVE  IF \E r \in Requests : ToIndex(r, c)'
                      THEN \A r \in Requests : ToIndex(r, c)' => Indexed(req[r])' = NameOf(c)'
                      ELSE index'[c] = NameOf(c)'
  BY DEF Follows
<1>1. \A s \in Requests : ToIndex(s, c)' <=> ToIndex(s, c)
  BY DEF ToIndex
<1>2. ASSUME NEW s \in Requests, ToIndex(s, c)
      PROVE  Indexed(req[s])' = Indexed(req[s])
  <2>1. req'[s] = req[s] /\ req[s].id = c
    BY <1>2 DEF ToIndex
  <2> QED BY <2>1 DEF Indexed
<1>3. IF \E r \in Requests : ToIndex(r, c)
        THEN \A r \in Requests : ToIndex(r, c) => Indexed(req[r]) = NameOf(c)
        ELSE index[c] = NameOf(c)
  BY DEF Follows
<1> QED BY <1>1, <1>2, <1>3

(* A community that has its creator among its subscribers keeps him, and   *)
(* one that is being created is so still.                                  *)
LEMMA JoinsSame ==
    ASSUME NEW c, Joins(c), Grow, communities'[c].creator = communities[c].creator,
           \A u \in Users : <<c, u>> \in subs => <<c, u>> \in subs' \cup left',
           \A s \in Requests : req[s].op = "create" /\ req[s].id = c =>
              req'[s].op = "create" /\ req'[s].id = c
    PROVE  Joins(c)'
  BY DEF Joins, Grow, GetCommunitySubscribers, IsSubscribed

(* A step of r that leaves rows and index alone. *)
LEMMA QuietStep ==
    ASSUME IInv, SInv, NEW r \in Requests, Others(r), Grow, created' = created,
           communities' = communities, index' = index,
           subs \subseteq subs' \cup left', \A s \in subs' : s \in subs \/ Exists(s[1]),
           req[r].step # "index", req'[r].step # "index",
           req[r].op = "create" => req[r].id = 0
    PROVE  SInv'
<1>1. ASSUME NEW c \in 1..created'
      PROVE  Follows(c)'
  <2>1. Follows(c)
    BY <1>1, OneByOne DEF SInv
  <2>2. NameOf(c)' = NameOf(c)
    BY DEF NameOf, Exists
  <2>3. \A s \in Requests : ToIndex(s, c) \/ ToIndex(s, c)' => req'[s] = req[s]
    BY DEF ToIndex, Others
  <2> QED BY <2>1, <2>2, <2>3, FollowsSame DEF Grow
<1>2. ASSUME NEW c \in DOMAIN communities'
      PROVE  Joins(c)'
  <2>1. Joins(c) /\ c # 0
    BY <1>2, OneByOne, Numbers DEF SInv
  <2>2. \A s \in Requests : req[s].op = "create" /\ req[s].id = c =>
           req'[s].op = "create" /\ req'[s].id = c
    BY <2>1 DEF Others
  <2>3. \A u \in Users : <<c, u>> \in subs => <<c, u>> \in subs' \cup left'
    OBVIOUS
  <2> QED BY <2>1, <2>2, <2>3, JoinsSame
<1>3. SubsAreLive'
  BY DEF SInv, SubsAreLive, Exists
<1> QED BY <1>1, <1>2, <1>3, OneByOnePrimed DEF SInv

(* Nobody else is about to index a community that r is about to write. *)
LEMMA AloneAtIndex ==
    ASSUME IInv, NEW r \in Requests, Changes(req[r]), NEW c, c # 0, c \notin overlapped,
           req[r].id = c \/ c = created + 1, NEW s \in Requests \ {r}
    PROVE  ~ToIndex(s, c)
<1> SUFFICES ASSUME req[s].id = c, req[s].step = "index" PROVE FALSE
  BY DEF ToIndex
<1>1. Changes(req[s])
  BY DEF IInv, Sound, StepsOf, Changes
<1>2. req[s].id # created + 1
  BY Numbers
<1> QED BY <1>1, <1>2 DEF IInv, OverlapsAreNoted

(* The request q of r has written the community c, and goes on to the      *)
(* index or has failed.                                                    *)
LEMMA IndexWritten ==
    ASSUME IInv, SInv, NEW r \in Requests, NEW q \in Request, q = req[r], q.step = "write",
           NEW x \in Request, x = req'[r], Others(r), NEW c,
           overlapped \subseteq overlapped', failed \subseteq failed', index' = index,
           \/ q.op = "create" /\ c = created + 1 /\ created' = created + 1
           \/ q.op \in {"update", "delete"} /\ c = q.id /\ created' = created,
           \A d \in 1..created \ {c} : NameOf(d)' = NameOf(d),
           c \notin failed' => x.step = "index",
           x.step = "index" => x.id = c /\ x.op = q.op /\ x.name = q.name,
           q.op = "update" => c \in DOMAIN communities,
           NameOf(c)' = IF q.op = "delete" THEN NoName ELSE q.name
    PROVE  IndexFollows'
<1>1. /\ created \in Nat /\ 1..created' \subseteq 1..created \cup {c} /\ Sound(q) /\ c # 0
      /\ Changes(req[r])
  BY Numbers DEF IInv, Sound, Prepares, Changes
<1>2. ASSUME NEW d \in 1..created', d # c
      PROVE  Follows(d)'
  <2>1. d \in 1..created /\ Follows(d) /\ NameOf(d)' = NameOf(d)
    BY <1>1, <1>2, OneByOne DEF SInv
  <2>2. \A s \in Requests : ToIndex(s, d) \/ ToIndex(s, d)' => req'[s] = req[s]
    BY <1>2 DEF ToIndex, Others
  <2> QED BY <2>1, <2>2, FollowsSame
<1>3. ASSUME c \notin overlapped' \cup failed'
      PROVE  Follows(c)'
  <2>1. x.step = "index" /\ x.id = c /\ x.op = q.op /\ x.name = q.name
    BY <1>3
  <2>2. \A s \in Requests \ {r} : ~ToIndex(s, c) /\ ~ToIndex(s, c)'
    <3>1. \A s \in Requests \ {r} : ~ToIndex(s, c)
      BY <1>1, <1>3, AloneAtIndex
    <3> QED BY <3>1 DEF ToIndex, Others
  <2>3. ToIndex(r, c)'
    BY <2>1 DEF ToIndex
  <2>4. q.op = "update" => index[c] # NoName
    <3> SUFFICES ASSUME q.op = "update" PROVE index[c] # NoName
      OBVIOUS
    <3>1. ~ToIndex(r, c) /\ c \in 1..created /\ c \notin overlapped \cup failed
      BY <1>3, Numbers DEF ToIndex
    <3>2. Follows(c)
      BY <3>1, OneByOne DEF SInv
    <3>3. index[c] = NameOf(c)
      BY <2>2, <3>1, <3>2 DEF Follows
    <3>4. NameOf(c) \in Names
      BY DEF NameOf, Exists, IInv, DiskAgrees, TypeOK, Row
    <3> QED BY <3>3, <3>4, NullAssumption
  <2>5. Indexed(req[r])' = NameOf(c)'
    <3>1. q.op \in {"create", "update", "delete"}
      OBVIOUS
    <3>2. Indexed(x)' = NameOf(c)'
      BY <2>1, <2>4, <3>1 DEF Indexed
    <3> QED BY <3>2
  <2> QED BY <2>2, <2>3, <2>5 DEF Follows
<1>4. Follows(c)'
  BY <1>3 DEF Follows
<1> QED BY <1>2, <1>4, OneByOnePrimed

(* The steps that leave rows and index alone. *)
LEMMA ReadsJoin ==
    ASSUME IInv, SInv, NEW r \in Requests,
           \/ UpdateCommunityReads(r) \/ DeleteCommunityReads(r)
           \/ SubscribeReads(r) \/ SubscribeAsksForUser(r)
    PROVE  SInv'
<1>q. PICK q \in Request : q = req[r]
  BY DEF IInv, DiskAgrees, TypeOK
<1>1. /\ created' = created /\ communities' = communities /\ index' = index /\ subs' = subs
      /\ overlapped' = overlapped /\ failed' = failed /\ left' = left
  BY DEF UpdateCommunityReads, DeleteCommunityReads, SubscribeReads, SubscribeAsksForUser,
     store, history
<1>2. q.step \in {"read", "user"} /\ q.op # "create"
  BY <1>q DEF UpdateCommunityReads, DeleteCommunityReads, SubscribeReads, SubscribeAsksForUser,
     IInv, Sound, StepsOf
<1>3. \E x : req' = [req EXCEPT ![r] = x] /\ x.step # "index"
  <2>1. ASSUME NEW step, step # "index", ReadOwnCommunity(r, step)
        PROVE  \E x : req' = [req EXCEPT ![r] = x] /\ x.step # "index"
    <3>p. PICK paths : paths = [avatar |-> communities[q.id].avatar, cover |-> communities[q.id].cover]
      OBVIOUS
    <3>x. PICK x : x = [q EXCEPT !.old = paths, !.new = paths, !.step = step]
      OBVIOUS
    <3>1. x.step = step
      BY <3>x DEF Request
    <3>2. \/ req' = [req EXCEPT ![r] = NoRequest]
          \/ req' = [req EXCEPT ![r].old = paths, ![r].new = paths, ![r].step = step]
      BY <1>q, <2>1, <3>p DEF ReadOwnCommunity, Refuse, Answer
    <3>3. req' = [req EXCEPT ![r] = NoRequest] \/ req' = [req EXCEPT ![r] = x]
      BY <1>q, <3>2, <3>x
    <3> QED BY <2>1, <3>1, <3>3, NoRequestFacts
  <2>2. CASE UpdateCommunityReads(r)
    BY <1>q, <2>1, <2>2 DEF UpdateCommunityReads, FirstUpload
  <2>3. CASE DeleteCommunityReads(r)
    BY <2>1, <2>3 DEF DeleteCommunityReads
  <2>4. CASE SubscribeReads(r) \/ SubscribeAsksForUser(r)
    <3>1. PICK step \in {"user", "subscribe"} : Goto(r, step) \/ req' = [req EXCEPT ![r] = NoRequest]
      BY <2>4, Zenon DEF SubscribeReads, SubscribeAsksForUser, Refuse, Answer
    <3>2. CASE req' = [req EXCEPT ![r] = NoRequest]
      BY <3>2, NoRequestFacts
    <3>3. CASE Goto(r, step)
      <4>1. req' = [req EXCEPT ![r] = [q EXCEPT !.step = step]]
        BY <1>q, <3>3 DEF Goto
      <4>2. [q EXCEPT !.step = step].step = step /\ step # "index"
        BY DEF Request
      <4> QED BY <4>1, <4>2
    <3> QED BY <3>1, <3>2, <3>3
  <2> QED BY <2>2, <2>3, <2>4
<1>4. Others(r) /\ req'[r].step # "index"
  BY <1>3 DEF Others, IInv, DiskAgrees, TypeOK
<1> QED BY <1>q, <1>1, <1>2, <1>4, QuietStep DEF Grow

LEMMA UploadsJoin ==
    ASSUME IInv, SInv, NEW r \in Requests, UploadAvatar(r) \/ UploadCover(r)
    PROVE  SInv'
<1>q. PICK q \in Request : q = req[r]
  BY DEF IInv, DiskAgrees, TypeOK
<1>1. /\ created' = created /\ communities' = communities /\ index' = index /\ subs' = subs
      /\ overlapped' = overlapped /\ left' = left
  BY DEF UploadAvatar, UploadCover, store
<1>2. failed \subseteq failed'
  BY DEF UploadAvatar, UploadCover, Unlink
<1>3. q.step \in {"avatar", "cover"}
  BY <1>q DEF UploadAvatar, UploadCover
<1>4. q.op = "create" => q.id = 0
  BY <1>q, <1>3 DEF IInv, Sound, Prepares
<1>5. \E x : req' = [req EXCEPT ![r] = x] /\ x.step # "index"
  <2>1. CASE req' = [req EXCEPT ![r] = NoRequest]
    BY <2>1, NoRequestFacts
  <2>2. ASSUME NEW f, NEW step, step # "index", NEW k \in Kinds,
               \/ k = "avatar" /\ req' = [req EXCEPT ![r].new.avatar = f, ![r].step = step]
               \/ k = "cover" /\ req' = [req EXCEPT ![r].new.cover = f, ![r].step = step]
        PROVE  \E x : req' = [req EXCEPT ![r] = x] /\ x.step # "index"
    <3>1. \/ req' = [req EXCEPT ![r] = [q EXCEPT !.new.avatar = f, !.step = step]]
          \/ req' = [req EXCEPT ![r] = [q EXCEPT !.new.cover = f, !.step = step]]
      BY <1>q, <2>2
    <3>2. /\ [q EXCEPT !.new.avatar = f, !.step = step].step = step
          /\ [q EXCEPT !.new.cover = f, !.step = step].step = step
      BY DEF Request
    <3> QED BY <2>2, <3>1, <3>2
  <2>3. CASE UploadAvatar(r)
    <3>1. \/ req' = [req EXCEPT ![r] = NoRequest]
          \/ \E f \in Files : req' = [req EXCEPT ![r].new.avatar = f,
                ![r].step = IF "cover" \in req[r].sent THEN "cover" ELSE "write"]
      BY <2>3, Zenon DEF UploadAvatar, Refuse, Answer
    <3> QED BY <2>1, <2>2, <3>1 DEF Kinds
  <2>4. CASE UploadCover(r)
    <3>1. \/ req' = [req EXCEPT ![r] = NoRequest]
          \/ \E f \in Files : req' = [req EXCEPT ![r].new.cover = f, ![r].step = "write"]
      BY <2>4, Zenon DEF UploadCover, Refuse, Answer
    <3> QED BY <2>1, <2>2, <3>1 DEF Kinds
  <2> QED BY <2>3, <2>4
<1>6. Others(r) /\ req'[r].step # "index"
  BY <1>5 DEF Others, IInv, DiskAgrees, TypeOK
<1> QED BY <1>q, <1>1, <1>2, <1>3, <1>4, <1>6, QuietStep DEF Grow

(* A request that ends without having touched the rows. *)
LEMMA EndsJoin ==
    ASSUME IInv, SInv, NEW r \in Requests, req' = [req EXCEPT ![r] = NoRequest], Grow,
           created' = created, communities' = communities, index' = index,
           subs \subseteq subs' \cup left', \A s \in subs' : s \in subs \/ Exists(s[1]),
           req[r].step # "index", req[r].op = "create" => req[r].id = 0
    PROVE  SInv'
<1>1. Others(r) /\ req'[r].step # "index"
  BY NoRequestFacts DEF Others, IInv, DiskAgrees, TypeOK
<1> QED BY <1>1, QuietStep

LEMMA UnlinksJoin ==
    ASSUME IInv, SInv, NEW r \in Requests,
           UpdateCommunityUnlinks(r) \/ DeleteCommunityUnlinks(r)
    PROVE  SInv'
<1>1. /\ created' = created /\ communities' = communities /\ index' = index /\ subs' = subs
      /\ overlapped' = overlapped /\ left' = left /\ req' = [req EXCEPT ![r] = NoRequest]
      /\ req[r].step = "unlink" /\ req[r].op # "create"
  BY DEF UpdateCommunityUnlinks, DeleteCommunityUnlinks, store, Answer
<1>2. failed \subseteq failed'
  BY DEF UpdateCommunityUnlinks, DeleteCommunityUnlinks, Unlink
<1> QED BY <1>1, <1>2, EndsJoin DEF Grow

LEMMA SubscribeJoins ==
    ASSUME IInv, SInv, NEW r \in Requests, Subscribe(r)
    PROVE  SInv'
<1>1. /\ created' = created /\ communities' = communities /\ index' = index
      /\ overlapped' = overlapped /\ left' = left /\ failed' = failed /\ req' = [req EXCEPT ![r] = NoRequest]
      /\ req[r].step = "subscribe" /\ req[r].op = "subscribe"
      /\ \E err : InsertSubscription(<<req[r].id, req[r].user>>, err)
  BY Zenon DEF Subscribe, Answer, Refuse, history
<1>2. subs \subseteq subs'
      /\ \A s \in subs' : s \in subs \/ Exists(s[1])
  BY <1>1 DEF InsertSubscription
<1> QED BY <1>1, <1>2, EndsJoin DEF Grow

LEMMA UnsubscribeJoins ==
    ASSUME IInv, SInv, NEW r \in Requests, Unsubscribe(r)
    PROVE  SInv'
<1>1. /\ created' = created /\ communities' = communities /\ index' = index
      /\ overlapped' = overlapped /\ failed' = failed /\ req' = [req EXCEPT ![r] = NoRequest]
      /\ req[r].step = "unsubscribe"
      /\ \E err : DeleteSubscription(<<req[r].id, req[r].user>>, err)
  BY Zenon DEF Unsubscribe, Answer, Refuse
<1>2. left \subseteq left' /\ subs \subseteq subs' \cup left' /\ subs' \subseteq subs
  BY <1>1 DEF DeleteSubscription
<1>3. req[r].op # "create"
  BY <1>1 DEF IInv, Sound, StepsOf
<1> QED BY <1>1, <1>2, <1>3, EndsJoin DEF Grow

LEMMA ArriveJoins ==
    ASSUME IInv, SInv, NEW r \in Requests, NEW q, New(q), Arrive(r, q)
    PROVE  SInv'
<1>s. PICK step : step = FirstStep(q)
  OBVIOUS
<1>1. /\ created' = created /\ communities' = communities /\ index' = index /\ subs' = subs
      /\ failed' = failed /\ left' = left /\ overlapped \subseteq overlapped'
      /\ req[r].step = "idle" /\ req' = [req EXCEPT ![r] = [q EXCEPT !.step = step]]
  BY <1>s DEF Arrive, Busy, store
<1>2. step # "index"
  BY <1>s DEF FirstStep, FirstUpload
<1>3. [q EXCEPT !.step = step].step = step
  BY DEF New, Request
<1>4. Others(r) /\ req'[r].step # "index"
  BY <1>1, <1>2, <1>3 DEF Others, IInv, DiskAgrees, TypeOK
<1>5. req[r].op # "create"
  BY <1>1 DEF IInv, Sound, StepsOf
<1> QED BY <1>1, <1>4, <1>5, QuietStep DEF Grow

(* The steps that write to the index, or end the creation. *)
LEMMA SubscribeCreatorJoins ==
    ASSUME IInv, SInv, NEW r \in Requests, SubscribeCreator(r)
    PROVE  SInv'
<1>q. PICK q \in Request : q = req[r]
  BY DEF IInv, DiskAgrees, TypeOK
<1>1. /\ created' = created /\ communities' = communities /\ index' = index
      /\ overlapped' = overlapped /\ left' = left /\ req' = [req EXCEPT ![r] = NoRequest]
      /\ q.step = "subscribe" /\ q.op = "create"
      /\ failed' = IF <<q.id, q.user>> \in subs' THEN failed ELSE failed \cup {q.id}
      /\ \E err : InsertSubscription(<<q.id, q.user>>, err)
  BY <1>q, Zenon DEF SubscribeCreator, Answer
<1>2. /\ failed \subseteq failed' /\ subs \subseteq subs'
      /\ \A s \in subs' : s \in subs \/ Exists(s[1])
      /\ <<q.id, q.user>> \in subs' \/ q.id \in failed'
  BY <1>1 DEF InsertSubscription
<1>3. Others(r) /\ req'[r].step # "index" /\ Grow
  BY <1>1, <1>2, NoRequestFacts DEF Others, Grow, IInv, DiskAgrees, TypeOK
<1>4. ASSUME NEW c \in 1..created'
      PROVE  Follows(c)'
  <2>1. Follows(c)
    BY <1>1, <1>4, OneByOne DEF SInv
  <2>2. NameOf(c)' = NameOf(c)
    BY <1>1 DEF NameOf, Exists
  <2>3. \A s \in Requests : ToIndex(s, c) \/ ToIndex(s, c)' => req'[s] = req[s]
    BY <1>q, <1>1, <1>3 DEF ToIndex, Others
  <2> QED BY <1>1, <1>3, <2>1, <2>2, <2>3, FollowsSame DEF Grow
<1>5. ASSUME NEW c \in DOMAIN communities'
      PROVE  Joins(c)'
  <2>1. Joins(c)
    BY <1>1, <1>5, OneByOne DEF SInv
  <2>2. CASE c = q.id
    <3>1. communities[c].creator = q.user /\ q.user \in Users
      BY <1>q, <1>1, <1>5, <2>2 DEF IInv, KnowsItsFate, Finishes, Exists, Sound
    <3> QED BY <1>1, <1>2, <2>2, <3>1 DEF Joins, GetCommunitySubscribers, IsSubscribed
  <2>3. CASE c # q.id
    <3>1. \A s \in Requests : req[s].op = "create" /\ req[s].id = c =>
             req'[s].op = "create" /\ req'[s].id = c
      BY <1>q, <1>3, <2>3 DEF Others
    <3>2. \A u \in Users : <<c, u>> \in subs => <<c, u>> \in subs' \cup left'
      BY <1>2
    <3> QED BY <1>1, <1>3, <2>1, <3>1, <3>2, JoinsSame
  <2> QED BY <2>2, <2>3
<1>6. SubsAreLive'
  BY <1>1, <1>2 DEF SInv, SubsAreLive, Exists
<1> QED BY <1>4, <1>5, <1>6, OneByOnePrimed DEF SInv

LEMMA IndexCommunityJoins ==
    ASSUME IInv, SInv, NEW r \in Requests, IndexCommunity(r)
    PROVE  SInv'
<1>q. PICK q \in Request : q = req[r]
  BY DEF IInv, DiskAgrees, TypeOK
<1>n. PICK n : n = Indexed(q)
  OBVIOUS
<1>s. PICK step : step = IF q.op = "create" THEN "subscribe" ELSE "unlink"
  OBVIOUS
<1>x. PICK x : x = [q EXCEPT !.step = step]
  OBVIOUS
<1>1. /\ created' = created /\ communities' = communities /\ subs' = subs
      /\ overlapped' = overlapped /\ left' = left /\ req' = [req EXCEPT ![r] = x]
      /\ q.step = "index"
      /\ \/ index' = [index EXCEPT ![q.id] = n] /\ failed' = failed
         \/ failed' = failed \cup {q.id} /\ index' = index
  <2>1. /\ q.step = "index" /\ Goto(r, step)
        /\ \/ index' = [index EXCEPT ![q.id] = n] /\ failed' = failed
           \/ failed' = failed \cup {q.id} /\ index' = index
        /\ UNCHANGED <<store, files, used, overlapped, unsure, left, received>>
    BY <1>q, <1>n, <1>s, Zenon DEF IndexCommunity
  <2>2. req' = [req EXCEPT ![r] = x]
    BY <1>q, <1>x, <2>1 DEF Goto
  <2> QED BY <2>1, <2>2 DEF store
<1>2. x.step = step /\ x.step # "index" /\ x.id = q.id /\ x.op = q.op
  BY <1>s, <1>x DEF Request
<1>3. Others(r) /\ req'[r] = x /\ Grow
  BY <1>1 DEF Others, Grow, IInv, DiskAgrees, TypeOK
<1>4. Changes(q) /\ q.id \in 1..created /\ q.id # 0 /\ 1..created \subseteq Ids
  BY <1>q, <1>1, Numbers DEF IInv, Sound, StepsOf, Changes, Prepares
<1>5. ASSUME NEW c \in 1..created'
      PROVE  Follows(c)'
  <2>1. Follows(c)
    BY <1>1, <1>5, OneByOne DEF SInv
  <2>2. NameOf(c)' = NameOf(c)
    BY <1>1 DEF NameOf, Exists
  <2>3. CASE c # q.id
    <3>1. \A s \in Requests : ToIndex(s, c) \/ ToIndex(s, c)' => req'[s] = req[s]
      BY <1>q, <1>2, <1>3, <2>3 DEF ToIndex, Others
    <3>2. index'[c] = index[c]
      BY <1>1, <1>4, <2>3 DEF IInv, DiskAgrees, TypeOK
    <3> QED BY <1>3, <2>1, <2>2, <3>1, <3>2, FollowsSame DEF Grow
  <2>4. CASE c = q.id
    <3> SUFFICES ASSUME c \notin overlapped' \cup failed' PROVE Follows(c)'
      BY DEF Follows
    <3>1. \A s \in Requests \ {r} : ~ToIndex(s, c)
      BY <1>q, <1>1, <1>4, <2>4, AloneAtIndex
    <3>2. \A s \in Requests : ~ToIndex(s, c)'
      BY <1>2, <1>3, <3>1 DEF ToIndex, Others
    <3>3. ToIndex(r, c) /\ c \notin overlapped \cup failed
      BY <1>q, <1>1, <1>3, <2>4 DEF ToIndex, Grow
    <3>4. n = NameOf(c)
      BY <1>q, <1>n, <2>1, <3>3 DEF Follows
    <3>5. index'[c] = n
      BY <1>1, <1>4, <2>4 DEF IInv, DiskAgrees, TypeOK
    <3> QED BY <2>2, <3>2, <3>4, <3>5 DEF Follows
  <2> QED BY <2>3, <2>4
<1>6. ASSUME NEW c \in DOMAIN communities'
      PROVE  Joins(c)'
  <2>1. Joins(c)
    BY <1>1, <1>6, OneByOne DEF SInv
  <2>2. \A s \in Requests : req[s].op = "create" /\ req[s].id = c =>
           req'[s].op = "create" /\ req'[s].id = c
    BY <1>q, <1>2, <1>3 DEF Others
  <2>3. \A u \in Users : <<c, u>> \in subs => <<c, u>> \in subs' \cup left'
    BY <1>1
  <2> QED BY <1>1, <1>3, <2>1, <2>2, <2>3, JoinsSame
<1>7. SubsAreLive'
  BY <1>1 DEF SInv, SubsAreLive, Exists
<1> QED BY <1>5, <1>6, <1>7, OneByOnePrimed DEF SInv

(* A request that ends adds to the communities that were not finished. *)
LEMMA CleanUpFacts ==
    ASSUME NEW r \in Requests
    PROVE  /\ CleanUp(r) => req' = [req EXCEPT ![r] = NoRequest] /\ failed \subseteq failed'
           /\ \A c : CleanUpApplied(r, c) =>
                 req' = [req EXCEPT ![r] = NoRequest] /\ failed' = failed \cup {c}
  BY DEF CleanUp, CleanUpApplied, Refuse, Answer, Unlink

LEMMA CreateCommunityJoins ==
    ASSUME IInv, SInv, NEW r \in Requests, CreateCommunity(r)
    PROVE  SInv'
<1>q. PICK q \in Request : q = req[r]
  BY DEF IInv, DiskAgrees, TypeOK
<1>c. PICK c : c = created + 1
  OBVIOUS
<1>1. /\ q.step = "write" /\ q.op = "create"
      /\ \/ /\ created < MaxCommunities /\ created' = c
            /\ communities' = [d \in DOMAIN communities \cup {c} |->
                                   IF d = c THEN NewRow(q) ELSE communities[d]]
            /\ \/ /\ req' = [req EXCEPT ![r].id = c, ![r].step = "index"]
                  /\ files' = files /\ unsure' = unsure /\ failed' = failed
               \/ CleanUpApplied(r, c)
         \/ CleanUp(r) /\ created' = created /\ communities' = communities /\ unsure' = unsure
      /\ subs' = subs /\ index' = index /\ used' = used /\ overlapped' = overlapped
      /\ left' = left /\ received' = received
  BY <1>q, <1>c, Zenon DEF CreateCommunity
<1>2. req \in [Requests -> Request] /\ NoRequest \in Request /\ q.id = 0
  BY <1>q, <1>1, NoRequestFacts DEF IInv, DiskAgrees, TypeOK, Sound, Prepares
<1>3. CASE CleanUp(r) /\ created' = created /\ communities' = communities /\ unsure' = unsure
  <2>1. req' = [req EXCEPT ![r] = NoRequest] /\ failed \subseteq failed'
    BY <1>3, CleanUpFacts
  <2>2. /\ Grow /\ index' = index /\ created' = created /\ communities' = communities
        /\ subs \subseteq subs' \cup left' /\ \A s \in subs' : s \in subs \/ Exists(s[1])
        /\ req[r].step # "index" /\ (req[r].op = "create" => req[r].id = 0)
    BY <1>q, <1>1, <1>2, <1>3, <2>1 DEF Grow
  <2> QED BY <2>1, <2>2, EndsJoin
<1>4. CASE /\ created < MaxCommunities /\ created' = c
           /\ communities' = [d \in DOMAIN communities \cup {c} |->
                                   IF d = c THEN NewRow(q) ELSE communities[d]]
           /\ \/ /\ req' = [req EXCEPT ![r].id = c, ![r].step = "index"]
                 /\ files' = files /\ unsure' = unsure /\ failed' = failed
              \/ CleanUpApplied(r, c)
  <2>1. /\ DOMAIN communities' = DOMAIN communities \cup {c} /\ c \notin DOMAIN communities
        /\ communities'[c] = NewRow(q)
        /\ \A d \in DOMAIN communities : communities'[d] = communities[d]
        /\ c \in 0..MaxCommunities /\ c # 0
    <3>1. c \notin DOMAIN communities /\ c \in 0..MaxCommunities /\ c # 0
      BY <1>c, <1>4, Numbers, NullAssumption
    <3> QED BY <1>4, <3>1
  <2>2. \E x \in Request :
           /\ req' = [req EXCEPT ![r] = x] /\ failed \subseteq failed'
           /\ (c \notin failed' => x.step = "index")
           /\ (x.step = "index" => x.id = c /\ x.op = q.op /\ x.name = q.name)
    <3>1. CASE CleanUpApplied(r, c)
      <4>1. req' = [req EXCEPT ![r] = NoRequest] /\ failed' = failed \cup {c}
        BY <3>1, CleanUpFacts
      <4> QED BY <1>2, <4>1, NoRequestFacts
    <3>2. CASE /\ req' = [req EXCEPT ![r].id = c, ![r].step = "index"]
               /\ failed' = failed
      <4>x. PICK x \in Request : x = [q EXCEPT !.id = c, !.step = "index"]
        BY <2>1 DEF Request, Steps
      <4>1. req' = [req EXCEPT ![r] = x]
        BY <1>q, <3>2, <4>x
      <4>2. x.step = "index" /\ x.id = c /\ x.op = q.op /\ x.name = q.name
        BY <4>x DEF Request
      <4> QED BY <3>2, <4>1, <4>2
    <3> QED BY <1>4, <3>1, <3>2
  <2>x. PICK x \in Request :
           /\ req' = [req EXCEPT ![r] = x] /\ failed \subseteq failed'
           /\ (c \notin failed' => x.step = "index")
           /\ (x.step = "index" => x.id = c /\ x.op = q.op /\ x.name = q.name)
    BY <2>2
  <2>3. x = req'[r] /\ Others(r) /\ Grow
    BY <1>1, <1>2, <2>x DEF Others, Grow
  <2>4. IndexFollows'
    <3>1. /\ overlapped \subseteq overlapped' /\ failed \subseteq failed' /\ index' = index
          /\ \/ q.op = "create" /\ c = created + 1 /\ created' = created + 1
             \/ q.op \in {"update", "delete"} /\ c = q.id /\ created' = created
      BY <1>c, <1>1, <1>4, <2>x
    <3>2. \A d \in 1..created \ {c} : NameOf(d)' = NameOf(d)
      BY <2>1 DEF NameOf, Exists
    <3>3. NameOf(c)' = IF q.op = "delete" THEN NoName ELSE q.name
      BY <1>1, <2>1 DEF NameOf, Exists, NewRow
    <3>4. /\ (c \notin failed' => x.step = "index")
          /\ (x.step = "index" => x.id = c /\ x.op = q.op /\ x.name = q.name)
          /\ (q.op = "update" => c \in DOMAIN communities)
      BY <1>1, <2>x
    <3> QED BY <1>q, <1>1, <2>x, <2>3, <3>1, <3>2, <3>3, <3>4, IndexWritten
  <2>5. ASSUME NEW d \in DOMAIN communities'
        PROVE  Joins(d)'
    <3>1. CASE d = c
      BY <1>1, <2>x, <2>3, <3>1 DEF Joins
    <3>2. CASE d # c
      <4>1. d \in DOMAIN communities /\ Joins(d) /\ d # 0 /\ communities'[d].creator = communities[d].creator
        BY <2>1, <2>5, <3>2, OneByOne, Numbers DEF SInv
      <4>2. \A s \in Requests : req[s].op = "create" /\ req[s].id = d =>
               req'[s].op = "create" /\ req'[s].id = d
        BY <1>q, <1>2, <2>3, <4>1 DEF Others
      <4>3. \A u \in Users : <<d, u>> \in subs => <<d, u>> \in subs' \cup left'
        BY <1>1
      <4> QED BY <2>3, <4>1, <4>2, <4>3, JoinsSame
    <3> QED BY <3>1, <3>2
  <2>6. SubsAreLive'
    BY <1>1, <2>1 DEF SInv, SubsAreLive, Exists
  <2> QED BY <2>4, <2>5, <2>6, OneByOnePrimed DEF SInv
<1> QED BY <1>1, <1>3, <1>4, Zenon

LEMMA UpdateCommunityJoins ==
    ASSUME IInv, SInv, NEW r \in Requests, UpdateCommunity(r)
    PROVE  SInv'
<1>q. PICK q \in Request : q = req[r]
  BY DEF IInv, DiskAgrees, TypeOK
<1>c. PICK c : c = q.id
  OBVIOUS
<1>1. /\ q.step = "write" /\ q.op = "update"
      /\ \/ /\ c \in DOMAIN communities /\ communities[c].creator = q.user
            /\ communities' = [communities EXCEPT ![c] = NewRow(q)]
            /\ \/ /\ Goto(r, "index")
                  /\ files' = files /\ unsure' = unsure /\ failed' = failed
               \/ CleanUpApplied(r, c)
         \/ CleanUp(r) /\ communities' = communities /\ unsure' = unsure
      /\ subs' = subs /\ index' = index /\ used' = used /\ overlapped' = overlapped
      /\ left' = left /\ received' = received /\ created' = created
  BY <1>q, <1>c, Zenon DEF UpdateCommunity, Exists
<1>2. req \in [Requests -> Request] /\ NoRequest \in Request
  BY NoRequestFacts DEF IInv, DiskAgrees, TypeOK
<1>3. CASE CleanUp(r) /\ communities' = communities /\ unsure' = unsure
  <2>1. req' = [req EXCEPT ![r] = NoRequest] /\ failed \subseteq failed'
    BY <1>3, CleanUpFacts
  <2>2. /\ Grow /\ index' = index /\ created' = created /\ communities' = communities
        /\ subs \subseteq subs' \cup left' /\ \A s \in subs' : s \in subs \/ Exists(s[1])
        /\ req[r].step # "index" /\ (req[r].op = "create" => req[r].id = 0)
    BY <1>q, <1>1, <1>3, <2>1 DEF Grow
  <2> QED BY <2>1, <2>2, EndsJoin
<1>4. CASE /\ c \in DOMAIN communities /\ communities[c].creator = q.user
           /\ communities' = [communities EXCEPT ![c] = NewRow(q)]
           /\ \/ /\ Goto(r, "index")
                 /\ files' = files /\ unsure' = unsure /\ failed' = failed
              \/ CleanUpApplied(r, c)
  <2>1. /\ DOMAIN communities' = DOMAIN communities /\ c \in DOMAIN communities
        /\ communities'[c] = NewRow(q)
        /\ \A d \in DOMAIN communities \ {c} : communities'[d] = communities[d]
        /\ communities'[c].creator = communities[c].creator
    <3>1. NewRow(q).creator = q.user
      BY DEF NewRow
    <3> QED BY <1>4, <3>1
  <2>2. \E x \in Request :
           /\ req' = [req EXCEPT ![r] = x] /\ failed \subseteq failed'
           /\ (c \notin failed' => x.step = "index")
           /\ (x.step = "index" => x.id = c /\ x.op = q.op /\ x.name = q.name)
    <3>1. CASE CleanUpApplied(r, c)
      <4>1. req' = [req EXCEPT ![r] = NoRequest] /\ failed' = failed \cup {c}
        BY <3>1, CleanUpFacts
      <4> QED BY <1>2, <4>1, NoRequestFacts
    <3>2. CASE Goto(r, "index") /\ failed' = failed
      <4>x. PICK x \in Request : x = [q EXCEPT !.step = "index"]
        BY DEF Request, Steps
      <4>1. req' = [req EXCEPT ![r] = x]
        BY <1>q, <3>2, <4>x DEF Goto
      <4>2. x.step = "index" /\ x.id = c /\ x.op = q.op /\ x.name = q.name
        BY <1>c, <4>x DEF Request
      <4> QED BY <3>2, <4>1, <4>2
    <3> QED BY <1>4, <3>1, <3>2
  <2>x. PICK x \in Request :
           /\ req' = [req EXCEPT ![r] = x] /\ failed \subseteq failed'
           /\ (c \notin failed' => x.step = "index")
           /\ (x.step = "index" => x.id = c /\ x.op = q.op /\ x.name = q.name)
    BY <2>2
  <2>3. x = req'[r] /\ Others(r) /\ Grow
    BY <1>1, <1>2, <2>x DEF Others, Grow
  <2>4. IndexFollows'
    <3>1. /\ overlapped \subseteq overlapped' /\ failed \subseteq failed' /\ index' = index
          /\ \/ q.op = "create" /\ c = created + 1 /\ created' = created + 1
             \/ q.op \in {"update", "delete"} /\ c = q.id /\ created' = created
      BY <1>c, <1>1, <2>x
    <3>2. \A d \in 1..created \ {c} : NameOf(d)' = NameOf(d)
      BY <2>1 DEF NameOf, Exists
    <3>3. NameOf(c)' = IF q.op = "delete" THEN NoName ELSE q.name
      BY <1>1, <2>1 DEF NameOf, Exists, NewRow
    <3>4. /\ (c \notin failed' => x.step = "index")
          /\ (x.step = "index" => x.id = c /\ x.op = q.op /\ x.name = q.name)
          /\ (q.op = "update" => c \in DOMAIN communities)
      BY <2>1, <2>x
    <3> QED BY <1>q, <1>1, <2>x, <2>3, <3>1, <3>2, <3>3, <3>4, IndexWritten
  <2>5. ASSUME NEW d \in DOMAIN communities'
        PROVE  Joins(d)'
    <3>1. d \in DOMAIN communities /\ Joins(d) /\ communities'[d].creator = communities[d].creator
      BY <2>1, <2>5, OneByOne DEF SInv
    <3>2. \A s \in Requests : req[s].op = "create" /\ req[s].id = d =>
             req'[s].op = "create" /\ req'[s].id = d
      BY <1>q, <1>1, <2>3 DEF Others
    <3>3. \A u \in Users : <<d, u>> \in subs => <<d, u>> \in subs' \cup left'
      BY <1>1
    <3> QED BY <2>3, <3>1, <3>2, <3>3, JoinsSame
  <2>6. SubsAreLive'
    BY <1>1, <2>1 DEF SInv, SubsAreLive, Exists
  <2> QED BY <2>4, <2>5, <2>6, OneByOnePrimed DEF SInv
<1> QED BY <1>1, <1>3, <1>4, Zenon

LEMMA DeleteCommunityJoins ==
    ASSUME IInv, SInv, NEW r \in Requests, DeleteCommunity(r)
    PROVE  SInv'
<1>q. PICK q \in Request : q = req[r]
  BY DEF IInv, DiskAgrees, TypeOK
<1>c. PICK c : c = q.id
  OBVIOUS
<1>1. /\ q.step = "write" /\ q.op = "delete"
      /\ \/ /\ c \in DOMAIN communities
            /\ communities' = [d \in DOMAIN communities \ {c} |-> communities[d]]
            /\ subs' = {s \in subs : s[1] # c}
            /\ \/ Goto(r, "index") /\ unsure' = unsure /\ failed' = failed
               \/ /\ req' = [req EXCEPT ![r] = NoRequest]
                  /\ unsure' = unsure \cup {c} /\ failed' = failed \cup {c}
         \/ /\ req' = [req EXCEPT ![r] = NoRequest] /\ communities' = communities /\ subs' = subs
            /\ unsure' = unsure /\ failed' = failed
      /\ created' = created /\ files' = files /\ index' = index /\ used' = used
      /\ overlapped' = overlapped /\ left' = left /\ received' = received
  BY <1>q, <1>c, Zenon DEF DeleteCommunity, Exists, Refuse, Answer
<1>2. req \in [Requests -> Request] /\ NoRequest \in Request
  BY NoRequestFacts DEF IInv, DiskAgrees, TypeOK
<1>3. CASE /\ req' = [req EXCEPT ![r] = NoRequest] /\ communities' = communities /\ subs' = subs
           /\ unsure' = unsure /\ failed' = failed
  <2>2. /\ Grow /\ index' = index /\ created' = created /\ communities' = communities
        /\ subs \subseteq subs' \cup left' /\ \A s \in subs' : s \in subs \/ Exists(s[1])
        /\ req[r].step # "index" /\ (req[r].op = "create" => req[r].id = 0)
    BY <1>q, <1>1, <1>3 DEF Grow
  <2> QED BY <1>3, <2>2, EndsJoin
<1>4. CASE /\ c \in DOMAIN communities
           /\ communities' = [d \in DOMAIN communities \ {c} |-> communities[d]]
           /\ subs' = {s \in subs : s[1] # c}
           /\ \/ Goto(r, "index") /\ unsure' = unsure /\ failed' = failed
              \/ /\ req' = [req EXCEPT ![r] = NoRequest]
                 /\ unsure' = unsure \cup {c} /\ failed' = failed \cup {c}
  <2>1. /\ DOMAIN communities' = DOMAIN communities \ {c}
        /\ \A d \in DOMAIN communities \ {c} : communities'[d] = communities[d]
    BY <1>4
  <2>2. \E x \in Request :
           /\ req' = [req EXCEPT ![r] = x] /\ failed \subseteq failed'
           /\ (c \notin failed' => x.step = "index")
           /\ (x.step = "index" => x.id = c /\ x.op = q.op /\ x.name = q.name)
    <3>1. CASE req' = [req EXCEPT ![r] = NoRequest] /\ failed' = failed \cup {c}
      BY <1>2, <3>1, NoRequestFacts
    <3>2. CASE Goto(r, "index") /\ failed' = failed
      <4>x. PICK x \in Request : x = [q EXCEPT !.step = "index"]
        BY DEF Request, Steps
      <4>1. req' = [req EXCEPT ![r] = x]
        BY <1>q, <3>2, <4>x DEF Goto
      <4>2. x.step = "index" /\ x.id = c /\ x.op = q.op /\ x.name = q.name
        BY <1>c, <4>x DEF Request
      <4> QED BY <3>2, <4>1, <4>2
    <3> QED BY <1>4, <3>1, <3>2
  <2>x. PICK x \in Request :
           /\ req' = [req EXCEPT ![r] = x] /\ failed \subseteq failed'
           /\ (c \notin failed' => x.step = "index")
           /\ (x.step = "index" => x.id = c /\ x.op = q.op /\ x.name = q.name)
    BY <2>2
  <2>3. x = req'[r] /\ Others(r) /\ Grow
    BY <1>1, <1>2, <2>x DEF Others, Grow
  <2>4. IndexFollows'
    <3>1. /\ overlapped \subseteq overlapped' /\ failed \subseteq failed' /\ index' = index
          /\ \/ q.op = "create" /\ c = created + 1 /\ created' = created + 1
             \/ q.op \in {"update", "delete"} /\ c = q.id /\ created' = created
      BY <1>c, <1>1, <2>x
    <3>2. \A d \in 1..created \ {c} : NameOf(d)' = NameOf(d)
      BY <2>1 DEF NameOf, Exists
    <3>3. NameOf(c)' = IF q.op = "delete" THEN NoName ELSE q.name
      BY <1>1, <2>1 DEF NameOf, Exists
    <3>4. /\ (c \notin failed' => x.step = "index")
          /\ (x.step = "index" => x.id = c /\ x.op = q.op /\ x.name = q.name)
          /\ (q.op = "update" => c \in DOMAIN communities)
      BY <1>1, <2>x
    <3> QED BY <1>q, <1>1, <2>x, <2>3, <3>1, <3>2, <3>3, <3>4, IndexWritten
  <2>5. ASSUME NEW d \in DOMAIN communities'
        PROVE  Joins(d)'
    <3>1. /\ d \in DOMAIN communities /\ d # c /\ Joins(d)
          /\ communities'[d].creator = communities[d].creator
      BY <2>1, <2>5, OneByOne DEF SInv
    <3>2. \A s \in Requests : req[s].op = "create" /\ req[s].id = d =>
             req'[s].op = "create" /\ req'[s].id = d
      BY <1>q, <1>1, <2>3 DEF Others
    <3>3. \A u \in Users : <<d, u>> \in subs => <<d, u>> \in subs' \cup left'
      BY <1>4, <3>1
    <3> QED BY <2>3, <3>1, <3>2, <3>3, JoinsSame
  <2>6. SubsAreLive'
    BY <1>4, <2>1 DEF SInv, SubsAreLive, Exists
  <2> QED BY <2>4, <2>5, <2>6, OneByOnePrimed DEF SInv
<1> QED BY <1>1, <1>3, <1>4, Zenon

(* Everything else. *)
LEMMA ReceiveJoins ==
    ASSUME IInv, SInv, NEW r \in Requests, Receive(r)
    PROVE  SInv'
<1>0. \A c \in 1..created : c \in 0..MaxCommunities
  BY Numbers, NullAssumption
<1>1. CASE CreateCommunityHandler(r)
  <2>1. PICK u \in Users, n \in Names, s \in SUBSET {"avatar", "cover"} :
           Arrive(r, [NoRequest EXCEPT !.op = "create", !.user = u, !.name = n, !.sent = s])
    BY <1>1 DEF CreateCommunityHandler
  <2>q. PICK q : q = [NoRequest EXCEPT !.op = "create", !.user = u, !.name = n, !.sent = s]
    OBVIOUS
  <2>2. New(q)
    BY <2>q, NoRequestFacts DEF New, Request, Ops
  <2> QED BY <2>1, <2>q, <2>2, ArriveJoins
<1>2. CASE UpdateCommunityHandler(r)
  <2>1. PICK u \in Users, c \in 1..created, n \in Names, s \in SUBSET {"avatar", "cover"} :
           Arrive(r, [NoRequest EXCEPT !.op = "update", !.user = u, !.id = c, !.name = n, !.sent = s])
    BY <1>2 DEF UpdateCommunityHandler
  <2>q. PICK q : q = [NoRequest EXCEPT !.op = "update", !.user = u, !.id = c, !.name = n, !.sent = s]
    OBVIOUS
  <2>2. New(q)
    BY <1>0, <2>q, NoRequestFacts DEF New, Request, Ops
  <2> QED BY <2>1, <2>q, <2>2, ArriveJoins
<1>3. ASSUME NEW op \in {"delete", "subscribe", "unsubscribe"}, NEW u \in Users, NEW c \in 1..created,
             Arrive(r, [NoRequest EXCEPT !.op = op, !.user = u, !.id = c])
      PROVE  SInv'
  <2>q. PICK q : q = [NoRequest EXCEPT !.op = op, !.user = u, !.id = c]
    OBVIOUS
  <2>2. New(q)
    BY <1>0, <1>3, <2>q, NoRequestFacts DEF New, Request, Ops
  <2> QED BY <1>3, <2>q, <2>2, ArriveJoins
<1>4. CASE DeleteCommunityHandler(r)
  BY <1>3, <1>4 DEF DeleteCommunityHandler
<1>5. CASE SubscribeHandler(r)
  BY <1>3, <1>5 DEF SubscribeHandler
<1>6. CASE UnsubscribeHandler(r)
  BY <1>3, <1>6 DEF UnsubscribeHandler
<1> QED BY <1>1, <1>2, <1>4, <1>5, <1>6 DEF Receive

LEMMA CrashJoins ==
    ASSUME IInv, SInv, Crash
    PROVE  SInv'
<1>1. /\ req' = [r \in Requests |-> NoRequest]
      /\ failed' = failed \cup {req[r].id : r \in {s \in Requests : Changes(req[s])}}
      /\ created' = created /\ communities' = communities /\ subs' = subs /\ index' = index
      /\ overlapped' = overlapped /\ left' = left
  BY DEF Crash, store
<1>2. \A r \in Requests : Changes(req[r]) => req[r].id \in failed'
  BY <1>1
<1>3. \A r \in Requests : req'[r].step # "index"
  BY <1>1, NoRequestFacts
<1>4. \A c : NameOf(c)' = NameOf(c)
  BY <1>1 DEF NameOf, Exists
<1>5. ASSUME NEW c \in 1..created', c \notin overlapped' \cup failed'
      PROVE  index'[c] = NameOf(c)'
  <2>1. \A r \in Requests : ~ToIndex(r, c)
    <3> SUFFICES ASSUME NEW r \in Requests, ToIndex(r, c) PROVE FALSE
      OBVIOUS
    <3>1. Changes(req[r])
      BY DEF IInv, Sound, StepsOf, Changes, ToIndex
    <3> QED BY <1>2, <1>5, <3>1 DEF ToIndex
  <2>2. Follows(c) /\ c \notin overlapped \cup failed
    BY <1>1, <1>5, OneByOne DEF SInv
  <2> QED BY <1>1, <1>4, <2>1, <2>2 DEF Follows
<1>6. \A c \in 1..created' : Follows(c)'
  BY <1>3, <1>5 DEF Follows, ToIndex
<1>7. ASSUME NEW c \in DOMAIN communities'
      PROVE  Joins(c)'
  <2> SUFFICES ASSUME c \notin overlapped' \cup failed' PROVE Joins(c)'
    BY DEF Joins
  <2>1. Joins(c) /\ c \notin overlapped \cup failed
    BY <1>1, <1>7, OneByOne DEF SInv
  <2>2. ~ \E r \in Requests : req[r].op = "create" /\ req[r].id = c
    BY <1>2 DEF Changes
  <2> QED BY <1>1, <2>1, <2>2 DEF Joins, GetCommunitySubscribers, IsSubscribed
<1>8. SubsAreLive'
  BY <1>1 DEF SInv, SubsAreLive, Exists
<1> QED BY <1>6, <1>7, <1>8, OneByOnePrimed DEF SInv

LEMMA SInvariance == Spec => [](IInv /\ SInv)
<1>1. Init => SInv
  <2> SUFFICES ASSUME Init PROVE SInv
    OBVIOUS
  <2>1. created = 0 /\ communities = <<>> /\ subs = {} /\ DOMAIN communities = {}
    BY DEF Init
  <2> QED BY <2>1 DEF SInv, CreatorJoins, IndexFollows, SubsAreLive
<1>2. IInv /\ SInv /\ [Next]_vars => SInv'
  <2> SUFFICES ASSUME IInv, SInv, [Next]_vars PROVE SInv'
    OBVIOUS
  <2>1. CASE Crash
    BY <2>1, CrashJoins
  <2>2. ASSUME NEW r \in Requests, Receive(r) PROVE SInv'
    BY <2>2, ReceiveJoins
  <2>3. ASSUME NEW r \in Requests, Step(r) PROVE SInv'
    BY <2>3, ReadsJoin, UploadsJoin, CreateCommunityJoins, UpdateCommunityJoins,
       DeleteCommunityJoins, IndexCommunityJoins, UnlinksJoin, SubscribeCreatorJoins,
       SubscribeJoins, UnsubscribeJoins
       DEF Step
  <2>4. CASE UNCHANGED vars
    <3>1. /\ created' = created /\ communities' = communities /\ subs' = subs /\ index' = index
          /\ req' = req /\ overlapped' = overlapped /\ failed' = failed /\ left' = left
      BY <2>4 DEF vars, store, history
    <3>2. CreatorJoins' /\ SubsAreLive'
      BY <3>1 DEF SInv, CreatorJoins, SubsAreLive, Exists, GetCommunitySubscribers, IsSubscribed
    <3>3. IndexFollows'
      BY <3>1 DEF SInv, IndexFollows, Indexed, NameOf, Exists
    <3> QED BY <3>2, <3>3 DEF SInv
  <2> QED BY <2>1, <2>2, <2>3, <2>4 DEF Next
<1> QED BY <1>1, <1>2, InitIInv, NextIInv, PTL DEF Spec


-------------------------------------------------------------------------------
(* Lists and searches. *)

(* The communities there are, and the subscribers of one, are finitely     *)
(* many.                                                                   *)
LEMMA FiniteFacts ==
    ASSUME IInv
    PROVE  /\ IsFiniteSet(DOMAIN communities) /\ DOMAIN communities \subseteq 1..created
           /\ \A c : IsFiniteSet(GetCommunitySubscribers(c))
<1>1. DOMAIN communities \subseteq 1..created /\ created \in Nat
  BY Numbers
<1>2. IsFiniteSet(1..created)
  BY <1>1, FS_Interval
<1>3. IsFiniteSet(Users)
  BY NullAssumption
<1>4. \A c : GetCommunitySubscribers(c) \in SUBSET Users
  BY DEF GetCommunitySubscribers
<1> QED BY <1>1, <1>2, <1>3, <1>4, FS_Subset

(* A list shows each of its communities once. *)
LEMMA ListFacts ==
    ASSUME IInv, NEW ids, ids \subseteq DOMAIN communities
    PROVE  /\ List(ids) \in Seq({Short(c) : c \in ids})
           /\ \A i, j \in 1..Len(List(ids)) : List(ids)[i] = List(ids)[j] => i = j
           /\ \A i \in DOMAIN List(ids) : \E c \in ids : List(ids)[i] = Short(c)
           /\ \A c \in ids : \E i \in DOMAIN List(ids) : List(ids)[i] = Short(c)
<1> DEFINE rank == [c \in ids |-> -c]
<1>1. IsFiniteSet(ids) /\ \A c \in ids : c \in Int
  BY FiniteFacts, Numbers, FS_Subset
<1>n. PICK n \in Nat : n = Cardinality(ids)
  BY <1>1, FS_CardinalityType
<1>s. PICK s : s = Newest(ids)
  OBVIOUS
<1>2. /\ DOMAIN s = 1..n /\ s \in [1..n -> ids]
      /\ \A x \in ids : \E i \in 1..n : s[i] = x
      /\ \A i, j \in 1..n : s[i] = s[j] => i = j
  <2>1. (\A x \in ids : rank[x] \in Int) /\ \A x, y \in ids : rank[x] = rank[y] => x = y
    BY <1>1
  <2>2. s = InOrder(ids, rank)
    BY <1>s DEF Newest
  <2> HIDE DEF rank
  <2>3. /\ DOMAIN InOrder(ids, rank) = 1..Cardinality(ids)
        /\ InOrder(ids, rank) \in [1..Cardinality(ids) -> ids]
        /\ \A x \in ids : \E i \in 1..Cardinality(ids) : InOrder(ids, rank)[i] = x
        /\ \A i, j \in 1..Cardinality(ids) : InOrder(ids, rank)[i] = InOrder(ids, rank)[j] => i = j
    BY <1>1, <2>1, InOrderFacts
  <2> QED BY <1>n, <2>2, <2>3
<1>l. PICK list : list = List(ids)
  OBVIOUS
<1>3. list = [i \in 1..n |-> Short(s[i])]
  BY <1>l, <1>s, <1>2 DEF List
<1>4. \A c, d : Short(c) = Short(d) => c = d
  BY DEF Short
<1>5. list \in Seq({Short(c) : c \in ids}) /\ Len(list) = n /\ DOMAIN list = 1..n
      /\ \A i \in 1..n : list[i] = Short(s[i])
  <2>1. \A i \in 1..n : Short(s[i]) \in {Short(c) : c \in ids}
    BY <1>2
  <2> HIDE DEF rank
  <2> QED BY <1>3, <2>1
<1>6. \A i, j \in 1..n : list[i] = list[j] => i = j
  BY <1>2, <1>4, <1>5
<1> QED BY <1>2, <1>5, <1>6, <1>l

(* What the first field of an entry is. *)
LEMMA ShortFacts ==
    ASSUME NEW c
    PROVE  /\ Short(c)[1] = c /\ Short(c)[2] = communities[c].name
           /\ Short(c)[3] = Cardinality(GetCommunitySubscribers(c))
  BY DEF Short

LEMMA ListedFacts ==
    ASSUME IInv, NEW ids, ids \subseteq DOMAIN communities
    PROVE  /\ {List(ids)[i][1] : i \in DOMAIN List(ids)} = ids
           /\ ToSet(List(ids)) = {Short(c) : c \in ids}
<1>0. /\ \A i \in DOMAIN List(ids) : \E c \in ids : List(ids)[i] = Short(c)
      /\ \A c \in ids : \E i \in DOMAIN List(ids) : List(ids)[i] = Short(c)
  BY ListFacts
<1>1. /\ \A i \in DOMAIN List(ids) : \E c \in ids : List(ids)[i] = Short(c) /\ List(ids)[i][1] = c
      /\ \A c \in ids : \E i \in DOMAIN List(ids) : List(ids)[i] = Short(c) /\ List(ids)[i][1] = c
  BY <1>0, ShortFacts
<1> QED BY <1>1 DEF ToSet

(* A settled community is in the index by its name. *)
LEMMA SettledFacts ==
    ASSUME IInv, SInv, NEW c \in 1..created, Settled(c)
    PROVE  index[c] = NameOf(c)
<1>1. \A r \in Requests : ~ToIndex(r, c)
  BY DEF ToIndex, Settled, IInv, Sound, StepsOf, Changes
<1>2. Follows(c)
  BY OneByOne DEF SInv
<1> QED BY <1>1, <1>2 DEF Follows, Settled

(* The subscriptions of a user. *)
LEMMA SubscribedFacts ==
    ASSUME IInv, NEW u \in Users
    PROVE  \A c : c \in GetUserSubscribedCommunityIDs(u) <=> IsSubscribed(c, u)
<1>1. subs \subseteq Ids \X Users
  BY DEF IInv, DiskAgrees, TypeOK
<1> QED BY <1>1 DEF GetUserSubscribedCommunityIDs, IsSubscribed

(* The limit is that of every page, and a page of the communities there    *)
(* may be has an offset that fits.                                         *)
Limit(limit) == IF limit < 1 \/ limit > MaxLimit THEN DefaultLimit ELSE limit

LEMMA FewFit ==
    ASSUME FewCommunities, NEW limit \in {1, MaxLimit + 1}, NEW l, l = Limit(limit),
           NEW p \in 1..MaxCommunities
    PROVE  /\ l \in 1..MaxLimit /\ limit \in Int32 /\ p \in Int32 /\ Number(p) = p
           /\ ValidatePaginationParams(p, limit).limit = l /\ Fits(p, limit)
<1>1. /\ MaxCommunities \in Nat /\ MaxLimit \in Nat /\ Half \in Nat /\ 1 <= MaxLimit
      /\ limit \in Nat /\ p \in Nat /\ 1 <= p /\ p <= MaxCommunities /\ MaxLimit + 1 < Half
  BY NullAssumption, PaginationAssumption
<1>2. l \in 1..MaxLimit /\ limit \in Int32
  BY <1>1, PaginationAssumption DEF Limit, Int32
<1>3. Number(p) = p /\ ValidatePaginationParams(p, limit).limit = l
  BY <1>1 DEF Number, ValidatePaginationParams, Limit
<1>m. PICK m \in Nat : m = MaxCommunities * MaxLimit /\ m < Half
  BY <1>1 DEF FewCommunities
<1>4. MaxCommunities <= m
  <2>1. m = MaxCommunities + MaxCommunities * (MaxLimit - 1) /\ MaxCommunities * (MaxLimit - 1) \in Nat
    BY <1>1, <1>m
  <2> QED BY <1>1, <2>1
<1>5. p \in Int32
  BY <1>1, <1>m, <1>4 DEF Int32
<1>6. (p - 1) * l < Half
  <2>1. l \in Nat /\ l <= MaxLimit
    BY <1>1, <1>2
  <2>2. (p - 1) * l <= (p - 1) * MaxLimit
    BY <1>1, <2>1
  <2>3. (p - 1) * MaxLimit <= MaxCommunities * MaxLimit
    BY <1>1
  <2>4. (p - 1) * l \in Int /\ (p - 1) * MaxLimit \in Int
    BY <1>1, <2>1
  <2> QED BY <1>1, <1>m, <2>2, <2>3, <2>4
<1> QED BY <1>2, <1>3, <1>5, <1>6 DEF Fits

(* A page of a list that has each member of a set of ids once: its offset  *)
(* is good, and every member is on exactly one of them.                    *)
OnPage(list, limit, p) == ToSet(Limited(list, ValidatePaginationParams(p, limit)))

LEMMA HitsPageByPage ==
    ASSUME FewCommunities, NEW limit \in {1, MaxLimit + 1}, NEW S \in SUBSET Ids,
           NEW list, list = InOrder(S, [c \in S |-> c])
    PROVE  /\ \A p \in 1..MaxCommunities :
                 /\ ~(ValidatePaginationParams(p, limit).offset < 0)
                 /\ DecodeQueryParams(p, limit) /\ OnPage(list, limit, p) \subseteq S
           /\ \A c \in S : \E p \in 1..MaxCommunities :
                 \A q \in 1..MaxCommunities : c \in OnPage(list, limit, q) <=> q = p
<1>l. PICK l : l = Limit(limit)
  OBVIOUS
<1>f. IsFiniteSet(Ids) /\ Cardinality(Ids) = MaxCommunities /\ \A d \in Ids : d \in Int
  <2>1. MaxCommunities \in Nat
    BY NullAssumption
  <2>2. IsFiniteSet(1..MaxCommunities) /\ Cardinality(1..MaxCommunities) = MaxCommunities
    BY <2>1, FS_Interval
  <2> QED BY <2>1, <2>2 DEF Ids
<1>s. IsFiniteSet(S) /\ Cardinality(S) <= MaxCommunities
  BY <1>f, FS_Subset
<1>n. PICK n \in Nat : n = Cardinality(S)
  BY <1>s, FS_CardinalityType
<1>1. n <= MaxCommunities
  BY <1>s, <1>n
<1>2. /\ DOMAIN list = 1..n /\ list \in [1..n -> S]
      /\ \A x \in S : \E i \in 1..n : list[i] = x
      /\ \A i, j \in 1..n : list[i] = list[j] => i = j
  <2> DEFINE rank == [c \in S |-> c]
  <2>1. (\A x \in S : rank[x] \in Int) /\ \A x, y \in S : rank[x] = rank[y] => x = y
    BY <1>f
  <2>2. list = InOrder(S, rank)
    OBVIOUS
  <2> HIDE DEF rank
  <2>3. /\ DOMAIN InOrder(S, rank) = 1..Cardinality(S)
        /\ InOrder(S, rank) \in [1..Cardinality(S) -> S]
        /\ \A x \in S : \E i \in 1..Cardinality(S) : InOrder(S, rank)[i] = x
        /\ \A i, j \in 1..Cardinality(S) : InOrder(S, rank)[i] = InOrder(S, rank)[j] => i = j
    BY <1>s, <2>1, InOrderFacts
  <2> QED BY <1>n, <2>2, <2>3
<1>3. list \in Seq(S) /\ Len(list) = n
  BY <1>2
<1>4. ASSUME NEW p \in 1..MaxCommunities
      PROVE  /\ ~(ValidatePaginationParams(p, limit).offset < 0)
             /\ DecodeQueryParams(p, limit) /\ OnPage(list, limit, p) \subseteq S
             /\ \A i \in 1..n : list[i] \in OnPage(list, limit, p) <=> (i - 1) \div l + 1 = p
  <2>1. /\ l \in 1..MaxLimit /\ limit \in Int32 /\ p \in Int32 /\ Number(p) = p
        /\ ValidatePaginationParams(p, limit).limit = l /\ Fits(p, limit)
    BY <1>l, FewFit
  <2>2. PICK off \in Nat, m \in 1..MaxLimit :
           /\ DecodeQueryParams(p, limit)
           /\ ValidatePaginationParams(p, limit) = [offset |-> off, limit |-> m]
           /\ \A i \in Nat \ {0} : (i - 1) \div m + 1 = Number(p) <=> off < i /\ i <= off + m
    BY <2>1, WindowFacts
  <2>3. m = l /\ l \in Nat /\ l > 0 /\ ValidatePaginationParams(p, limit).offset = off
    BY <2>1, <2>2, PaginationAssumption
  <2>i. PICK items : items = Limited(list, [offset |-> off, limit |-> l])
    OBVIOUS
  <2>l. l \in Nat /\ l > 0
    BY <2>3
  <2>4. /\ items \in Seq(S)
        /\ \A j \in 1..Len(items) : off + j \in 1..Len(list) /\ items[j] = list[off + j]
        /\ \A i \in 1..Len(list) : off < i /\ i <= off + l <=> i - off \in 1..Len(items)
    <3> DEFINE window == [offset |-> off, limit |-> l]
    <3>1. list \in Seq(S) /\ off \in Nat /\ l \in Nat /\ l > 0 /\ items = Limited(list, window)
      BY <1>3, <2>l, <2>i
    <3>2. items \in Seq(S)
      BY <3>1, LimitedFacts
    <3>3. \A j \in 1..Len(items) : off + j \in 1..Len(list) /\ items[j] = list[off + j]
      BY <3>1, LimitedFacts
    <3>4. \A i \in 1..Len(list) : off < i /\ i <= off + l <=> i - off \in 1..Len(items)
      BY <3>1, LimitedFacts
    <3> QED BY <3>2, <3>3, <3>4
  <2>5. OnPage(list, limit, p) = ToSet(items)
    BY <2>2, <2>3, <2>i DEF OnPage
  <2>6. ToSet(items) = {items[j] : j \in 1..Len(items)}
    <3>1. DOMAIN items = 1..Len(items)
      BY <2>4
    <3> QED BY <3>1, Zenon DEF ToSet
  <2>7. ASSUME NEW i \in 1..n
        PROVE  list[i] \in ToSet(items) <=> (i - 1) \div l + 1 = p
    <3>1. (i - 1) \div l + 1 = p <=> i - off \in 1..Len(items)
      <4>1. i \in Nat \ {0} /\ i \in 1..Len(list)
        BY <1>3
      <4> QED BY <2>1, <2>2, <2>3, <2>4, <4>1
    <3>2. ASSUME i - off \in 1..Len(items) PROVE list[i] \in ToSet(items)
      <4>1. off + (i - off) = i
        OBVIOUS
      <4> QED BY <2>4, <2>6, <3>2, <4>1
    <3>3. ASSUME list[i] \in ToSet(items) PROVE i - off \in 1..Len(items)
      <4>1. PICK j \in 1..Len(items) : items[j] = list[i]
        BY <2>6, <3>3
      <4>2. off + j \in 1..n /\ list[off + j] = list[i]
        BY <1>3, <2>4, <4>1
      <4>3. off + j = i
        BY <1>2, <4>2
      <4>4. Len(items) \in Nat
        BY <2>4
      <4> QED BY <4>3, <4>4
    <3> QED BY <3>1, <3>2, <3>3
  <2>8. ToSet(items) \subseteq S
    BY <2>4, <2>6
  <2> QED BY <2>2, <2>3, <2>5, <2>7, <2>8
<1>5. ASSUME NEW c \in S
      PROVE  \E p \in 1..MaxCommunities :
                \A q \in 1..MaxCommunities : c \in OnPage(list, limit, q) <=> q = p
  <2>1. PICK i \in 1..n : list[i] = c
    BY <1>2
  <2>p. PICK p : p = (i - 1) \div l + 1
    OBVIOUS
  <2>2. p \in 1..MaxCommunities
    <3>1. MaxCommunities \in Nat /\ 1 \in 1..MaxCommunities
      BY <1>1, NullAssumption
    <3>2. l \in Nat /\ l > 0
      BY <1>l, <3>1, FewFit, PaginationAssumption
    <3>3. i - 1 \in Nat /\ i - 1 < n
      OBVIOUS
    <3>4. \A a \in Nat : a \div l \in Nat /\ a \div l <= a
      BY <3>2
    <3> QED BY <1>1, <2>p, <3>1, <3>3, <3>4
  <2>3. \A q \in 1..MaxCommunities : c \in OnPage(list, limit, q) <=> q = p
    BY <1>4, <2>1, <2>p
  <2> QED BY <2>2, <2>3
<1> QED BY <1>4, <1>5

(* The pages of a search, and those of them that show a community.         *)
Pages(u, query, type, limit) ==
    [p \in 1..MaxCommunities |-> SearchCommunityByName(u, query, type, p, limit).items]

PagesWith(c, shown) ==
    {p \in 1..MaxCommunities : \E i \in DOMAIN shown[p] : shown[p][i][1] = c}

(* The test that this is one page, if the community has the name it is     *)
(* shown with.                                                             *)
OneIf(page, query, on) ==
    IF page.code = 200 /\ page.items[1][2] \in query
    THEN \E p \in 1..MaxCommunities : on = {p}
    ELSE on = {}

Hits(u, query, type) ==
    {d \in Ids : index[d] \in query
                 /\ (d \in GetUserSubscribedCommunityIDs(u) <=> type # "recommended")}

Listing(c, list, limit) ==
    {p \in 1..MaxCommunities : Exists(c) /\ c \in OnPage(list, limit, p)}

(* They are those on which the index lists the community, if it is there.  *)
LEMMA PagesOfHits ==
    ASSUME IInv, FewCommunities, NEW u \in Users, NEW query \in SUBSET Names,
           NEW limit \in {1, MaxLimit + 1}, NEW type, NEW hits, hits = Hits(u, query, type),
           NEW list, list = InOrder(hits, [d \in hits |-> d]),
           NEW shown, shown = Pages(u, query, type, limit), NEW c
    PROVE  PagesWith(c, shown) = Listing(c, list, limit)
<1>0. hits \in SUBSET Ids
  BY DEF Hits
<1>1. ASSUME NEW p \in 1..MaxCommunities
      PROVE  (\E i \in DOMAIN shown[p] : shown[p][i][1] = c)
               <=> Exists(c) /\ c \in OnPage(list, limit, p)
  <2>1. /\ ~(ValidatePaginationParams(p, limit).offset < 0)
        /\ DecodeQueryParams(p, limit)
    BY <1>0, HitsPageByPage
  <2>w. PICK window : window = ValidatePaginationParams(p, limit)
    OBVIOUS
  <2>i. PICK ids : ids = SearchCommunityIDsByName(query, GetUserSubscribedCommunityIDs(u),
                                                  type # "recommended", window)
    OBVIOUS
  <2>2. ids = OnPage(list, limit, p)
    BY <2>1, <2>w, <2>i, Zenon DEF SearchCommunityIDsByName, OnPage, Hits
  <2>f. PICK found : found = {d \in DOMAIN communities : d \in ids}
    OBVIOUS
  <2>3. SearchShortCommunityByNameAndType(u, query, type, p, limit) = [err |-> Ok, items |-> List(found)]
    BY <2>w, <2>i, <2>f, Zenon DEF SearchShortCommunityByNameAndType, GetCommunitiesByIDs
  <2>r. PICK result : result = SearchShortCommunityByNameAndType(u, query, type, p, limit)
    OBVIOUS
  <2>4. query # NoName
    BY NullAssumption
  <2>5. SearchCommunityByName(u, query, type, p, limit) = Reply(p, limit, result)
    BY <2>4, <2>r, Zenon DEF SearchCommunityByName
  <2>6. Reply(p, limit, result).items = List(found)
    BY <2>1, <2>3, <2>r DEF Reply
  <2>7. shown[p] = List(found)
    BY <2>5, <2>6 DEF Pages
  <2>8. {List(found)[i][1] : i \in DOMAIN List(found)} = found
    <3>1. found \subseteq DOMAIN communities
      BY <2>f
    <3> QED BY <3>1, ListedFacts
  <2>9. c \in found <=> Exists(c) /\ c \in OnPage(list, limit, p)
    BY <2>2, <2>f DEF Exists
  <2> QED BY <2>7, <2>8, <2>9
<1> QED BY <1>1 DEF PagesWith, Listing

LEMMA SearchIsRight == IInv /\ SInv => FoundByName
<1> SUFFICES ASSUME IInv, SInv, FewCommunities, NEW c \in 1..created, Settled(c),
                    NEW u \in Users, NEW query \in SUBSET Names, NEW limit \in {1, MaxLimit + 1}
             PROVE  SearchFinds(c, u, query, limit)
  BY DEF FoundByName
<1>t. PICK type : type = IF IsSubscribed(c, u) THEN "subscriber" ELSE "recommended"
  OBVIOUS
<1>h. PICK hits : hits = Hits(u, query, type)
  OBVIOUS
<1>l. PICK list : list = InOrder(hits, [d \in hits |-> d])
  OBVIOUS
<1>s. PICK shown : shown = Pages(u, query, type, limit)
  OBVIOUS
<1>o. PICK on : on = PagesWith(c, shown)
  OBVIOUS
<1>p. PICK page : page = GetCommunityHandler(u, c)
  OBVIOUS
<1>1. on = {p \in 1..MaxCommunities : Exists(c) /\ c \in OnPage(list, limit, p)}
  <2>1. on = Listing(c, list, limit)
    BY <1>h, <1>l, <1>s, <1>o, PagesOfHits
  <2> QED BY <2>1 DEF Listing
<1>2. c \in hits <=> index[c] \in query
  <2>1. c \in GetUserSubscribedCommunityIDs(u) <=> type # "recommended"
    BY <1>t, SubscribedFacts
  <2>2. c \in Ids
    BY Numbers
  <2> QED BY <1>h, <2>1, <2>2 DEF Hits
<1>3. hits \in SUBSET Ids
  BY <1>h DEF Hits
<1>4. /\ \A p \in 1..MaxCommunities : OnPage(list, limit, p) \subseteq hits
      /\ \A d \in hits : \E p \in 1..MaxCommunities :
            \A q \in 1..MaxCommunities : d \in OnPage(list, limit, q) <=> q = p
  BY <1>3, <1>l, HitsPageByPage
<1>5. index[c] = NameOf(c)
  BY SettledFacts
<1>6. OneIf(page, query, on)
  <2>1. CASE Exists(c)
    <3>1. page = [code |-> 200, items |-> <<Short(c), IsSubscribed(c, u)>>]
      BY <1>p, <2>1 DEF GetCommunityHandler, GetCommunity, Respond
    <3>2. page.code = 200 /\ page.items[1] = Short(c)
      BY <3>1
    <3>3. page.items[1][2] = index[c]
      BY <1>5, <2>1, <3>2, ShortFacts DEF NameOf
    <3>4. CASE index[c] \in query
      <4>1. PICK p \in 1..MaxCommunities :
               \A q \in 1..MaxCommunities : c \in OnPage(list, limit, q) <=> q = p
        BY <1>2, <1>4, <3>4
      <4>2. on = {p}
        BY <1>1, <2>1, <4>1
      <4> QED BY <3>2, <3>3, <3>4, <4>2 DEF OneIf
    <3>5. CASE index[c] \notin query
      <4>1. on = {}
        BY <1>1, <1>2, <1>4, <3>5
      <4> QED BY <3>3, <3>5, <4>1 DEF OneIf
    <3> QED BY <3>4, <3>5
  <2>2. CASE ~Exists(c)
    <3>1. page.code = MapErrorToHTTP("ErrNotFound")
      BY <1>p, <2>2 DEF GetCommunityHandler, GetCommunity, Respond, Ok
    <3>2. MapErrorToHTTP("ErrNotFound") = 404
      BY DEF MapErrorToHTTP
    <3>3. page.code # 200 /\ on = {}
      BY <1>1, <2>2, <3>1, <3>2
    <3> QED BY <3>3 DEF OneIf
  <2> QED BY <2>1, <2>2
<1>7. OneIf(GetCommunityHandler(u, c), query,
            PagesWith(c, Pages(u, query, IF IsSubscribed(c, u) THEN "subscriber" ELSE "recommended",
                               limit)))
  BY <1>6, <1>t, <1>s, <1>o, <1>p, Zenon
<1> QED BY <1>7, Zenon DEF SearchFinds, Pages, PagesWith, OneIf

-------------------------------------------------------------------------------
(* Members. *)

(* A page of the subscribers, of whom each is shown once. *)
LEMMA SubscriberFacts ==
    ASSUME IInv, NEW c
    PROVE  LET list == SetToSeq(GetCommunitySubscribers(c))
           IN  /\ list \in Seq(Users) /\ Len(list) = Cardinality(GetCommunitySubscribers(c))
               /\ \A i, j \in 1..Len(list) : list[i] = list[j] => i = j
<1>s. PICK S : S = GetCommunitySubscribers(c)
  OBVIOUS
<1>1. IsFiniteSet(S) /\ S \subseteq Users
  BY <1>s, FiniteFacts DEF GetCommunitySubscribers
<1>n. PICK n \in Nat : n = Cardinality(S)
  BY <1>1, FS_CardinalityType
<1>2. \E f \in [1..n -> S] : IsInjective(f)
  BY <1>1, <1>n, FS_CardinalityType DEF ExistsBijection, Bijection, Injection
<1>3. SetToSeq(S) = CHOOSE f \in [1..n -> S] : IsInjective(f)
  BY <1>n DEF SetToSeq
<1>4. SetToSeq(S) \in [1..n -> S] /\ IsInjective(SetToSeq(S))
  BY <1>2, <1>3
<1>l. PICK list : list = SetToSeq(S)
  OBVIOUS
<1>5. /\ DOMAIN list = 1..n /\ list \in Seq(Users) /\ Len(list) = n
      /\ \A i, j \in 1..n : list[i] = list[j] => i = j
  BY <1>1, <1>4, <1>l DEF IsInjective
<1> QED BY <1>5, <1>l, <1>s, <1>n

LEMMA CreatorsJoin == IInv /\ SInv => CreatorSubscribed
<1> SUFFICES ASSUME IInv, SInv, NEW c \in DOMAIN communities, Settled(c)
             PROVE  communities[c].creator \in GetCommunitySubscribers(c)
                      \/ <<c, communities[c].creator>> \in left
  BY DEF CreatorSubscribed
<1>1. Joins(c)
  BY OneByOne DEF SInv
<1> QED BY <1>1 DEF Joins, Settled, Changes

LEMMA ListsAreRight == IInv /\ SInv => ListsAgree
<1> SUFFICES ASSUME IInv, SInv, NEW u \in Users
             PROVE  LET mine   == GetUserCommunities(u)
                        others == GetOtherCommunities(u)
                    IN  /\ {mine[i][1] : i \in DOMAIN mine} = SubscribedCommunityIDsHandler(u).items
                        /\ ToSet(mine) \cap ToSet(others) = {}
                        /\ ToSet(mine) \cup ToSet(others) = ToSet(GetCommunitiesByIDs(Ids))
                        /\ \A i \in DOMAIN mine :
                              mine[i][3] <= MaxLimit =>
                                 mine[i][3] = Len(GetCommunitySubscribersHandler(mine[i][1], 1, MaxLimit, Users).items)
  BY DEF ListsAgree
<1>a. PICK A : A = {c \in DOMAIN communities : IsSubscribed(c, u)}
  OBVIOUS
<1>b. PICK B : B = {c \in DOMAIN communities : c \notin GetUserSubscribedCommunityIDs(u)}
  OBVIOUS
<1>1. GetUserCommunities(u) = List(A) /\ GetOtherCommunities(u) = List(B)
  BY <1>a, <1>b DEF GetUserCommunities, GetOtherCommunities
<1>2. GetCommunitiesByIDs(Ids) = List(DOMAIN communities)
  <2>1. {c \in DOMAIN communities : c \in Ids} = DOMAIN communities
    BY Numbers
  <2> QED BY <2>1 DEF GetCommunitiesByIDs
<1>3. A \subseteq DOMAIN communities /\ B \subseteq DOMAIN communities
      /\ A \cap B = {} /\ A \cup B = DOMAIN communities
  BY <1>a, <1>b, SubscribedFacts
<1>4. {List(A)[i][1] : i \in DOMAIN List(A)} = A
      /\ ToSet(List(A)) = {Short(c) : c \in A}
      /\ ToSet(List(B)) = {Short(c) : c \in B}
      /\ ToSet(List(DOMAIN communities)) = {Short(c) : c \in DOMAIN communities}
  BY <1>3, ListedFacts
<1>5. A = SubscribedCommunityIDsHandler(u).items
  <2>1. SubscribedCommunityIDsHandler(u).items = GetUserSubscribedCommunityIDs(u)
    BY DEF SubscribedCommunityIDsHandler, SubscribedCommunityIDs, Respond
  <2>2. \A c : IsSubscribed(c, u) => c \in DOMAIN communities
    BY DEF SInv, SubsAreLive, IsSubscribed, Exists
  <2> QED BY <1>a, <2>1, <2>2, SubscribedFacts
<1>6. ToSet(List(A)) \cap ToSet(List(B)) = {}
  BY <1>3, <1>4, ShortFacts
<1>7. ToSet(List(A)) \cup ToSet(List(B)) = ToSet(List(DOMAIN communities))
  BY <1>3, <1>4
<1>8. ASSUME NEW i \in DOMAIN List(A), List(A)[i][3] <= MaxLimit
      PROVE  List(A)[i][3] = Len(GetCommunitySubscribersHandler(List(A)[i][1], 1, MaxLimit, Users).items)
  <2>0. A \subseteq DOMAIN communities
    BY <1>3
  <2>1. PICK c \in A : List(A)[i] = Short(c)
    <3>1. \A j \in DOMAIN List(A) : \E c \in A : List(A)[j] = Short(c)
      BY <2>0, ListFacts
    <3> QED BY <3>1
  <2>l. PICK list : list = SetToSeq(GetCommunitySubscribers(c))
    OBVIOUS
  <2>2. list \in Seq(Users) /\ Len(list) = Cardinality(GetCommunitySubscribers(c))
    BY <2>l, SubscriberFacts
  <2>3. List(A)[i][1] = c /\ List(A)[i][3] = Len(list) /\ Len(list) <= MaxLimit
    BY <1>8, <2>1, <2>2, ShortFacts
  <2>4. Paged(list, 1, MaxLimit) = [err |-> Ok, items |-> list] /\ DecodeQueryParams(1, MaxLimit)
    BY <2>2, <2>3, FirstPage
  <2>5. CommunitySubscribers(c, 1, MaxLimit, Users) = [err |-> Ok, items |-> Those(list, Users)]
    BY <1>3, <2>l, <2>4 DEF CommunitySubscribers, Exists
  <2>6. GetCommunitySubscribersHandler(c, 1, MaxLimit, Users).items = Those(list, Users)
    BY <2>4, <2>5 DEF GetCommunitySubscribersHandler, Reply
  <2>7. Len(Those(list, Users)) = Len(list)
    <3>1. \A j \in 1..Len(list) : list[j] \in Users
      BY <2>2
    <3> QED BY <2>2, <3>1, ThoseFacts
  <2> QED BY <2>3, <2>6, <2>7
<1>9. /\ {List(A)[i][1] : i \in DOMAIN List(A)} = SubscribedCommunityIDsHandler(u).items
      /\ ToSet(List(A)) \cap ToSet(List(B)) = {}
      /\ ToSet(List(A)) \cup ToSet(List(B)) = ToSet(List(DOMAIN communities))
      /\ \A i \in DOMAIN List(A) :
            List(A)[i][3] <= MaxLimit =>
               List(A)[i][3] = Len(GetCommunitySubscribersHandler(List(A)[i][1], 1, MaxLimit, Users).items)
  BY <1>4, <1>5, <1>6, <1>7, <1>8
<1>m. PICK mine : mine = List(A)
  OBVIOUS
<1>10. /\ {mine[i][1] : i \in DOMAIN mine} = SubscribedCommunityIDsHandler(u).items
       /\ ToSet(mine) \cap ToSet(List(B)) = {}
       /\ ToSet(mine) \cup ToSet(List(B)) = ToSet(List(DOMAIN communities))
       /\ \A i \in DOMAIN mine :
             mine[i][3] <= MaxLimit =>
                mine[i][3] = Len(GetCommunitySubscribersHandler(mine[i][1], 1, MaxLimit, Users).items)
  BY <1>m, <1>9
<1>11. GetUserCommunities(u) = mine
  BY <1>1, <1>m
<1> QED BY <1>1, <1>2, <1>10, <1>11

(* Every page shows what belongs there. *)
LEMMA ListPages ==
    ASSUME IInv, NEW ids, ids \subseteq DOMAIN communities, NEW page \in Int, NEW limit \in Int32
    PROVE  PageIsRight(List(ids), page, limit, Reply(page, limit, Paged(List(ids), page, limit)))
  BY ListFacts, ReplyIsRight

LEMMA SubscriberPages ==
    ASSUME IInv, NEW c \in DOMAIN communities, NEW page \in Int, NEW limit \in Int32
    PROVE  PageIsRight(SetToSeq(GetCommunitySubscribers(c)), page, limit,
                       GetCommunitySubscribersHandler(c, page, limit, Users))
<1>l. PICK list : list = SetToSeq(GetCommunitySubscribers(c))
  OBVIOUS
<1>1. list \in Seq(Users) /\ \A i, j \in 1..Len(list) : list[i] = list[j] => i = j
  BY <1>l, SubscriberFacts
<1>0. limit \in Int
  BY PaginationAssumption DEF Int32
<1>r. PICK result : result = Paged(list, page, limit)
  OBVIOUS
<1>2. result.items \in Seq(Users) /\ result = [err |-> result.err, items |-> result.items]
  BY <1>0, <1>1, <1>r, PagedItems
<1>e. result.err \in {Ok, "ErrDB"}
  BY <1>0, <1>1, <1>r, PagedItems
<1>i. PICK items \in Seq(Users) : items = result.items
  BY <1>2
<1>t. PICK those : those = Those(items, Users)
  OBVIOUS
<1>3. ShowAlike(those, items)
  <2>1. \A x : (\E j \in 1..Len(items) : items[j] = x) => x \in Users
    OBVIOUS
  <2>2. \A x : (\E j \in 1..Len(those) : those[j] = x)
                 <=> x \in Users /\ \E j \in 1..Len(items) : items[j] = x
    BY <1>t, ThoseFacts
  <2> QED BY <2>1, <2>2, Zenon DEF ShowAlike
<1>n. result.err # Ok => items = <<>>
  BY <1>0, <1>1, <1>r, <1>i, PagedItems
<1>s. PICK subscribers : subscribers = CommunitySubscribers(c, page, limit, Users)
  OBVIOUS
<1>4. subscribers = [err |-> result.err, items |-> those]
  BY <1>l, <1>r, <1>2, <1>i, <1>t, <1>s DEF CommunitySubscribers, Exists
<1>a. PICK answer : answer = GetCommunitySubscribersHandler(c, page, limit, Users)
  OBVIOUS
<1>5. ASSUME page \in Int32
      PROVE  /\ answer.code = IF result.err = Ok THEN 200 ELSE 500
             /\ ShowAlike(answer.items, result.items)
  <2>1. answer = IF subscribers.err # Ok
                   THEN [code |-> MapErrorToHTTP(subscribers.err), items |-> <<>>]
                   ELSE [code |-> 200, items |-> subscribers.items]
    BY <1>5, <1>a, <1>s DEF GetCommunitySubscribersHandler, Reply, DecodeQueryParams
  <2>2. CASE result.err = Ok
    <3>1. answer.code = 200 /\ answer.items = those
      BY <1>4, <2>1, <2>2
    <3> QED BY <1>3, <1>i, <2>2, <3>1
  <2>3. CASE result.err # Ok
    <3>1. result.err = "ErrDB" /\ items = <<>>
      BY <1>e, <1>n, <2>3
    <3>2. MapErrorToHTTP("ErrDB") = 500 /\ subscribers.err = "ErrDB"
      BY <1>4, <3>1 DEF MapErrorToHTTP
    <3>3. answer.code = 500 /\ answer.items = <<>>
      BY <1>4, <2>1, <2>3, <3>2
    <3>4. ShowAlike(<<>>, <<>>)
      BY Zenon DEF ShowAlike
    <3> QED BY <1>i, <2>3, <3>1, <3>3, <3>4
  <2> QED BY <2>2, <2>3
<1>6. Shows(list, page, limit, answer)
  BY <1>5, <1>r DEF Shows
<1>7. PageIsRight(list, page, limit, answer)
  BY <1>1, <1>6, ShownIsRight
<1> QED BY <1>7, <1>a, <1>l

LEMMA PagesTurn == IInv => PagesAreRight
<1> SUFFICES ASSUME IInv, NEW u \in Users, NEW l \in {1, MaxLimit + 1}, NEW p \in 0..MaxCommunities + 1
             PROVE  /\ PageIsRight(GetUserCommunities(u), p, l, GetUserCommunitiesHandler(u, p, l))
                    /\ PageIsRight(GetUserCommunities(u), p, l, GetUserCommunitiesByIDHandler(u, p, l))
                    /\ PageIsRight(GetOtherCommunities(u), p, l, GetOtherCommunitiesHandler(u, p, l))
                    /\ PageIsRight(GetCreatedCommunities(u), p, l, GetCreatedCommunitiesHandler(u, p, l))
                    /\ \A c \in DOMAIN communities :
                          PageIsRight(SetToSeq(GetCommunitySubscribers(c)), p, l,
                                      GetCommunitySubscribersHandler(c, p, l, Users))
  BY Zenon DEF PagesAreRight
<1>1. p \in Int /\ l \in Int32
  BY PaginationAssumption DEF Int32
<1>2. PageIsRight(GetUserCommunities(u), p, l, GetUserCommunitiesHandler(u, p, l))
  BY <1>1, ListPages DEF GetUserCommunities, GetUserCommunitiesHandler, UserCommunities
<1>3. PageIsRight(GetUserCommunities(u), p, l, GetUserCommunitiesByIDHandler(u, p, l))
  BY <1>1, ListPages DEF GetUserCommunities, GetUserCommunitiesByIDHandler, UserCommunitiesByID,
     GetUserCommunitiesByID
<1>4. PageIsRight(GetOtherCommunities(u), p, l, GetOtherCommunitiesHandler(u, p, l))
  BY <1>1, ListPages DEF GetOtherCommunities, GetOtherCommunitiesHandler, OtherCommunities
<1>5. PageIsRight(GetCreatedCommunities(u), p, l, GetCreatedCommunitiesHandler(u, p, l))
  BY <1>1, ListPages DEF GetCreatedCommunities, GetCreatedCommunitiesHandler, CreatedCommunities
<1>6. \A c \in DOMAIN communities :
         PageIsRight(SetToSeq(GetCommunitySubscribers(c)), p, l,
                     GetCommunitySubscribersHandler(c, p, l, Users))
  BY <1>1, SubscriberPages
<1> QED BY <1>2, <1>3, <1>4, <1>5, <1>6

-------------------------------------------------------------------------------

(* The search shows a community that is not being changed on exactly one   *)
(* of its pages, whenever the index takes the name it has now for the      *)
(* query, to its subscribers and to the others, and one that was deleted   *)
(* or renamed on none: the handlers write to the index what they have      *)
(* written to the table, and the pages cut up all it finds.                *)
THEOREM CommunitiesAreFound == Spec => []FoundByName
  BY SearchIsRight, SInvariance, PTL

(* The lists of communities and of subscribers, page by page, and the      *)
(* counts in them agree with each other and with the subscriptions, and    *)
(* the creator of a community is among its subscribers.                    *)
THEOREM MembersAreListed == Spec => []MembersAreShown
<1>1. IInv /\ SInv => MembersAreShown
  BY ListsAreRight, CreatorsJoin, PagesTurn DEF MembersAreShown
<1> QED BY <1>1, SInvariance, PTL

=============================================================================
