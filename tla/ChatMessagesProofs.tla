-------------------------- MODULE ChatMessagesProofs --------------------------
(***************************************************************************)
(* Proofs about ChatMessages, for any users, chats, members and any number *)
(* of messages that are sent at the same time, each with any number of     *)
(* attachments, with and without failures.  They rest on the inductive     *)
(* invariant IInv (module ChatMessages): what a call has left on disk and  *)
(* in the tables at each of its steps, and that what the notifying         *)
(* goroutine has read so far is still there.  For what the lists show      *)
(* (module ChatViews) the positions of messages differ (PositionsDiffer).  *)
(***************************************************************************)
EXTENDS ChatViews, PaginationProofs, FiniteSetTheorems, TLAPS

-------------------------------------------------------------------------------
(* Calls and files. *)

(* What the fields of a call are. *)
LEMMA CallFields ==
    ASSUME NEW k \in Call
    PROVE  /\ k.user \in Users \cup {NoUser} /\ k.chat \in Chats \cup {NoChat}
           /\ k.content \in Content /\ k.step \in Steps
           /\ k.created \in Nat /\ k.id \in Nat /\ k.last \in Nat
           /\ k.recipients \subseteq [to : Users, read : Nat, unread : Nat]
           /\ k.res \in Results
  BY DEF Call

(* A call that has not been made. *)
LEMMA NoCallFacts ==
    /\ NoCall \in Call /\ NoCall.step = "new" /\ NoCall.res = "none"
    /\ NoCall.content = NoContent
<1>1. NoContent \in Content
  BY MaxFilesAssumption DEF NoContent, Content
<1>2. "new" \in Steps /\ "none" \in Results
  BY DEF Steps, Results
<1> QED BY <1>1, <1>2 DEF NoCall, Call

(* All fields of a call but the ones a step changes stay as they are. *)
Alike(k, n) == n.user = k.user /\ n.chat = k.chat /\ n.content = k.content

LEMMA StepFacts ==
    ASSUME NEW k \in Call, NEW step \in Steps
    PROVE  LET n == [k EXCEPT !.step = step]
           IN  /\ n \in Call /\ Alike(k, n) /\ n.step = step /\ n.res = k.res /\ n.id = k.id
               /\ n.created = k.created /\ n.last = k.last /\ n.recipients = k.recipients
  BY DEF Call, Alike

(* The files of a call have its name. *)
LEMMA FilesOfFacts ==
    ASSUME NEW r \in Calls
    PROVE  /\ FilesOf(r) \subseteq FileNames /\ \A f \in FilesOf(r) : f[1] = r
           /\ call'[r].content = call[r].content => FilesOf(r)' = FilesOf(r)
  BY DEF FilesOf

LEMMA FileNameFacts ==
    ASSUME NEW f \in FileNames
    PROVE  f[1] \in Calls
  BY DEF FileNames

(* What is stored for a call that has come to its commit. *)
LEMMA RowFacts ==
    ASSUME IInv, NEW r \in Calls, call[r].step = "commit"
    PROVE  /\ Row(r) \in MessageRow /\ Row(r).id = call[r].id /\ Row(r).chat = call[r].chat
           /\ Row(r).author = call[r].user /\ Row(r).created = call[r].created
           /\ Row(r).files = FilesOf(r) /\ Row(r).call = r
           /\ Row(r).author \in Members[Row(r).chat]
<1> DEFINE k == call[r]
<1>1. k \in Call /\ CallOK(r)
  BY DEF IInv, TypeOK
<1>2. /\ k.user \in Users /\ k.chat \in Chats /\ k.user \in Members[k.chat]
      /\ k.content.sticker # "unknown"
  BY <1>1 DEF CallOK
<1>3. k.content.sticker \in {"none", "known"} /\ k.created \in Nat /\ k.id \in Nat
  BY <1>1, <1>2, CallFields DEF Content
<1>4. FilesOf(r) \subseteq FileNames
  BY FilesOfFacts
<1> QED BY <1>2, <1>3, <1>4 DEF Row, MessageRow

-------------------------------------------------------------------------------
(* What every step keeps. *)

(* The messages a step adds: none, or that of the call at its commit. *)
Stores(r) ==
    \/ messages' = messages
    \/ call[r].step = "commit" /\ messages' = messages \cup {Row(r)}

(* A call that waits keeps what is said of it. *)
LEMMA OthersKeep ==
    ASSUME IInv, NEW c \in Calls, call'[c] = call[c], messages \subseteq messages',
           \A f \in FileNames : f[1] = c => (f \in files' <=> f \in files),
           files' \subseteq FileNames
    PROVE  CallOK(c)'
<1>1. CallOK(c) /\ files \subseteq FileNames
  BY DEF IInv, TypeOK
<1>2. FilesOf(c)' = FilesOf(c) /\ FilesOf(c) \subseteq FileNames /\ \A f \in FilesOf(c) : f[1] = c
  BY FilesOfFacts
<1>3. Row(c)' = Row(c)
  BY <1>2 DEF Row
<1>4. (\A f \in files : f[1] # c) => (\A f \in files' : f[1] # c)
  BY <1>1
<1>5. FilesOf(c) \subseteq files => FilesOf(c) \subseteq files'
  BY <1>2
<1> QED BY <1>1, <1>2, <1>3, <1>4, <1>5 DEF CallOK

(* A chat with messages goes on having a last one. *)
LEMMA LastKept ==
    ASSUME IInv, NEW r \in Calls, Stores(r)
    PROVE  LastExists'
<1>1. CASE messages' = messages
  BY <1>1 DEF IInv, LastExists, In
<1>2. CASE call[r].step = "commit" /\ messages' = messages \cup {Row(r)}
  <2>1. Row(r) \in MessageRow
    BY <1>2, RowFacts
  <2>2. messages \subseteq MessageRow
    BY DEF IInv, TypeOK
  <2>3. \A m \in MessageRow : m.created \in Nat
    BY DEF MessageRow
  <2> DEFINE new == Row(r)
  <2> HIDE DEF new
  <2> SUFFICES ASSUME NEW c \in Chats, In(c)' # {}
               PROVE  \E m \in In(c)' : \A n \in In(c)' : n.created <= m.created
    BY DEF LastExists
  <2>4. In(c)' = In(c) \cup (IF new.chat = c THEN {new} ELSE {})
    BY <1>2 DEF In, new
  <2>5. new.created \in Nat /\ \A m \in In(c) : m.created \in Nat
    BY <2>1, <2>2, <2>3 DEF In, new
  <2>6. CASE In(c) = {}
    BY <2>4, <2>5, <2>6
  <2>7. CASE In(c) # {}
    <3>1. PICK m \in In(c) : \A n \in In(c) : n.created <= m.created
      BY <2>7 DEF IInv, LastExists
    <3>2. CASE new.chat # c
      BY <2>4, <3>1, <3>2
    <3>3. CASE new.chat = c /\ m.created <= new.created
      <4>1. \A n \in In(c)' : n.created <= new.created
        BY <2>4, <2>5, <3>1, <3>3
      <4> QED BY <2>4, <3>3, <4>1
    <3>4. CASE new.chat = c /\ ~(m.created <= new.created)
      <4>1. \A n \in In(c)' : n.created <= m.created
        BY <2>4, <2>5, <3>1, <3>4
      <4> QED BY <2>4, <3>1, <4>1
    <3> QED BY <3>2, <3>3, <3>4
  <2> QED BY <2>6, <2>7
<1> QED BY <1>1, <1>2 DEF Stores

(* Events stay true as long as no message goes. *)
LEMMA EventsKept ==
    ASSUME IInv, messages \subseteq messages', events' = events
    PROVE  EventsAreTrue'
  BY DEF IInv, EventsAreTrue, EventsAddUp, EventsAreFresh

(* What a step of one call has to show for the invariant. *)
LEMMA StepKeeps ==
    ASSUME IInv, TypeOK', NEW r \in Calls, Stores(r),
           \A c \in Calls \ {r} : call'[c] = call[c],
           \A f \in FileNames : f[1] # r => /\ f \in files' <=> f \in files
                                            /\ f \in leftovers' <=> f \in leftovers,
           CallOK(r)',
           \A f \in files' : f[1] = r => f \in FilesOf(r)',
           \A f \in leftovers' : f[1] = r => call'[r].res \notin {"none", Ok},
           \A f \in files' \ leftovers' :
               f[1] = r => call'[r].res = "none" \/ \E m \in messages' : f \in m.files,
           \A m \in messages' :
               m.call = r => call'[r].res \in {Ok, "ErrDB"} /\ m.files = FilesOf(r)',
           EventsAreTrue'
    PROVE  IInv'
<1>1. messages \subseteq messages' /\ messages' \subseteq messages \cup {Row(r)}
  BY DEF Stores
<1>2. /\ files' \subseteq FileNames /\ leftovers' \subseteq files'
      /\ files \subseteq FileNames /\ leftovers \subseteq files
  BY DEF IInv, TypeOK
<1>3. \A c \in Calls : CallOK(c)'
  <2> SUFFICES ASSUME NEW c \in Calls, c # r PROVE CallOK(c)'
    OBVIOUS
  <2>1. \A f \in FileNames : f[1] = c => (f \in files' <=> f \in files)
    OBVIOUS
  <2> QED BY <1>1, <1>2, <2>1, OthersKeep
<1>4. \A c \in Calls \ {r} : FilesOf(c)' = FilesOf(c)
  BY FilesOfFacts
<1>5. MessagesOK'
  <2>1. IsFiniteSet(messages')
    <3>1. IsFiniteSet(messages)
      BY DEF IInv, MessagesOK
    <3>2. \A S, x : IsFiniteSet(S) => IsFiniteSet(S \cup {x})
      BY FS_AddElement
    <3>3. IsFiniteSet(messages \cup {Row(r)})
      BY <3>1, <3>2, Zenon
    <3> QED BY <3>1, <3>3 DEF Stores
  <2>2. ASSUME NEW m \in messages'
        PROVE  /\ call'[m.call].res \in {Ok, "ErrDB"} /\ m.files = FilesOf(m.call)'
               /\ m.author \in Members[m.chat]
    <3>1. m.call \in Calls
      BY DEF TypeOK, MessageRow
    <3>2. CASE m \in messages
      <4>1. /\ call[m.call].res \in {Ok, "ErrDB"} /\ m.files = FilesOf(m.call)
            /\ m.author \in Members[m.chat]
        BY <3>2 DEF IInv, MessagesOK
      <4> QED BY <3>1, <4>1, <1>4
    <3>3. CASE m \notin messages
      <4>1. m = Row(r) /\ call[r].step = "commit"
        BY <3>3 DEF Stores
      <4>2. m.call = r /\ m.author \in Members[m.chat]
        BY <4>1, RowFacts
      <4> QED BY <4>2
    <3> QED BY <3>2, <3>3
  <2> QED BY <2>1, <2>2 DEF MessagesOK
<1>6. LastExists'
  BY LastKept
<1>7. FilesOK'
  <2>1. ASSUME NEW f \in files' PROVE f \in FilesOf(f[1])'
    <3>1. f \in FileNames /\ f[1] \in Calls
      BY <1>2, FileNameFacts
    <3>2. CASE f[1] # r
      <4>1. f \in FilesOf(f[1])
        BY <3>1, <3>2 DEF IInv, FilesOK
      <4> QED BY <3>1, <3>2, <4>1, <1>4
    <3> QED BY <3>2
  <2>2. ASSUME NEW f \in leftovers' PROVE call'[f[1]].res \notin {"none", Ok}
    <3>1. f \in FileNames /\ f[1] \in Calls
      BY <1>2, FileNameFacts
    <3>2. CASE f[1] # r
      <4>1. call[f[1]].res \notin {"none", Ok}
        BY <3>1, <3>2 DEF IInv, FilesOK
      <4> QED BY <3>1, <3>2, <4>1
    <3> QED BY <3>2
  <2> QED BY <2>1, <2>2 DEF FilesOK
<1>8. NoOrphanFiles'
  <2> SUFFICES ASSUME NEW f \in files' \ leftovers'
               PROVE  call'[f[1]].res = "none" \/ \E m \in messages' : f \in m.files
    BY DEF NoOrphanFiles, Answered
  <2>1. f \in FileNames /\ f[1] \in Calls
    BY <1>2, FileNameFacts
  <2>2. CASE f[1] # r
    <3>1. call[f[1]].res = "none" \/ \E m \in messages : f \in m.files
      BY <2>1, <2>2 DEF IInv, NoOrphanFiles, Answered
    <3> QED BY <2>1, <2>2, <3>1, <1>1
  <2> QED BY <2>2
<1> QED BY <1>3, <1>5, <1>6, <1>7, <1>8 DEF IInv

-------------------------------------------------------------------------------
(* The steps of a call. *)

(* The variable call when only the entry of r changes. *)
LEMMA OneCall ==
    ASSUME IInv, NEW r \in Calls, NEW n \in Call, call' = [call EXCEPT ![r] = n]
    PROVE  /\ call' \in [Calls -> Call] /\ call'[r] = n
           /\ \A c \in Calls \ {r} : call'[c] = call[c]
  BY DEF IInv, TypeOK

(* A call without an answer has no message; one that has not come to its   *)
(* upload has no file.                                                     *)
LEMMA NothingYet ==
    ASSUME IInv, NEW r \in Calls, call[r].res = "none"
    PROVE  /\ \A m \in messages : m.call # r
           /\ call[r].step \in {"new", "exists", "member", "upload"} => \A f \in files : f[1] # r
           /\ call[r].step # "done"
  BY DEF IInv, MessagesOK, CallOK, Ok

(* A step that leaves the messages and the disk alone. *)
LEMMA Quiet ==
    ASSUME IInv, NEW r \in Calls, NEW n \in Call, call' = [call EXCEPT ![r] = n],
           UNCHANGED <<messages, files, leftovers, lastRead>>, nextId' \in Nat, clock' \in Nat,
           CallOK(r)',
           \/ n.content = call[r].content /\ n.res = call[r].res
           \/ call[r].res = "none" /\ \A f \in files : f[1] # r,
           events' \subseteq [to : Users, chat : Chats, for : Nat, last : Nat, read : Nat, unread : Nat],
           EventsAreTrue'
    PROVE  IInv'
<1>1. /\ call' \in [Calls -> Call] /\ call'[r] = n
      /\ \A c \in Calls \ {r} : call'[c] = call[c]
  BY OneCall
<1>2. messages' = messages /\ files' = files /\ leftovers' = leftovers /\ lastRead' = lastRead
  OBVIOUS
<1>3. TypeOK'
  BY <1>1, <1>2 DEF IInv, TypeOK
<1>4. Stores(r)
  BY <1>2 DEF Stores
<1>5. leftovers \subseteq files
  BY DEF IInv, TypeOK
<1>6. CASE n.content = call[r].content /\ n.res = call[r].res
  <2>1. FilesOf(r)' = FilesOf(r)
    BY <1>1, <1>6, FilesOfFacts
  <2>2. \A f \in files' : f[1] = r => f \in FilesOf(r)'
    BY <1>2, <2>1 DEF IInv, FilesOK
  <2>3. \A f \in leftovers' : f[1] = r => call'[r].res \notin {"none", Ok}
    BY <1>1, <1>2, <1>6 DEF IInv, FilesOK
  <2>4. \A f \in files' \ leftovers' :
            f[1] = r => call'[r].res = "none" \/ \E m \in messages' : f \in m.files
    BY <1>1, <1>2, <1>6 DEF IInv, NoOrphanFiles, Answered
  <2>5. \A m \in messages' :
            m.call = r => call'[r].res \in {Ok, "ErrDB"} /\ m.files = FilesOf(r)'
    BY <1>1, <1>2, <1>6, <2>1 DEF IInv, MessagesOK
  <2> QED BY <1>1, <1>2, <1>3, <1>4, <2>2, <2>3, <2>4, <2>5, StepKeeps
<1>7. CASE call[r].res = "none" /\ \A f \in files : f[1] # r
  <2>1. \A m \in messages : m.call # r
    BY <1>7, NothingYet
  <2> QED BY <1>1, <1>2, <1>3, <1>4, <1>5, <1>7, <2>1, StepKeeps
<1> QED BY <1>6, <1>7

(* Receive: the call starts. *)
LEMMA ReceiveKeeps ==
    ASSUME IInv, NEW r \in Calls, NEW u \in Users, NEW chat \in Chats, NEW content \in Content,
           Receive(r, u, chat, content)
    PROVE  IInv'
<1> DEFINE step == IF validateMessageContent(content) THEN "exists" ELSE "done"
           res  == IF validateMessageContent(content) THEN "none" ELSE "ErrInvalidInput"
           n    == [NoCall EXCEPT !.user = u, !.chat = chat, !.content = content,
                                  !.step = step, !.res = res]
<1>1. /\ step \in Steps /\ res \in Results
      /\ (step = "exists" /\ res = "none") \/ (step = "done" /\ res = "ErrInvalidInput")
  BY DEF Steps, Results
<1>2. call[r] = NoCall /\ call' = [call EXCEPT ![r] = n]
  BY DEF Receive
<1> HIDE DEF step, res
<1>3. NoCall \in Call
  BY NoCallFacts
<1>4. n \in Call /\ n.user = u /\ n.chat = chat /\ n.step = step /\ n.res = res
  BY <1>1, <1>3 DEF Call
<1> HIDE DEF n
<1>5. call'[r] = n
  BY <1>2, <1>4, OneCall
<1>6. /\ messages' = messages /\ files' = files /\ leftovers' = leftovers
      /\ lastRead' = lastRead /\ nextId' = nextId /\ clock' = clock /\ events' = events
  BY DEF Receive, Tables, Disk
<1>7. call[r].res = "none" /\ \A f \in files : f[1] # r
  <2>1. call[r].res = "none" /\ call[r].step = "new"
    BY <1>2, NoCallFacts
  <2> QED BY <2>1, NothingYet
<1>8. CallOK(r)'
  BY <1>1, <1>4, <1>5, <1>6, <1>7 DEF CallOK, Ok
<1>9. /\ nextId \in Nat /\ clock \in Nat
      /\ events \subseteq [to : Users, chat : Chats, for : Nat, last : Nat, read : Nat, unread : Nat]
  BY DEF IInv, TypeOK
<1>10. EventsAreTrue'
  BY <1>6, EventsKept
<1> QED BY <1>2, <1>4, <1>6, <1>7, <1>8, <1>9, <1>10, Quiet

(* A step that changes nothing but the call, and only how far it is and    *)
(* its answer.                                                             *)
LEMMA Moves ==
    ASSUME IInv, NEW r \in Calls, NEW n \in Call, call' = [call EXCEPT ![r] = n],
           UNCHANGED <<Tables, Disk, events>>, CallOK(r)',
           \/ n.content = call[r].content /\ n.res = call[r].res
           \/ call[r].res = "none" /\ \A f \in files : f[1] # r
    PROVE  IInv'
<1>1. /\ messages' = messages /\ files' = files /\ leftovers' = leftovers
      /\ lastRead' = lastRead /\ nextId' = nextId /\ clock' = clock /\ events' = events
  BY DEF Tables, Disk
<1>2. /\ nextId \in Nat /\ clock \in Nat
      /\ events \subseteq [to : Users, chat : Chats, for : Nat, last : Nat, read : Nat, unread : Nat]
  BY DEF IInv, TypeOK
<1>3. EventsAreTrue'
  BY <1>1, EventsKept
<1> QED BY <1>1, <1>2, <1>3, Quiet

LEMMA CheckChatKeeps ==
    ASSUME IInv, NEW r \in Calls, CheckChat(r)
    PROVE  IInv'
<1> DEFINE k == call[r]
<1>1. k \in Call /\ CallOK(r) /\ k.step = "exists"
  BY DEF IInv, TypeOK, CheckChat
<1>2. k.res = "none" /\ (\A f \in files : f[1] # r) /\ k.user \in Users /\ k.chat \in Chats
  BY <1>1 DEF CallOK
<1>3. UNCHANGED <<Tables, Disk, events>> /\ files' = files
  BY DEF CheckChat, Disk
<1>4. CASE IsChatExist(k.chat)
  <2> DEFINE n == [k EXCEPT !.step = "member"]
  <2>1. "member" \in Steps
    BY DEF Steps
  <2>2. /\ n \in Call /\ Alike(k, n) /\ n.step = "member" /\ n.res = k.res /\ n.id = k.id
        /\ n.created = k.created /\ n.last = k.last /\ n.recipients = k.recipients
    BY <1>1, <2>1, StepFacts
  <2>3. call' = [call EXCEPT ![r] = n]
    BY <1>4 DEF CheckChat, Goto
  <2> HIDE DEF n
  <2>4. call'[r] = n
    BY <2>2, <2>3, OneCall
  <2>5. CallOK(r)'
    BY <1>2, <1>3, <2>2, <2>4 DEF CallOK, Alike, Ok
  <2> QED BY <1>2, <1>3, <2>2, <2>3, <2>5, Moves
<1>5. CASE ~IsChatExist(k.chat)
  <2> DEFINE n == [k EXCEPT !.step = "done", !.res = "ErrNotFound"]
  <2>1. "done" \in Steps /\ "ErrNotFound" \in Results
    BY DEF Steps, Results
  <2>2. /\ n \in Call /\ Alike(k, n) /\ n.step = "done" /\ n.res = "ErrNotFound" /\ n.id = k.id
        /\ n.created = k.created /\ n.last = k.last /\ n.recipients = k.recipients
    BY <1>1, <2>1 DEF Call, Alike
  <2>3. call' = [call EXCEPT ![r] = n]
    BY <1>5 DEF CheckChat, Answer
  <2> HIDE DEF n
  <2>4. call'[r] = n
    BY <2>2, <2>3, OneCall
  <2>5. CallOK(r)'
    BY <1>2, <1>3, <2>2, <2>4 DEF CallOK, Alike, Ok
  <2> QED BY <1>2, <1>3, <2>2, <2>3, <2>5, Moves
<1> QED BY <1>4, <1>5

LEMMA CheckMemberKeeps ==
    ASSUME IInv, NEW r \in Calls, CheckMember(r)
    PROVE  IInv'
<1> DEFINE k == call[r]
<1>1. k \in Call /\ CallOK(r) /\ k.step = "member"
  BY DEF IInv, TypeOK, CheckMember
<1>2. k.res = "none" /\ (\A f \in files : f[1] # r) /\ k.user \in Users /\ k.chat \in Chats
  BY <1>1 DEF CallOK
<1>3. UNCHANGED <<Tables, Disk, events>> /\ files' = files
  BY DEF CheckMember, Disk
<1>4. CASE IsMemberOfChat(k.user, k.chat)
  <2> DEFINE step == IF FilesOf(r) # {} THEN "upload" ELSE "begin"
             n == [k EXCEPT !.step = step]
  <2>1. step \in Steps
    BY DEF Steps
  <2>2. (step = "upload") \/ (step = "begin" /\ FilesOf(r) = {})
    OBVIOUS
  <2>3. call' = [call EXCEPT ![r] = n]
    BY <1>4 DEF CheckMember, Goto
  <2> HIDE DEF step
  <2>4. /\ n \in Call /\ Alike(k, n) /\ n.step = step /\ n.res = k.res /\ n.id = k.id
        /\ n.created = k.created /\ n.last = k.last /\ n.recipients = k.recipients
    BY <1>1, <2>1, StepFacts
  <2> HIDE DEF n
  <2>5. call'[r] = n
    BY <2>3, <2>4, OneCall
  <2>6. FilesOf(r)' = FilesOf(r)
    BY <2>4, <2>5, FilesOfFacts DEF Alike
  <2>7. k.user \in Members[k.chat]
    BY <1>4 DEF IsMemberOfChat
  <2>8. CallOK(r)'
    BY <1>2, <1>3, <2>2, <2>4, <2>5, <2>6, <2>7 DEF CallOK, Alike, Ok
  <2> QED BY <1>2, <1>3, <2>3, <2>4, <2>8, Moves
<1>5. CASE ~IsMemberOfChat(k.user, k.chat)
  <2> DEFINE n == [k EXCEPT !.step = "done", !.res = "ErrAccessDenied"]
  <2>1. "done" \in Steps /\ "ErrAccessDenied" \in Results
    BY DEF Steps, Results
  <2>2. /\ n \in Call /\ Alike(k, n) /\ n.step = "done" /\ n.res = "ErrAccessDenied"
        /\ n.id = k.id
        /\ n.created = k.created /\ n.last = k.last /\ n.recipients = k.recipients
    BY <1>1, <2>1 DEF Call, Alike
  <2>3. call' = [call EXCEPT ![r] = n]
    BY <1>5 DEF CheckMember, Answer
  <2> HIDE DEF n
  <2>4. call'[r] = n
    BY <2>2, <2>3, OneCall
  <2>5. CallOK(r)'
    BY <1>2, <1>3, <2>2, <2>4 DEF CallOK, Alike, Ok
  <2> QED BY <1>2, <1>3, <2>2, <2>3, <2>5, Moves
<1> QED BY <1>4, <1>5

(* UploadFiles: all files, or some of those of the failed call stay. *)
LEMMA UploadFilesKeeps ==
    ASSUME IInv, NEW r \in Calls, UploadFiles(r)
    PROVE  IInv'
<1> DEFINE k == call[r]
<1>1. k \in Call /\ CallOK(r) /\ k.step = "upload"
  BY DEF IInv, TypeOK, UploadFiles
<1>2. /\ k.res = "none" /\ (\A f \in files : f[1] # r)
      /\ k.user \in Users /\ k.chat \in Chats /\ k.user \in Members[k.chat]
  BY <1>1 DEF CallOK
<1>3. /\ messages' = messages /\ lastRead' = lastRead /\ nextId' = nextId
      /\ clock' = clock /\ events' = events
  BY DEF UploadFiles, Tables
<1>4. Stores(r) /\ EventsAreTrue'
  BY <1>3, EventsKept DEF Stores
<1>5. \A m \in messages : m.call # r
  BY <1>2, NothingYet
<1>6. FilesOf(r) \subseteq FileNames /\ \A f \in FilesOf(r) : f[1] = r
  BY FilesOfFacts
<1>7. leftovers \subseteq files
  BY DEF IInv, TypeOK
<1>8. CASE /\ files' = files \cup FilesOf(r) /\ Goto(r, "begin") /\ leftovers' = leftovers
  <2> DEFINE n == [k EXCEPT !.step = "begin"]
  <2>1. "begin" \in Steps
    BY DEF Steps
  <2>2. /\ n \in Call /\ Alike(k, n) /\ n.step = "begin" /\ n.res = k.res /\ n.id = k.id
        /\ n.created = k.created /\ n.last = k.last /\ n.recipients = k.recipients
    BY <1>1, <2>1, StepFacts
  <2>3. call' = [call EXCEPT ![r] = n]
    BY <1>8 DEF Goto
  <2> HIDE DEF n
  <2>4. /\ call' \in [Calls -> Call] /\ call'[r] = n
        /\ \A c \in Calls \ {r} : call'[c] = call[c]
    BY <2>2, <2>3, OneCall
  <2>5. FilesOf(r)' = FilesOf(r)
    BY <2>2, <2>4, FilesOfFacts DEF Alike
  <2>6. TypeOK'
    BY <1>3, <1>6, <1>8, <2>4 DEF IInv, TypeOK
  <2>7. CallOK(r)'
    BY <1>2, <1>8, <2>2, <2>4, <2>5 DEF CallOK, Alike, Ok
  <2>8. \A f \in files' : f[1] = r => f \in FilesOf(r)'
    BY <1>2, <1>8, <2>5
  <2>9. \A f \in leftovers' : f[1] # r
    BY <1>2, <1>7, <1>8
  <2>10. \A f \in FileNames : f[1] # r => /\ f \in files' <=> f \in files
                                          /\ f \in leftovers' <=> f \in leftovers
    BY <1>6, <1>8
  <2>11. call'[r].res = "none" /\ \A m \in messages' : m.call # r
    BY <1>2, <1>3, <1>5, <2>2, <2>4
  <2> QED BY <1>4, <2>4, <2>6, <2>7, <2>8, <2>9, <2>10, <2>11, StepKeeps
<1>9. CASE /\ \E left \in SUBSET FilesOf(r) :
                 files' = files \cup left /\ leftovers' = leftovers \cup left
           /\ Answer(r, "ErrService")
  <2>1. PICK left \in SUBSET FilesOf(r) :
            files' = files \cup left /\ leftovers' = leftovers \cup left
    BY <1>9
  <2> DEFINE n == [k EXCEPT !.step = "done", !.res = "ErrService"]
  <2>2. "done" \in Steps /\ "ErrService" \in Results
    BY DEF Steps, Results
  <2>3. /\ n \in Call /\ Alike(k, n) /\ n.step = "done" /\ n.res = "ErrService"
    BY <1>1, <2>2 DEF Call, Alike
  <2>4. call' = [call EXCEPT ![r] = n]
    BY <1>9 DEF Answer
  <2> HIDE DEF n
  <2>5. /\ call' \in [Calls -> Call] /\ call'[r] = n
        /\ \A c \in Calls \ {r} : call'[c] = call[c]
    BY <2>3, <2>4, OneCall
  <2>6. FilesOf(r)' = FilesOf(r)
    BY <2>3, <2>5, FilesOfFacts DEF Alike
  <2>7. TypeOK'
    BY <1>3, <1>6, <2>1, <2>5 DEF IInv, TypeOK
  <2>8. CallOK(r)'
    BY <1>2, <2>3, <2>5 DEF CallOK, Alike, Ok
  <2>9. \A f \in files' : f[1] = r => f \in FilesOf(r)' /\ f \in leftovers'
    BY <1>2, <2>1, <2>6
  <2>10. \A f \in FileNames : f[1] # r => /\ f \in files' <=> f \in files
                                          /\ f \in leftovers' <=> f \in leftovers
    BY <1>6, <2>1
  <2>11. call'[r].res \notin {"none", Ok} /\ \A m \in messages' : m.call # r
    BY <1>3, <1>5, <2>3, <2>5 DEF Ok
  <2> QED BY <1>4, <2>5, <2>7, <2>8, <2>9, <2>10, <2>11, StepKeeps
<1> QED BY <1>8, <1>9 DEF UploadFiles

(* The store has failed: the answer is ErrDB and the uploads go, unless    *)
(* the disk fails.                                                         *)
LEMMA AbortKeeps ==
    ASSUME IInv, NEW r \in Calls, Abort(r), Stores(r),
           call[r].step \in {"begin", "insert", "commit"},
           UNCHANGED <<clock, lastRead, events>>, nextId' \in Nat
    PROVE  IInv'
<1> DEFINE k == call[r]
<1>1. k \in Call /\ CallOK(r)
  BY DEF IInv, TypeOK
<1>2. /\ k.res = "none" /\ k.user \in Users /\ k.chat \in Chats
  BY <1>1 DEF CallOK
<1>3. lastRead' = lastRead /\ clock' = clock /\ events' = events
  OBVIOUS
<1>4. messages \subseteq messages' /\ messages' \subseteq MessageRow
  <2>1. messages \subseteq MessageRow
    BY DEF IInv, TypeOK
  <2> QED BY <2>1, RowFacts DEF Stores
<1>5. EventsAreTrue'
  BY <1>3, <1>4, EventsKept
<1>6. FilesOf(r) \subseteq FileNames /\ \A f \in FilesOf(r) : f[1] = r
  BY FilesOfFacts
<1>7. PICK left \in SUBSET FilesOf(r) : /\ files' = (files \ FilesOf(r)) \cup left
                                        /\ leftovers' = leftovers \cup left
  BY DEF Abort
<1> DEFINE n == [k EXCEPT !.step = "done", !.res = "ErrDB"]
<1>8. "done" \in Steps /\ "ErrDB" \in Results
  BY DEF Steps, Results
<1>9. /\ n \in Call /\ Alike(k, n) /\ n.step = "done" /\ n.res = "ErrDB"
  BY <1>1, <1>8 DEF Call, Alike
<1>10. call' = [call EXCEPT ![r] = n]
  BY DEF Abort, Answer
<1> HIDE DEF n
<1>11. /\ call' \in [Calls -> Call] /\ call'[r] = n
       /\ \A c \in Calls \ {r} : call'[c] = call[c]
  BY <1>9, <1>10, OneCall
<1>12. FilesOf(r)' = FilesOf(r)
  BY <1>9, <1>11, FilesOfFacts DEF Alike
<1>13. \A f \in leftovers : f[1] # r
  BY <1>2 DEF IInv, FilesOK
<1>14. TypeOK'
  <2>1. leftovers \subseteq files /\ files \subseteq FileNames
    BY DEF IInv, TypeOK
  <2>2. leftovers' \subseteq files' /\ files' \subseteq FileNames
    BY <1>6, <1>7, <1>13, <2>1
  <2> QED BY <1>3, <1>4, <1>11, <2>2 DEF IInv, TypeOK
<1>15. CallOK(r)'
  BY <1>2, <1>9, <1>11 DEF CallOK, Alike, Ok
<1>16. \A f \in files' : f[1] = r => f \in FilesOf(r)' /\ f \in leftovers'
  <2>1. \A f \in files : f[1] = r => f \in FilesOf(r)
    BY DEF IInv, FilesOK
  <2> QED BY <1>7, <1>12, <2>1
<1>17. \A f \in FileNames : f[1] # r => /\ f \in files' <=> f \in files
                                        /\ f \in leftovers' <=> f \in leftovers
  BY <1>6, <1>7
<1>18. call'[r].res \notin {"none", Ok} /\ call'[r].res \in {Ok, "ErrDB"}
  BY <1>9, <1>11 DEF Ok
<1>19. \A m \in messages' : m.call = r => m.files = FilesOf(r)'
  <2>1. \A m \in messages : m.call # r
    BY <1>2, NothingYet
  <2> QED BY <2>1, <1>12, RowFacts DEF Stores
<1> QED BY <1>5, <1>11, <1>14, <1>15, <1>16, <1>17, <1>18, <1>19, StepKeeps

LEMMA BeginTxKeeps ==
    ASSUME IInv, NEW r \in Calls, BeginTx(r)
    PROVE  IInv'
<1> DEFINE k == call[r]
<1>1. k \in Call /\ CallOK(r) /\ k.step = "begin" /\ clock \in Nat /\ nextId \in Nat
  BY DEF IInv, TypeOK, BeginTx
<1>2. /\ k.res = "none" /\ FilesOf(r) \subseteq files
      /\ k.user \in Users /\ k.chat \in Chats /\ k.user \in Members[k.chat]
  BY <1>1 DEF CallOK
<1>3. /\ messages' = messages /\ files' = files /\ leftovers' = leftovers
      /\ lastRead' = lastRead /\ nextId' = nextId /\ clock' = clock + 1 /\ events' = events
  BY DEF BeginTx, Disk
<1> DEFINE n == [k EXCEPT !.step = "insert", !.created = clock]
<1>4. "insert" \in Steps
  BY DEF Steps
<1>5. n \in Call /\ Alike(k, n) /\ n.step = "insert" /\ n.res = k.res
  BY <1>1, <1>4 DEF Call, Alike
<1>6. call' = [call EXCEPT ![r] = n]
  BY DEF BeginTx
<1> HIDE DEF n
<1>7. call'[r] = n
  BY <1>5, <1>6, OneCall
<1>8. FilesOf(r)' = FilesOf(r)
  BY <1>5, <1>7, FilesOfFacts DEF Alike
<1>9. CallOK(r)'
  BY <1>2, <1>3, <1>5, <1>7, <1>8 DEF CallOK, Alike, Ok
<1>10. /\ nextId' \in Nat /\ clock' \in Nat /\ EventsAreTrue' /\ n.content = k.content
       /\ events' \subseteq [to : Users, chat : Chats, for : Nat, last : Nat, read : Nat, unread : Nat]
  BY <1>1, <1>3, <1>5, EventsKept DEF IInv, TypeOK, Alike
<1> QED BY <1>3, <1>5, <1>6, <1>9, <1>10, Quiet

LEMMA InsertMessageKeeps ==
    ASSUME IInv, NEW r \in Calls, InsertMessage(r)
    PROVE  IInv'
<1> DEFINE k == call[r]
<1>1. k \in Call /\ CallOK(r) /\ k.step = "insert" /\ clock \in Nat /\ nextId \in Nat
  BY DEF IInv, TypeOK, InsertMessage
<1>2. /\ k.res = "none" /\ FilesOf(r) \subseteq files
      /\ k.user \in Users /\ k.chat \in Chats /\ k.user \in Members[k.chat]
  BY <1>1 DEF CallOK
<1>3. /\ messages' = messages /\ lastRead' = lastRead /\ nextId' = nextId + 1
      /\ clock' = clock /\ events' = events
  BY DEF InsertMessage
<1>4. /\ nextId' \in Nat /\ clock' \in Nat /\ EventsAreTrue'
      /\ events' \subseteq [to : Users, chat : Chats, for : Nat, last : Nat, read : Nat, unread : Nat]
  BY <1>1, <1>3, EventsKept DEF IInv, TypeOK
<1> DEFINE n == [k EXCEPT !.step = "commit", !.id = nextId]
<1>5. CASE /\ k.content.sticker # "unknown" /\ call' = [call EXCEPT ![r] = n]
           /\ files' = files /\ leftovers' = leftovers
  <2>1. "commit" \in Steps
    BY DEF Steps
  <2>2. n \in Call /\ Alike(k, n) /\ n.step = "commit" /\ n.res = k.res
    BY <1>1, <2>1 DEF Call, Alike
  <2>3. call' = [call EXCEPT ![r] = n]
    BY <1>5
  <2> HIDE DEF n
  <2>4. call'[r] = n
    BY <2>2, <2>3, OneCall
  <2>5. FilesOf(r)' = FilesOf(r)
    BY <2>2, <2>4, FilesOfFacts DEF Alike
  <2>6. CallOK(r)'
    BY <1>2, <1>3, <1>5, <2>2, <2>4, <2>5 DEF CallOK, Alike, Ok
  <2>7. n.content = k.content
    BY <2>2 DEF Alike
  <2> QED BY <1>3, <1>4, <1>5, <2>2, <2>3, <2>6, <2>7, Quiet
<1>6. CASE Abort(r)
  <2>1. Stores(r)
    BY <1>3 DEF Stores
  <2> QED BY <1>1, <1>3, <1>4, <1>6, <2>1, AbortKeeps
<1> QED BY <1>5, <1>6 DEF InsertMessage, Disk

LEMMA CommitKeeps ==
    ASSUME IInv, NEW r \in Calls, Commit(r)
    PROVE  IInv'
<1> DEFINE k == call[r]
<1>1. k \in Call /\ CallOK(r) /\ k.step = "commit" /\ clock \in Nat /\ nextId \in Nat
  BY DEF IInv, TypeOK, Commit
<1>2. /\ k.res = "none" /\ FilesOf(r) \subseteq files /\ k.content.sticker # "unknown"
      /\ k.user \in Users /\ k.chat \in Chats /\ k.user \in Members[k.chat]
  BY <1>1 DEF CallOK
<1>3. /\ messages' = messages \cup {Row(r)} /\ lastRead' = lastRead /\ nextId' = nextId
      /\ clock' = clock /\ events' = events
  BY DEF Commit
<1>4. Stores(r) /\ EventsAreTrue'
  BY <1>1, <1>3, EventsKept DEF Stores
<1> DEFINE n == [k EXCEPT !.step = "chat", !.res = Ok]
<1>5. CASE /\ call' = [call EXCEPT ![r] = n] /\ files' = files /\ leftovers' = leftovers
  <2>1. "chat" \in Steps /\ Ok \in Results
    BY DEF Steps, Results
  <2>2. /\ n \in Call /\ Alike(k, n) /\ n.step = "chat" /\ n.res = Ok
        /\ n.id = k.id /\ n.created = k.created
    BY <1>1, <2>1 DEF Call, Alike
  <2>3. call' = [call EXCEPT ![r] = n]
    BY <1>5
  <2> HIDE DEF n
  <2>4. /\ call' \in [Calls -> Call] /\ call'[r] = n
        /\ \A c \in Calls \ {r} : call'[c] = call[c]
    BY <2>2, <2>3, OneCall
  <2>5. FilesOf(r)' = FilesOf(r)
    BY <2>2, <2>4, FilesOfFacts DEF Alike
  <2>6. Row(r)' = Row(r)
    BY <2>2, <2>4, <2>5 DEF Row, Alike
  <2>7. /\ Row(r) \in MessageRow /\ Row(r).id = call[r].id /\ Row(r).chat = call[r].chat
        /\ Row(r).author = call[r].user /\ Row(r).created = call[r].created
        /\ Row(r).files = FilesOf(r) /\ Row(r).call = r
        /\ Row(r).author \in Members[Row(r).chat]
    BY <1>1, RowFacts
  <2>8. TypeOK'
    BY <1>3, <1>5, <2>4, <2>7 DEF IInv, TypeOK
  <2>9. CallOK(r)'
    BY <1>2, <1>3, <1>5, <2>2, <2>4, <2>5, <2>6 DEF CallOK, Alike, Ok
  <2>10. \A f \in files' : f[1] = r => f \in FilesOf(r)'
    BY <1>5, <2>5 DEF IInv, FilesOK
  <2>11. \A f \in leftovers' : f[1] # r
    BY <1>2, <1>5 DEF IInv, FilesOK
  <2>12. \A f \in files' : f[1] = r => \E m \in messages' : f \in m.files
    BY <1>3, <2>5, <2>7, <2>10
  <2>13. \A m \in messages' :
             m.call = r => call'[r].res \in {Ok, "ErrDB"} /\ m.files = FilesOf(r)'
    <3>1. \A m \in messages : m.call # r
      BY <1>2, NothingYet
    <3> QED BY <1>3, <2>2, <2>4, <2>5, <2>7, <3>1
  <2> QED BY <1>4, <1>5, <2>4, <2>8, <2>9, <2>10, <2>11, <2>12, <2>13, StepKeeps
<1>6. CASE Abort(r)
  BY <1>1, <1>3, <1>4, <1>6, AbortKeeps
<1> QED BY <1>5, <1>6 DEF Commit, Disk

-------------------------------------------------------------------------------
(* The notifying goroutine. *)

(* The last message of a chat that has one. *)
LEMMA LastMessageFacts ==
    ASSUME IInv, NEW c \in Chats, In(c) # {}
    PROVE  /\ LastMessage(c) \in In(c)
           /\ \A n \in In(c) : n.created <= LastMessage(c).created
  BY DEF IInv, LastExists, LastMessage

(* A message above the last read one is counted. *)
LEMMA UnreadFacts ==
    ASSUME IInv, NEW u \in Users, NEW c \in Chats
    PROVE  /\ UnreadCount(u, c) \in Nat
           /\ \A m \in In(c) : m.id > lastRead[<<u, c>>] => UnreadCount(u, c) > 0
<1> DEFINE S == {m \in In(c) : m.id > lastRead[<<u, c>>]}
<1>1. IsFiniteSet(messages) /\ S \subseteq messages
  BY DEF IInv, MessagesOK, In
<1>2. IsFiniteSet(S)
  BY <1>1, FS_Subset
<1>3. Cardinality(S) \in Nat /\ (Cardinality(S) = 0 <=> S = {})
  BY <1>2, FS_CardinalityType, FS_EmptySet
<1>4. UnreadCount(u, c) = Cardinality(S)
  BY DEF UnreadCount
<1>5. \A m \in In(c) : m.id > lastRead[<<u, c>>] => S # {}
  OBVIOUS
<1> HIDE DEF S
<1> QED BY <1>3, <1>4, <1>5

(* ReadChat: the message it finds is the one of the call or a later one. *)
LEMMA ReadChatKeeps ==
    ASSUME IInv, NEW r \in Calls, ReadChat(r)
    PROVE  IInv'
<1> DEFINE k == call[r]
<1>1. k \in Call /\ CallOK(r) /\ k.step = "chat"
  BY DEF IInv, TypeOK, ReadChat
<1>2. /\ k.res = Ok /\ FilesOf(r) \subseteq files /\ Row(r) \in messages
      /\ k.content.sticker # "unknown"
      /\ k.user \in Users /\ k.chat \in Chats /\ k.user \in Members[k.chat]
  BY <1>1 DEF CallOK, Ok
<1>3. UNCHANGED <<Tables, Disk, events>> /\ files' = files /\ messages' = messages
  BY DEF ReadChat, Disk, Tables
<1> DEFINE last == LastMessage(k.chat)
<1>4. Row(r).chat = k.chat /\ Row(r).created = k.created
  BY DEF Row
<1>5. last \in messages /\ last.chat = k.chat /\ k.created <= last.created
  <2>1. Row(r) \in In(k.chat)
    BY <1>2, <1>4 DEF In
  <2>2. last \in In(k.chat) /\ Row(r).created <= last.created
    BY <1>2, <2>1, LastMessageFacts
  <2> QED BY <1>4, <2>2 DEF In
<1> HIDE DEF last
<1>6. last.id \in Nat
  BY <1>5 DEF IInv, TypeOK, MessageRow
<1> DEFINE n == [k EXCEPT !.step = "recipients", !.last = last.id]
<1>7. "recipients" \in Steps
  BY DEF Steps
<1>8. /\ n \in Call /\ Alike(k, n) /\ n.step = "recipients" /\ n.res = k.res /\ n.id = k.id
      /\ n.created = k.created /\ n.last = last.id
  BY <1>1, <1>6, <1>7 DEF Call, Alike
<1>9. call' = [call EXCEPT ![r] = n]
  BY DEF ReadChat, last
<1> HIDE DEF n
<1>10. call'[r] = n
  BY <1>8, <1>9, OneCall
<1>11. FilesOf(r)' = FilesOf(r)
  BY <1>8, <1>10, FilesOfFacts DEF Alike
<1>12. Row(r)' = Row(r)
  BY <1>8, <1>10, <1>11 DEF Row, Alike
<1>13. \E m \in messages' : m.id = n.last /\ m.chat = n.chat /\ n.created <= m.created
  BY <1>3, <1>5, <1>8 DEF Alike
<1>14. CallOK(r)'
  BY <1>2, <1>3, <1>8, <1>10, <1>11, <1>12, <1>13 DEF CallOK, Alike, Ok
<1>15. n.content = k.content
  BY <1>8 DEF Alike
<1> QED BY <1>3, <1>8, <1>9, <1>14, <1>15, Moves

(* ReadRecipients: the last message is still there to be counted. *)
LEMMA ReadRecipientsKeeps ==
    ASSUME IInv, NEW r \in Calls, ReadRecipients(r)
    PROVE  IInv'
<1> DEFINE k == call[r]
<1>1. k \in Call /\ CallOK(r) /\ k.step = "recipients"
  BY DEF IInv, TypeOK, ReadRecipients
<1>2. /\ k.res = Ok /\ FilesOf(r) \subseteq files /\ Row(r) \in messages
      /\ k.content.sticker # "unknown"
      /\ k.user \in Users /\ k.chat \in Chats /\ k.user \in Members[k.chat]
      /\ \E m \in messages : m.id = k.last /\ m.chat = k.chat /\ k.created <= m.created
  BY <1>1 DEF CallOK, Ok
<1>3. UNCHANGED <<Tables, Disk, events>> /\ files' = files /\ messages' = messages
  BY DEF ReadRecipients, Disk, Tables
<1> DEFINE found == GetOtherChatMembers(k.user, k.chat)
<1>4. /\ found \subseteq [to : Users, read : Nat, unread : Nat]
      /\ \A p \in found : p.read < k.last => p.unread > 0
  <2> SUFFICES ASSUME NEW p \in found
               PROVE  /\ p \in [to : Users, read : Nat, unread : Nat]
                      /\ p.read < k.last => p.unread > 0
    OBVIOUS
  <2>1. PICK v \in Members[k.chat] \ {k.user} :
            p = [to |-> v, read |-> lastRead[<<v, k.chat>>], unread |-> UnreadCount(v, k.chat)]
    BY DEF GetOtherChatMembers
  <2>2. v \in Users
    BY <1>2, <2>1, MembersAssumption
  <2>3. lastRead[<<v, k.chat>>] \in Nat
    BY <1>2, <2>2 DEF IInv, TypeOK
  <2>4. /\ UnreadCount(v, k.chat) \in Nat
        /\ \A m \in In(k.chat) : m.id > lastRead[<<v, k.chat>>] => UnreadCount(v, k.chat) > 0
    BY <1>2, <2>2, UnreadFacts
  <2>5. PICK m \in In(k.chat) : m.id = k.last
    BY <1>2 DEF In
  <2>6. m.id \in Nat
    BY <2>5 DEF IInv, TypeOK, In, MessageRow
  <2>7. lastRead[<<v, k.chat>>] < k.last => UnreadCount(v, k.chat) > 0
    BY <2>3, <2>4, <2>5, <2>6
  <2> QED BY <2>1, <2>2, <2>3, <2>4, <2>7
<1> HIDE DEF found
<1> DEFINE n == [k EXCEPT !.step = "send", !.recipients = found]
<1>5. "send" \in Steps
  BY DEF Steps
<1>6. /\ n \in Call /\ Alike(k, n) /\ n.step = "send" /\ n.res = k.res /\ n.id = k.id
      /\ n.created = k.created /\ n.last = k.last /\ n.recipients = found
  BY <1>1, <1>4, <1>5 DEF Call, Alike
<1>7. call' = [call EXCEPT ![r] = n]
  BY DEF ReadRecipients, found
<1> HIDE DEF n
<1>8. call'[r] = n
  BY <1>6, <1>7, OneCall
<1>9. FilesOf(r)' = FilesOf(r)
  BY <1>6, <1>8, FilesOfFacts DEF Alike
<1>10. Row(r)' = Row(r)
  BY <1>6, <1>8, <1>9 DEF Row, Alike
<1>11. /\ \E m \in messages' : m.id = n.last /\ m.chat = n.chat /\ n.created <= m.created
       /\ \A p \in n.recipients : p.read < n.last => p.unread > 0
  BY <1>2, <1>3, <1>4, <1>6 DEF Alike
<1>12. CallOK(r)'
  BY <1>2, <1>3, <1>6, <1>8, <1>9, <1>10, <1>11 DEF CallOK, Alike, Ok
<1>13. n.content = k.content
  BY <1>6 DEF Alike
<1> QED BY <1>3, <1>6, <1>7, <1>12, <1>13, Moves

(* The goroutine ends: what was promised to the caller stays. *)
LEMMA EndFacts ==
    ASSUME IInv, NEW r \in Calls, NEW n \in Call, call' = [call EXCEPT ![r] = n],
           call[r].step \in {"chat", "recipients", "send"}, n = [call[r] EXCEPT !.step = "done"],
           files' = files, messages' = messages
    PROVE  CallOK(r)' /\ n.content = call[r].content /\ n.res = call[r].res
<1> DEFINE k == call[r]
<1>1. k \in Call /\ CallOK(r)
  BY DEF IInv, TypeOK
<1>2. /\ k.res = Ok /\ FilesOf(r) \subseteq files /\ Row(r) \in messages
      /\ k.user \in Users /\ k.chat \in Chats
  BY <1>1 DEF CallOK, Ok
<1>3. "done" \in Steps
  BY DEF Steps
<1>4. /\ n \in Call /\ Alike(k, n) /\ n.step = "done" /\ n.res = k.res /\ n.id = k.id
      /\ n.created = k.created /\ n.last = k.last /\ n.recipients = k.recipients
  BY <1>1, <1>3, StepFacts
<1>5. call'[r] = n
  BY OneCall
<1>6. FilesOf(r)' = FilesOf(r)
  BY <1>4, <1>5, FilesOfFacts DEF Alike
<1>7. Row(r)' = Row(r)
  BY <1>4, <1>5, <1>6 DEF Row, Alike
<1>8. CallOK(r)'
  BY <1>2, <1>4, <1>5, <1>6, <1>7 DEF CallOK, Alike, Ok
<1> QED BY <1>4, <1>8 DEF Alike

(* SendEvents: what was read before is sent, and it is still true. *)
LEMMA SendEventsKeeps ==
    ASSUME IInv, NEW r \in Calls, SendEvents(r)
    PROVE  IInv'
<1> DEFINE k == call[r]
           n == [k EXCEPT !.step = "done"]
           Event == [to : Users, chat : Chats, for : Nat, last : Nat, read : Nat, unread : Nat]
           event(p) == [to |-> p.to, chat |-> k.chat, for |-> k.id, last |-> k.last,
                        read |-> p.read, unread |-> p.unread]
<1>1. k \in Call /\ CallOK(r) /\ k.step = "send"
  BY DEF IInv, TypeOK, SendEvents
<1>2. /\ k.res = Ok /\ Row(r) \in messages /\ k.chat \in Chats
      /\ \E m \in messages : m.id = k.last /\ m.chat = k.chat /\ k.created <= m.created
      /\ \A p \in k.recipients : p.read < k.last => p.unread > 0
  BY <1>1 DEF CallOK, Ok
<1>3. /\ messages' = messages /\ files' = files /\ leftovers' = leftovers
      /\ lastRead' = lastRead /\ nextId' = nextId /\ clock' = clock
      /\ events' = events \cup {event(p) : p \in k.recipients}
      /\ call' = [call EXCEPT ![r] = n]
  BY DEF SendEvents, Disk, Tables, Goto
<1>4. n \in Call
  <2>1. "done" \in Steps
    BY DEF Steps
  <2> QED BY <1>1, <2>1 DEF Call
<1>5. CallOK(r)' /\ n.content = k.content /\ n.res = k.res
  BY <1>1, <1>3, <1>4, EndFacts
<1> HIDE DEF n
<1>6. k.id \in Nat /\ k.last \in Nat /\ k.recipients \subseteq [to : Users, read : Nat, unread : Nat]
  BY <1>1, CallFields
<1>7. ASSUME NEW p \in k.recipients
      PROVE  /\ event(p) \in Event /\ event(p).for = k.id /\ event(p).last = k.last
             /\ event(p).read < event(p).last => event(p).unread > 0
  BY <1>2, <1>6
<1>8. /\ nextId' \in Nat /\ clock' \in Nat
  BY <1>3 DEF IInv, TypeOK
<1>9. events' \subseteq Event
  BY <1>3, <1>7 DEF IInv, TypeOK
<1>10. \A e \in events' : e \in events \/ \E p \in k.recipients : e = event(p)
  BY <1>3
<1>11. EventsAddUp'
  <2>1. \A e \in events : e.read < e.last => e.unread > 0
    BY DEF IInv, EventsAreTrue, EventsAddUp
  <2> HIDE DEF event
  <2> QED BY <1>7, <1>10, <2>1 DEF EventsAddUp
<1>12. EventsAreFresh'
  <2> SUFFICES ASSUME NEW e \in events'
               PROVE  \E m, l \in messages : /\ m.id = e.for /\ l.id = e.last
                                             /\ m.chat = l.chat /\ m.created <= l.created
    BY <1>3 DEF EventsAreFresh
  <2>1. CASE e \in events
    BY <2>1 DEF IInv, EventsAreTrue, EventsAreFresh
  <2>2. CASE \E p \in k.recipients : e = event(p)
    <3>1. e.for = k.id /\ e.last = k.last
      BY <2>2, <1>7
    <3>2. PICK l \in messages : l.id = k.last /\ l.chat = k.chat /\ k.created <= l.created
      BY <1>2
    <3>3. Row(r).id = k.id /\ Row(r).chat = k.chat /\ Row(r).created = k.created
      BY DEF Row
    <3> QED BY <1>2, <3>1, <3>2, <3>3
  <2> QED BY <1>10, <2>1, <2>2
<1>13. EventsAreTrue'
  BY <1>11, <1>12 DEF EventsAreTrue
<1> QED BY <1>3, <1>4, <1>5, <1>8, <1>9, <1>13, Quiet

(* Fail, at any step that calls another process. *)
LEMMA FailKeeps ==
    ASSUME IInv, NEW r \in Calls, Fail(r)
    PROVE  IInv'
<1> DEFINE k == call[r]
<1>1. k \in Call /\ CallOK(r)
  BY DEF IInv, TypeOK
<1>2. "done" \in Steps /\ "ErrDB" \in Results
  BY DEF Steps, Results
<1>3. UNCHANGED <<Tables, events>> /\ messages' = messages /\ nextId' \in Nat
  BY DEF Fail, Tables, IInv, TypeOK
<1>4. CASE k.step \in {"exists", "member"} /\ Answer(r, "ErrDB") /\ UNCHANGED Disk
  <2> DEFINE n == [k EXCEPT !.step = "done", !.res = "ErrDB"]
  <2>1. n \in Call /\ Alike(k, n) /\ n.step = "done" /\ n.res = "ErrDB"
    BY <1>1, <1>2 DEF Call, Alike
  <2>2. call' = [call EXCEPT ![r] = n]
    BY <1>4 DEF Answer
  <2> HIDE DEF n
  <2>3. call'[r] = n
    BY <2>1, <2>2, OneCall
  <2>4. k.res = "none" /\ (\A f \in files : f[1] # r) /\ k.user \in Users /\ k.chat \in Chats
    BY <1>1, <1>4 DEF CallOK
  <2>5. CallOK(r)'
    BY <2>1, <2>3, <2>4 DEF CallOK, Alike, Ok
  <2> QED BY <1>3, <1>4, <2>1, <2>2, <2>4, <2>5, Moves
<1>5. CASE k.step \in {"begin", "insert", "commit"} /\ Abort(r)
  <2>1. Stores(r) /\ UNCHANGED <<clock, lastRead, events>>
    BY <1>3 DEF Stores, Tables
  <2> QED BY <1>3, <1>5, <2>1, AbortKeeps
<1>6. CASE k.step \in {"chat", "recipients"} /\ Goto(r, "done") /\ UNCHANGED Disk
  <2> DEFINE n == [k EXCEPT !.step = "done"]
  <2>1. n \in Call
    BY <1>1, <1>2 DEF Call
  <2>2. call' = [call EXCEPT ![r] = n]
    BY <1>6 DEF Goto
  <2>3. files' = files
    BY <1>6 DEF Disk
  <2>4. CallOK(r)' /\ n.content = k.content /\ n.res = k.res
    BY <1>3, <1>6, <2>1, <2>2, <2>3, EndFacts
  <2> HIDE DEF n
  <2> QED BY <1>3, <1>6, <2>1, <2>2, <2>4, Moves
<1> QED BY <1>4, <1>5, <1>6 DEF Fail

-------------------------------------------------------------------------------
(* The invariant. *)

(* Only read reports, or nothing at all. *)
LEMMA SameKeeps ==
    ASSUME IInv, UNCHANGED <<messages, nextId, clock, files, leftovers, call, events>>,
           lastRead' \in [Users \X Chats -> Nat]
    PROVE  IInv'
<1>1. /\ messages' = messages /\ files' = files /\ leftovers' = leftovers
      /\ nextId' = nextId /\ clock' = clock /\ call' = call /\ events' = events
  OBVIOUS
<1>2. TypeOK'
  BY <1>1 DEF IInv, TypeOK
<1>3. \A r \in Calls : CallOK(r)' /\ FilesOf(r)' = FilesOf(r)
  <2> SUFFICES ASSUME NEW r \in Calls PROVE CallOK(r)' /\ FilesOf(r)' = FilesOf(r)
    OBVIOUS
  <2> QED BY <1>1, <1>2, OthersKeep, FilesOfFacts DEF TypeOK
<1>4. MessagesOK' /\ FilesOK'
  <2>1. \A m \in messages : m.call \in Calls
    BY DEF IInv, TypeOK, MessageRow
  <2>2. \A f \in files : f[1] \in Calls
    BY FileNameFacts DEF IInv, TypeOK
  <2>3. MessagesOK'
    BY <1>1, <1>3, <2>1 DEF IInv, MessagesOK
  <2>4. FilesOK'
    BY <1>1, <1>3, <2>2 DEF IInv, FilesOK
  <2> QED BY <2>3, <2>4
<1>5. LastExists' /\ NoOrphanFiles'
  BY <1>1 DEF IInv, LastExists, In, NoOrphanFiles, Answered
<1>6. EventsAreTrue'
  BY <1>1, EventsKept
<1> QED BY <1>2, <1>3, <1>4, <1>5, <1>6 DEF IInv

(* A read report moves the number of one member up. *)
LEMMA ReadReport ==
    ASSUME IInv, NEW u \in Users, UpdateLastReadHandler(u)
    PROVE  /\ UNCHANGED <<messages, nextId, clock, files, leftovers, call, events>>
           /\ lastRead' \in [Users \X Chats -> Nat]
           /\ \A p \in Users \X Chats : lastRead'[p] >= lastRead[p]
<1>1. PICK chat \in Chats, id \in 1..Cardinality(Calls) : UpdateLastReadMessage(u, chat, id)
  BY DEF UpdateLastReadHandler
<1>2. Cardinality(Calls) \in Nat
  BY CallsAssumption, FS_CardinalityType
<1>3. id \in Nat
  BY <1>2
<1>4. lastRead \in [Users \X Chats -> Nat]
  BY DEF IInv, TypeOK
<1>5. /\ id > lastRead[<<u, chat>>]
      /\ lastRead' = [lastRead EXCEPT ![<<u, chat>>] = id]
      /\ UNCHANGED <<messages, nextId, clock, files, leftovers, call, events>>
  BY <1>1 DEF UpdateLastReadMessage, UpdateLastReadMessageByUserIDAndChatID, Disk
<1>6. <<u, chat>> \in Users \X Chats
  OBVIOUS
<1>7. \A p \in Users \X Chats : lastRead[p] \in Nat
  BY <1>4
<1>8. \A p \in Users \X Chats : lastRead'[p] = IF p = <<u, chat>> THEN id ELSE lastRead[p]
  BY <1>4, <1>5
<1>9. \A p \in Users \X Chats : lastRead'[p] >= lastRead[p]
  BY <1>3, <1>5, <1>7, <1>8
<1> QED BY <1>3, <1>4, <1>5, <1>9

LEMMA InitIInv ==
    ASSUME Init
    PROVE  IInv
<1>1. \A r \in Calls : call[r] = NoCall
  BY DEF Init
<1>2. TypeOK
  BY NoCallFacts DEF Init, TypeOK
<1>3. \A r \in Calls : CallOK(r)
  BY <1>1, NoCallFacts DEF CallOK, Init, Ok
<1>4. MessagesOK
  BY FS_EmptySet DEF Init, MessagesOK
<1>5. LastExists /\ FilesOK /\ NoOrphanFiles /\ EventsAreTrue
  BY DEF Init, LastExists, In, FilesOK, NoOrphanFiles, EventsAreTrue, EventsAddUp, EventsAreFresh
<1> QED BY <1>2, <1>3, <1>4, <1>5 DEF IInv

LEMMA NextIInv ==
    ASSUME IInv, [Next]_vars
    PROVE  IInv'
<1>1. ASSUME NEW r \in Calls, Step(r) PROVE IInv'
  BY <1>1, CheckChatKeeps, CheckMemberKeeps, UploadFilesKeeps, BeginTxKeeps, InsertMessageKeeps,
     CommitKeeps, ReadChatKeeps, ReadRecipientsKeeps, SendEventsKeeps DEF Step
<1>2. ASSUME NEW r \in Calls, NEW u \in Users, NEW chat \in Chats, NEW content \in Content,
             Receive(r, u, chat, content)
      PROVE  IInv'
  BY <1>2, ReceiveKeeps
<1>3. ASSUME NEW r \in Calls, Fail(r) PROVE IInv'
  BY <1>3, FailKeeps
<1>4. ASSUME NEW u \in Users, UpdateLastReadHandler(u) PROVE IInv'
  BY <1>4, ReadReport, SameKeeps
<1>5. CASE UNCHANGED vars
  <2>1. /\ UNCHANGED <<messages, nextId, clock, files, leftovers, call, events>>
        /\ lastRead' \in [Users \X Chats -> Nat]
    BY <1>5 DEF vars, IInv, TypeOK
  <2> QED BY <2>1, SameKeeps
<1> QED BY <1>1, <1>2, <1>3, <1>4, <1>5 DEF Next

LEMMA SpecIInv == Spec => []IInv
  BY InitIInv, NextIInv, PTL DEF Spec

(* Messages and read reports are never taken back. *)
LEMMA NothingIsTakenBack ==
    ASSUME IInv, [Next]_vars
    PROVE  /\ messages \subseteq messages'
           /\ \A p \in Users \X Chats : lastRead'[p] \in Nat /\ lastRead'[p] >= lastRead[p]
<1>1. \A p \in Users \X Chats : lastRead[p] \in Nat
  BY DEF IInv, TypeOK
<1>2. ASSUME NEW r \in Calls, NEW u \in Users, NEW chat \in Chats, NEW content \in Content,
             Receive(r, u, chat, content)
      PROVE  messages \subseteq messages' /\ lastRead' = lastRead
  BY <1>2 DEF Receive, Tables
<1>3. ASSUME NEW r \in Calls, Step(r)
      PROVE  messages \subseteq messages' /\ lastRead' = lastRead
  <2>1. CASE CheckChat(r) \/ CheckMember(r) \/ UploadFiles(r) \/ BeginTx(r)
    BY <2>1 DEF CheckChat, CheckMember, UploadFiles, BeginTx, Tables
  <2>2. CASE InsertMessage(r) \/ Commit(r)
    BY <2>2 DEF InsertMessage, Commit
  <2>3. CASE ReadChat(r) \/ ReadRecipients(r) \/ SendEvents(r)
    BY <2>3 DEF ReadChat, ReadRecipients, SendEvents, Tables
  <2> QED BY <1>3, <2>1, <2>2, <2>3 DEF Step
<1>4. ASSUME NEW r \in Calls, Fail(r)
      PROVE  messages \subseteq messages' /\ lastRead' = lastRead
  BY <1>4 DEF Fail, Tables
<1>5. ASSUME NEW u \in Users, UpdateLastReadHandler(u)
      PROVE  /\ messages \subseteq messages'
             /\ \A p \in Users \X Chats : lastRead'[p] \in Nat /\ lastRead'[p] >= lastRead[p]
  BY <1>5, ReadReport
<1>6. CASE UNCHANGED vars
  BY <1>1, <1>6 DEF vars
<1> QED BY <1>1, <1>2, <1>3, <1>4, <1>5, <1>6 DEF Next

(* The chat list of a user after a step. *)
LEMMA UnreadStep ==
    ASSUME IInv, [Next]_vars, NEW u \in Users, NEW old \in GetUserFullChats(u)
    PROVE  \E new \in GetUserFullChats(u)' :
               /\ new.chat = old.chat
               /\ new.read >= old.read
               /\ new.unread > old.unread => In(old.chat)' # In(old.chat)
<1>1. IInv'
  BY NextIInv
<1>2. PICK c \in {d \in Chats : u \in Members[d] /\ In(d) # {}} :
          old = [chat |-> c, last |-> LastMessage(c).id, read |-> lastRead[<<u, c>>],
                 unread |-> UnreadCount(u, c)]
  BY DEF GetUserFullChats
<1>3. /\ messages \subseteq messages'
      /\ lastRead'[<<u, c>>] \in Nat /\ lastRead[<<u, c>>] \in Nat
      /\ lastRead'[<<u, c>>] >= lastRead[<<u, c>>]
  BY NothingIsTakenBack DEF IInv, TypeOK
<1>4. In(c)' # {}
  BY <1>2, <1>3 DEF In
<1> DEFINE last == LastMessage(c)'.id
           new  == [chat |-> c, last |-> last, read |-> lastRead'[<<u, c>>],
                    unread |-> UnreadCount(u, c)']
<1>5. new \in GetUserFullChats(u)'
  BY <1>2, <1>4 DEF GetUserFullChats
<1>6. old.chat = c /\ old.read = lastRead[<<u, c>>] /\ old.unread = UnreadCount(u, c)
  BY <1>2
<1> HIDE DEF last
<1>7. /\ new.chat = c /\ new.read = lastRead'[<<u, c>>] /\ new.unread = UnreadCount(u, c)'
  OBVIOUS
<1> HIDE DEF new
<1>8. In(c)' = In(c) => ~(UnreadCount(u, c)' > UnreadCount(u, c))
  <2> SUFFICES ASSUME In(c)' = In(c) PROVE ~(UnreadCount(u, c)' > UnreadCount(u, c))
    OBVIOUS
  <2> DEFINE S == {m \in In(c) : m.id > lastRead[<<u, c>>]}
             T == {m \in In(c) : m.id > lastRead'[<<u, c>>]}
  <2>1. \A m \in In(c) : m.id \in Nat
    BY DEF IInv, TypeOK, In, MessageRow
  <2>2. T \subseteq S
    BY <1>3, <2>1
  <2>3. IsFiniteSet(S)
    <3>1. IsFiniteSet(messages) /\ S \subseteq messages
      BY DEF IInv, MessagesOK, In
    <3> QED BY <3>1, FS_Subset
  <2>4. Cardinality(S) \in Nat /\ Cardinality(T) \in Nat /\ Cardinality(T) <= Cardinality(S)
    <3> HIDE DEF S, T
    <3> QED BY <2>2, <2>3, FS_Subset, FS_CardinalityType
  <2>5. UnreadCount(u, c) = Cardinality(S) /\ UnreadCount(u, c)' = Cardinality(T)
    BY DEF UnreadCount
  <2> HIDE DEF S, T
  <2> QED BY <2>4, <2>5
<1> QED BY <1>3, <1>5, <1>6, <1>7, <1>8

-------------------------------------------------------------------------------
(* The results. *)

(* Every variable keeps its type, a stored message has its attachments on  *)
(* disk unless its author was told that it failed, and no upload is left   *)
(* behind except by the disk itself, wherever CreateMessage fails and      *)
(* however many of its calls overlap.                                      *)
THEOREM DiskAgreesAlways == Spec => []DiskAgrees
<1>1. ASSUME IInv PROVE DiskAgrees
  <2>1. ASSUME NEW m \in messages PROVE m.files \subseteq files \/ call[m.call].res = "ErrDB"
    <3>1. /\ m.call \in Calls /\ call[m.call].res \in {Ok, "ErrDB"}
          /\ m.files = FilesOf(m.call)
      BY <1>1 DEF IInv, TypeOK, MessageRow, MessagesOK
    <3>2. call[m.call].res = Ok => FilesOf(m.call) \subseteq files
      BY <1>1, <3>1 DEF IInv, CallOK
    <3> QED BY <3>1, <3>2
  <2> QED BY <1>1, <2>1 DEF IInv, DiskAgrees, AttachmentsStored
<1> QED BY <1>1, SpecIInv, PTL

(* CreateMessage answers Ok only for a message that is stored and an error *)
(* other than ErrDB only for one that never is, and no message in a chat   *)
(* is by a stranger.                                                       *)
THEOREM AnswersTruly == Spec => []AnswersAreTrue
<1>1. ASSUME IInv PROVE AnswersAreTrue
  <2>1. ASSUME NEW r \in Calls, call[r].res = Ok
        PROVE  \E m \in messages : m.call = r /\ m.id = call[r].id
    <3>1. Row(r) \in messages
      BY <1>1, <2>1 DEF IInv, CallOK
    <3>2. Row(r).call = r /\ Row(r).id = call[r].id
      BY DEF Row
    <3> QED BY <3>1, <3>2
  <2>2. ASSUME NEW r \in Calls, call[r].res \notin {Ok, "ErrDB"}
        PROVE  \A m \in messages : m.call # r
    BY <1>1, <2>2 DEF IInv, MessagesOK
  <2>3. \A m \in messages : m.author \in Members[m.chat]
    BY <1>1 DEF IInv, MessagesOK
  <2> QED BY <2>1, <2>2, <2>3 DEF AnswersAreTrue
<1> QED BY <1>1, SpecIInv, PTL

(* The event the goroutine sends for a message shows that message or a     *)
(* later one of the chat, and an unread count that fits it, although the   *)
(* two come from different queries, between which other messages are       *)
(* stored and read.                                                        *)
THEOREM EventsTellTheTruth == Spec => []EventsAreTrue
<1>1. IInv => EventsAreTrue
  BY DEF IInv
<1> QED BY <1>1, SpecIInv, PTL

(* In the chat list of a user no chat disappears, the last read message    *)
(* never goes back and the unread count grows only with a new message,     *)
(* whichever ids the read reports of UpdateLastReadMessage name and        *)
(* whatever order they come in.                                            *)
THEOREM UnreadNeverRolledBack == Spec => UnreadNotRolledBack
<1>1. IInv /\ [Next]_vars =>
         [\A u \in Users : \A old \in GetUserFullChats(u) : \E new \in GetUserFullChats(u)' :
             /\ new.chat = old.chat
             /\ new.read >= old.read
             /\ new.unread > old.unread => In(old.chat)' # In(old.chat)]_vars
  BY UnreadStep
<1> QED BY <1>1, SpecIInv, PTL DEF Spec, UnreadNotRolledBack

-------------------------------------------------------------------------------
(* The positions of messages differ. *)

LEMMA PositionsAtFirst == Init => PositionsDiffer
  BY DEF Init, PositionsDiffer, Started, Inserted, NoCall

(* A step that gives no call a new position. *)
LEMMA PositionsKept ==
    ASSUME TypeOK, PositionsDiffer, messages' = messages,
           clock' \in Nat, clock <= clock', nextId' \in Nat, nextId <= nextId',
           \A s \in Calls : Started(s)' => Started(s) /\ call'[s].created = call[s].created,
           \A s \in Calls : Inserted(s)' => Inserted(s) /\ call'[s].id = call[s].id
    PROVE  PositionsDiffer'
<1>1. /\ \A m \in messages : m.created \in Nat /\ m.id \in Nat
      /\ clock \in Nat /\ nextId \in Nat
      /\ \A s \in Calls : call[s].created \in Nat /\ call[s].id \in Nat
  BY CallFields DEF TypeOK, MessageRow
<1> QED BY <1>1 DEF PositionsDiffer, Started, Inserted

LEMMA StepKeepsPositions ==
    ASSUME IInv, PositionsDiffer, NEW r \in Calls,
           Step(r) \/ Fail(r) \/ \E u \in Users, chat \in Chats, content \in Content : Receive(r, u, chat, content)
    PROVE  PositionsDiffer'
<1>t. TypeOK /\ clock \in Nat /\ nextId \in Nat
  BY DEF IInv, TypeOK
<1>c. call \in [Calls -> Call]
  BY <1>t DEF TypeOK
<1>1. CASE \/ CheckChat(r) \/ CheckMember(r) \/ UploadFiles(r) \/ ReadChat(r) \/ ReadRecipients(r)
           \/ SendEvents(r) \/ Fail(r)
           \/ \E u \in Users, chat \in Chats, content \in Content : Receive(r, u, chat, content)
  <2>1. messages' = messages /\ clock' = clock /\ nextId' = nextId
    BY <1>1 DEF CheckChat, CheckMember, UploadFiles, ReadChat, ReadRecipients, SendEvents, Fail,
       Receive, Tables
  <2>2. \E k : /\ call' = [call EXCEPT ![r] = k]
               /\ k.step \notin {"insert", "commit"}
    <3>1. CASE Fail(r)
      BY <1>c, <3>1 DEF Fail, Answer, Goto, Abort, Call
    <3>2. CASE CheckChat(r) \/ CheckMember(r)
      BY <1>c, <3>2 DEF CheckChat, CheckMember, Answer, Goto, Call
    <3>3. CASE UploadFiles(r) \/ ReadChat(r) \/ ReadRecipients(r) \/ SendEvents(r)
      BY <1>c, <3>3 DEF UploadFiles, ReadChat, ReadRecipients, SendEvents, Answer, Goto, Call
    <3>4. CASE \E u \in Users, chat \in Chats, content \in Content : Receive(r, u, chat, content)
      <4>1. PICK u \in Users, chat \in Chats, content \in Content : Receive(r, u, chat, content)
        BY <3>4
      <4>2. PICK step \in {"exists", "done"}, res \in {"none", "ErrInvalidInput"} :
               call' = [call EXCEPT ![r] = [NoCall EXCEPT !.user = u, !.chat = chat, !.content = content,
                                                          !.step = step, !.res = res]]
        BY <4>1 DEF Receive
      <4>3. PICK k : k = [NoCall EXCEPT !.user = u, !.chat = chat, !.content = content,
                                        !.step = step, !.res = res]
        OBVIOUS
      <4>4. k.step = step
        BY <4>3 DEF NoCall
      <4> QED BY <4>2, <4>3, <4>4
    <3> QED BY <1>1, <3>1, <3>2, <3>3, <3>4
  <2>3. \A s \in Calls : /\ Started(s)' => Started(s) /\ call'[s].created = call[s].created
                         /\ Inserted(s)' => Inserted(s) /\ call'[s].id = call[s].id
    BY <1>c, <2>2 DEF Started, Inserted
  <2> QED BY <1>t, <2>1, <2>3, PositionsKept
<1>2. CASE BeginTx(r)
  <2>1. /\ messages' = messages /\ clock' = clock + 1 /\ nextId' = nextId
        /\ call[r].step = "begin"
        /\ call'[r].step = "insert" /\ call'[r].created = clock
        /\ \A s \in Calls \ {r} : call'[s] = call[s]
    BY <1>2, <1>c DEF BeginTx, Call
  <2>2. \A m \in messages : m.created < clock /\ m.id < nextId /\ m.created \in Nat
    BY <1>t DEF PositionsDiffer, TypeOK, MessageRow
  <2>3. \A s \in Calls : call[s].created \in Nat
    BY <1>c, CallFields
  <2> QED BY <1>t, <2>1, <2>2, <2>3 DEF PositionsDiffer, Started, Inserted
<1>3. CASE InsertMessage(r)
  <2>1. CASE call'[r].step = "commit" /\ call'[r].id = nextId
    <3>1. /\ messages' = messages /\ clock' = clock /\ nextId' = nextId + 1
          /\ call[r].step = "insert"
      BY <1>3 DEF InsertMessage
    <3>2. /\ call'[r].created = call[r].created
          /\ \A s \in Calls \ {r} : call'[s] = call[s]
      BY <1>3, <1>c, <2>1 DEF InsertMessage, Abort, Answer, Call
    <3>3. \A m \in messages : m.created < clock /\ m.id < nextId /\ m.id \in Nat
      BY <1>t DEF PositionsDiffer, TypeOK, MessageRow
    <3>4. \A s \in Calls : call[s].id \in Nat
      BY <1>c, CallFields
    <3> QED BY <1>t, <2>1, <3>1, <3>2, <3>3, <3>4 DEF PositionsDiffer, Started, Inserted
  <2>2. CASE Answer(r, "ErrDB")
    <3>1. messages' = messages /\ clock' = clock /\ nextId' = nextId + 1
      BY <1>3 DEF InsertMessage
    <3>2. \A s \in Calls : /\ Started(s)' => Started(s) /\ call'[s].created = call[s].created
                           /\ Inserted(s)' => Inserted(s) /\ call'[s].id = call[s].id
      BY <1>c, <2>2 DEF Answer, Call, Started, Inserted
    <3> QED BY <1>t, <3>1, <3>2, PositionsKept
  <2>3. Answer(r, "ErrDB") \/ (call'[r].step = "commit" /\ call'[r].id = nextId)
    BY <1>3, <1>c DEF InsertMessage, Abort, Call
  <2> QED BY <2>1, <2>2, <2>3
<1>4. CASE Commit(r)
  <2>k. PICK row : row = Row(r)
    OBVIOUS
  <2>1. /\ messages' = messages \cup {row} /\ clock' = clock /\ nextId' = nextId
        /\ call[r].step = "commit"
    BY <1>4, <2>k DEF Commit
  <2>2. row.created = call[r].created /\ row.id = call[r].id
    BY <2>k DEF Row
  <2>3. \A s \in Calls : s # r => call'[s] = call[s]
    BY <1>4, <1>c DEF Commit, Abort, Answer, Call
  <2>4. call'[r].step \notin {"insert", "commit"}
    BY <1>4, <1>c DEF Commit, Abort, Answer, Call
  <2> QED BY <2>1, <2>2, <2>3, <2>4 DEF PositionsDiffer, Started, Inserted
<1> QED BY <1>1, <1>2, <1>3, <1>4 DEF Step

LEMMA NextPositions == IInv /\ PositionsDiffer /\ [Next]_vars => PositionsDiffer'
<1> SUFFICES ASSUME IInv, PositionsDiffer, [Next]_vars PROVE PositionsDiffer'
  OBVIOUS
<1>1. ASSUME NEW r \in Calls,
             Step(r) \/ Fail(r) \/ \E u \in Users, chat \in Chats, content \in Content : Receive(r, u, chat, content)
      PROVE  PositionsDiffer'
  BY <1>1, StepKeepsPositions
<1>2. CASE (\E u \in Users : UpdateLastReadHandler(u)) \/ UNCHANGED vars
  <2>1. messages' = messages /\ clock' = clock /\ nextId' = nextId /\ call' = call
    BY <1>2 DEF UpdateLastReadHandler, UpdateLastReadMessage, vars
  <2> QED BY <2>1 DEF PositionsDiffer, Started, Inserted
<1> QED BY <1>1, <1>2 DEF Next

LEMMA PositionsAlwaysDiffer == Spec => [](IInv /\ PositionsDiffer)
  BY InitIInv, NextIInv, PositionsAtFirst, NextPositions, PTL DEF Spec
-------------------------------------------------------------------------------
(* The lists of messages and of chats. *)

LEMMA FiniteMessages ==
    ASSUME IInv
    PROVE  IsFiniteSet(messages) /\ \A c : IsFiniteSet(In(c)) /\ In(c) \subseteq messages
<1>1. IsFiniteSet(messages) /\ \A c : In(c) \subseteq messages
  BY DEF IInv, MessagesOK, In
<1> QED BY <1>1, FS_Subset

NameOf(u, profiles) == IF u \in profiles THEN u ELSE NoUser

LEMMA NameFound ==
    ASSUME NEW ids, NEW profiles, NEW v \in ids
    PROVE  ProfileIn(GetShortProfileMapByUserIDs(ids, profiles), v) = NameOf(v, profiles)
  BY DEF ProfileIn, GetShortProfileMapByUserIDs, NameOf

(* What becomes of a message and of a row of the chat list. *)
MessageItem(x, profiles) == <<x, NameOf(x.author, profiles)>>
ChatItem(c, u, profiles) ==
    [row |-> c, name |-> NameOf(UserIDWith(u, c.chat), profiles),
     author |-> NameOf(LastMessage(c.chat).author, profiles)]

LEMMA MessagesWithAuthors ==
    ASSUME NEW items, NEW profiles
    PROVE  WithAuthors(items, profiles) = [i \in DOMAIN items |-> MessageItem(items[i], profiles)]
<1>a. PICK ids : ids = {items[i].author : i \in DOMAIN items}
  OBVIOUS
<1>m. PICK map : map = GetShortProfileMapByUserIDs(ids, profiles)
  OBVIOUS
<1>1. WithAuthors(items, profiles) = [i \in DOMAIN items |-> <<items[i], ProfileIn(map, items[i].author)>>]
  BY <1>a, <1>m DEF WithAuthors
<1>2. \A i \in DOMAIN items : ProfileIn(map, items[i].author) = NameOf(items[i].author, profiles)
  BY <1>a, <1>m, NameFound
<1> QED BY <1>1, <1>2 DEF MessageItem

LEMMA ChatsWithNames ==
    ASSUME NEW items, NEW u, NEW profiles
    PROVE  WithNames(items, u, profiles) = [i \in DOMAIN items |-> ChatItem(items[i], u, profiles)]
<1>a. PICK ids : ids = UNION {{LastMessage(items[i].chat).author, UserIDWith(u, items[i].chat)} : i \in DOMAIN items}
  OBVIOUS
<1>m. PICK map : map = GetShortProfileMapByUserIDs(ids, profiles)
  OBVIOUS
<1>1. WithNames(items, u, profiles) =
        [i \in DOMAIN items |-> [row |-> items[i], name |-> ProfileIn(map, UserIDWith(u, items[i].chat)),
                                 author |-> ProfileIn(map, LastMessage(items[i].chat).author)]]
  BY <1>a, <1>m DEF WithNames
<1>2. \A i \in DOMAIN items : UserIDWith(u, items[i].chat) \in ids /\ LastMessage(items[i].chat).author \in ids
  BY <1>a
<1>3. \A i \in DOMAIN items :
         /\ ProfileIn(map, UserIDWith(u, items[i].chat)) = NameOf(UserIDWith(u, items[i].chat), profiles)
         /\ ProfileIn(map, LastMessage(items[i].chat).author) = NameOf(LastMessage(items[i].chat).author, profiles)
  BY <1>m, <1>2, NameFound
<1> QED BY <1>1, <1>3 DEF ChatItem

(* The messages of a chat. *)
MessageEntry(m, lost, profiles) == MessageItem(Message(m, lost), profiles)
MessageEntries(S, lost, profiles) == [m \in S |-> MessageEntry(m, lost, profiles)]
MessageRange(S, lost, profiles) == {MessageEntry(m, lost, profiles) : m \in S}

MessagesPagewise(list, view, profiles) ==
    \A page, limit \in Int :
       [Paged(list, page, limit) EXCEPT !.items = WithAuthors(@, profiles)] = Paged(view, page, limit)

LEMMA MessageListFacts ==
    ASSUME IInv, PositionsDiffer, NEW chat, NEW lost, NEW profiles, NEW S, S = In(chat),
           NEW list, list = MessagesByChatId(chat, lost),
           NEW view, view = WithAuthors(list, profiles),
           NEW V, V = MessageRange(S, lost, profiles), NEW h, h = MessageEntries(S, lost, profiles)
    PROVE  /\ view \in Seq(V) /\ Enumerates(view, h, S) /\ TellsApart(h, S)
           /\ MessagesPagewise(list, view, profiles)
           /\ \A x \in S : (\A y \in S : y.created <= x.created) => view[1] = h[x]
<1>0. IsFiniteSet(S) /\ S \subseteq messages
  BY FiniteMessages
<1>r. PICK rank : rank = [m \in S |-> -m.created]
  OBVIOUS
<1>s. PICK s : s = InOrder(S, rank)
  OBVIOUS
<1>T. PICK T : T = {Message(m, lost) : m \in S}
  OBVIOUS
<1>f. PICK f : f = [m \in S |-> Message(m, lost)]
  OBVIOUS
<1>g. PICK g : g = [x \in T |-> MessageItem(x, profiles)]
  OBVIOUS
<1>1. /\ Maps(f, S, T) /\ Maps(g, T, V)
      /\ \A m \in S : h[m] = g[f[m]]
  BY <1>T, <1>f, <1>g DEF Maps, MessageEntry, MessageEntries, MessageRange
<1>2. TellsApart(h, S)
  <2>1. \A m \in S : h[m][1].id = m.id
    BY DEF MessageEntries, MessageEntry, MessageItem, Message
  <2>2. \A m, n \in S : m.id = n.id => m = n
    BY <1>0 DEF PositionsDiffer
  <2> QED BY <2>1, <2>2 DEF TellsApart
<1>3. Maps(rank, S, Int) /\ TellsApart(rank, S)
  <2>1. \A m \in S : m.created \in Nat
    BY <1>0 DEF IInv, TypeOK, MessageRow
  <2>2. \A m, n \in S : m.created = n.created => m = n
    BY <1>0 DEF PositionsDiffer
  <2> QED BY <1>r, <2>1, <2>2 DEF Maps, TellsApart
<1>m. PICK made : made = MadeOf(s, f)
  OBVIOUS
<1>d. DOMAIN s = 1..Cardinality(S) /\ s \in [1..Cardinality(S) -> S]
  <2>1. TellsApart(f, S)
    BY <1>1, <1>2 DEF TellsApart
  <2> QED BY <1>0, <1>1, <1>3, <1>s, <1>m, <2>1, RowsInOrder
<1>i. \A i \in DOMAIN s : s[i] \in S
  BY <1>d
<1>4. list = MadeOf(s, f)
  <2>1. list = [i \in DOMAIN s |-> Message(s[i], lost)]
    BY <1>r, <1>s DEF MessagesByChatId
  <2> QED BY <1>f, <1>i, <2>1 DEF MadeOf
<1>5. \A x : (\A i \in DOMAIN x : x[i] \in T) => WithAuthors(x, profiles) = MadeOf(x, g)
  BY <1>g, MessagesWithAuthors DEF MadeOf
<1>6. view = MadeOf(list, g)
  <2>1. \A i \in DOMAIN list : list[i] \in T
    BY <1>1, <1>4, <1>i DEF MadeOf, Maps
  <2> QED BY <1>5, <2>1
<1>7. list \in Seq(T) /\ view \in Seq(V) /\ Enumerates(view, h, S)
  BY <1>0, <1>1, <1>2, <1>3, <1>4, <1>6, <1>s, RowsMadeInOrder
<1>8. ASSUME NEW page \in Int, NEW limit \in Int
      PROVE  [Paged(list, page, limit) EXCEPT !.items = WithAuthors(@, profiles)] = Paged(view, page, limit)
  <2>r. PICK result : result = Paged(list, page, limit)
    OBVIOUS
  <2>1. Paged(view, page, limit) = [err |-> result.err, items |-> MadeOf(result.items, g)]
    BY <1>1, <1>6, <1>7, <2>r, PageOfMade
  <2>2. result.items \in Seq(T) /\ result = [err |-> result.err, items |-> result.items]
    BY <1>7, <2>r, PagedItems
  <2>3. WithAuthors(result.items, profiles) = MadeOf(result.items, g)
    BY <1>5, <2>2
  <2>4. [result EXCEPT !.items = WithAuthors(@, profiles)]
          = [err |-> result.err, items |-> WithAuthors(result.items, profiles)]
    BY <2>2
  <2> QED BY <2>1, <2>3, <2>4, <2>r
<1>9. ASSUME NEW x \in S, \A y \in S : y.created <= x.created
      PROVE  view[1] = h[x]
  <2>1. \A y \in S : rank[x] <= rank[y]
    <3>1. \A m \in S : m.created \in Nat
      BY <1>0 DEF IInv, TypeOK, MessageRow
    <3> QED BY <1>r, <1>9, <3>1
  <2>2. 1 \in DOMAIN s /\ s[1] = x
    BY <1>0, <1>3, <1>s, <2>1, LowestFirst
  <2>3. list[1] = f[x] /\ 1 \in DOMAIN list
    BY <1>4, <2>2 DEF MadeOf
  <2>4. view[1] = g[f[x]]
    BY <1>6, <2>3 DEF MadeOf
  <2> QED BY <1>1, <2>4
<1> QED BY <1>2, <1>7, <1>8, <1>9 DEF MessagesPagewise
-------------------------------------------------------------------------------
(* The chats of a user. *)

Listed(u) == {d \in Chats : u \in Members[d] /\ In(d) # {}}

LEMMA ChatRowFacts ==
    ASSUME NEW u
    PROVE  /\ \A c \in GetUserFullChats(u) :
                 /\ c.chat \in Listed(u) /\ c.last = LastMessage(c.chat).id
                 /\ c.read = lastRead[<<u, c.chat>>] /\ c.unread = UnreadCount(u, c.chat)
           /\ \A c, d \in GetUserFullChats(u) : c.chat = d.chat => c = d
           /\ \A x \in Listed(u) : \E c \in GetUserFullChats(u) : c.chat = x
<1>r. PICK row : row = [x \in Listed(u) |->
                          [chat |-> x, last |-> LastMessage(x).id, read |-> lastRead[<<u, x>>],
                           unread |-> UnreadCount(u, x)]]
  OBVIOUS
<1>1. GetUserFullChats(u) = {row[x] : x \in Listed(u)}
  BY <1>r DEF GetUserFullChats, Listed
<1>2. \A x \in Listed(u) : /\ row[x].chat = x /\ row[x].last = LastMessage(x).id
                           /\ row[x].read = lastRead[<<u, x>>] /\ row[x].unread = UnreadCount(u, x)
  BY <1>r
<1>3. ASSUME NEW c \in GetUserFullChats(u) PROVE c.chat \in Listed(u) /\ c = row[c.chat]
  <2>1. PICK x \in Listed(u) : c = row[x]
    BY <1>1, <1>3
  <2> QED BY <1>2, <2>1
<1>4. \A x \in Listed(u) : row[x] \in GetUserFullChats(u)
  BY <1>1
<1> QED BY <1>2, <1>3, <1>4

LEMMA FewChats ==
    ASSUME IInv, NEW u, NEW rows, rows = GetUserFullChats(u)
    PROVE  IsFiniteSet(rows) /\ Cardinality(rows) \in Nat /\ Cardinality(rows) <= Cardinality(messages)
           /\ Cardinality(messages) \in Nat
<1>m. PICK first : first = [c \in rows |-> LastMessage(c.chat)]
  OBVIOUS
<1>1. \A c \in rows : first[c] \in messages /\ first[c].chat = c.chat
  <2>1. \A x \in Listed(u) : LastMessage(x) \in In(x)
    BY LastMessageFacts DEF Listed
  <2> QED BY <1>m, <2>1, ChatRowFacts DEF In
<1>2. \A c, d \in rows : first[c] = first[d] => c = d
  BY <1>1, ChatRowFacts
<1>3. first \in Injection(rows, messages)
  <2>1. first \in [rows -> messages]
    BY <1>1, <1>m
  <2> QED BY <1>2, <2>1 DEF Injection, IsInjective
<1>4. IsFiniteSet(messages)
  BY FiniteMessages
<1> QED BY <1>3, <1>4, FS_Injection, FS_CardinalityType

ChatRange(rows, u, profiles) == {ChatItem(c, u, profiles) : c \in rows}
ChatItems(rows, u, profiles) == [c \in rows |-> ChatItem(c, u, profiles)]

ChatsPagewise(list, view, u, profiles) ==
    \A page, limit \in Int :
       [Paged(list, page, limit) EXCEPT !.items = WithNames(@, u, profiles)] = Paged(view, page, limit)

LEMMA ChatListFacts ==
    ASSUME IInv, PositionsDiffer, NEW u, NEW profiles, NEW rows, rows = GetUserFullChats(u),
           NEW list, list = ChatList(u),
           NEW view, view = WithNames(list, u, profiles),
           NEW V, V = ChatRange(rows, u, profiles), NEW h, h = ChatItems(rows, u, profiles)
    PROVE  view \in Seq(V) /\ Enumerates(view, h, rows) /\ ChatsPagewise(list, view, u, profiles)
<1>0. IsFiniteSet(rows)
  BY FewChats
<1>r. PICK rank : rank = [c \in rows |-> -LastMessage(c.chat).created]
  OBVIOUS
<1>1. \A c \in rows : LastMessage(c.chat) \in messages /\ LastMessage(c.chat).chat = c.chat
  <2>1. \A x \in Listed(u) : LastMessage(x) \in In(x)
    BY LastMessageFacts DEF Listed
  <2> QED BY <2>1, ChatRowFacts DEF In
<1>2. Maps(rank, rows, Int) /\ TellsApart(rank, rows)
  <2>1. \A m \in messages : m.created \in Nat
    BY DEF IInv, TypeOK, MessageRow
  <2>2. \A m, n \in messages : m.created = n.created => m = n
    BY DEF PositionsDiffer
  <2>3. Maps(rank, rows, Int)
    BY <1>1, <1>r, <2>1 DEF Maps
  <2>4. ASSUME NEW c \in rows, NEW d \in rows, rank[c] = rank[d] PROVE c = d
    <3>1. LastMessage(c.chat).created = LastMessage(d.chat).created
      BY <1>1, <1>r, <2>1, <2>4
    <3>2. LastMessage(c.chat) = LastMessage(d.chat)
      BY <1>1, <2>2, <3>1
    <3> QED BY <1>1, <3>2, ChatRowFacts
  <2> QED BY <2>3, <2>4 DEF TellsApart
<1>3. Maps(h, rows, V) /\ TellsApart(h, rows)
  <2>1. \A c \in rows : h[c].row = c /\ h[c] \in V
    BY DEF ChatItems, ChatRange, ChatItem
  <2> QED BY <2>1 DEF Maps, TellsApart
<1>4. list = InOrder(rows, rank)
  BY <1>r DEF ChatList
<1>m. PICK made : made = MadeOf(list, h)
  OBVIOUS
<1>5. /\ DOMAIN list = 1..Cardinality(rows) /\ list \in [1..Cardinality(rows) -> rows]
      /\ made \in Seq(V) /\ Enumerates(made, h, rows)
  BY <1>0, <1>2, <1>3, <1>4, <1>m, RowsInOrder
<1>6. list \in Seq(rows)
  <2>1. Cardinality(rows) \in Nat
    BY <1>0, FS_CardinalityType
  <2> QED BY <1>5, <2>1
<1>7. \A x : (\A i \in DOMAIN x : x[i] \in rows) => WithNames(x, u, profiles) = MadeOf(x, h)
  BY ChatsWithNames DEF MadeOf, ChatItems
<1>8. view = made
  BY <1>5, <1>7, <1>m
<1>9. ASSUME NEW page \in Int, NEW limit \in Int
      PROVE  [Paged(list, page, limit) EXCEPT !.items = WithNames(@, u, profiles)] = Paged(view, page, limit)
  <2>r. PICK result : result = Paged(list, page, limit)
    OBVIOUS
  <2>1. Paged(made, page, limit) = [err |-> result.err, items |-> MadeOf(result.items, h)]
    BY <1>3, <1>6, <1>m, <2>r, PageOfMade
  <2>2. result.items \in Seq(rows) /\ result = [err |-> result.err, items |-> result.items]
    BY <1>6, <2>r, PagedItems
  <2>3. WithNames(result.items, u, profiles) = MadeOf(result.items, h)
    BY <1>7, <2>2
  <2>4. [result EXCEPT !.items = WithNames(@, u, profiles)]
          = [err |-> result.err, items |-> WithNames(result.items, u, profiles)]
    BY <2>2
  <2> QED BY <1>8, <2>1, <2>3, <2>4, <2>r
<1> QED BY <1>5, <1>8, <1>9 DEF ChatsPagewise

-------------------------------------------------------------------------------
(* Pages of messages and of chats. *)

MessagesReply(list, profiles, page, limit) ==
    Reply(page, limit, [Paged(list, page, limit) EXCEPT !.items = WithAuthors(@, profiles)])

LEMMA MessagePages ==
    ASSUME IInv, PositionsDiffer, NEW c, NEW lost, NEW profiles, NEW page \in Int, NEW limit \in Int32
    PROVE  PageIsRight(WithAuthors(MessagesByChatId(c, lost), profiles), page, limit,
              MessagesReply(MessagesByChatId(c, lost), profiles, page, limit))
<1>S. PICK S : S = In(c)
  OBVIOUS
<1>l. PICK list : list = MessagesByChatId(c, lost)
  OBVIOUS
<1>v. PICK view : view = WithAuthors(list, profiles)
  OBVIOUS
<1>V. PICK V : V = MessageRange(S, lost, profiles)
  OBVIOUS
<1>h. PICK h : h = MessageEntries(S, lost, profiles)
  OBVIOUS
<1>0. view \in Seq(V) /\ Enumerates(view, h, S) /\ MessagesPagewise(list, view, profiles)
  BY <1>S, <1>l, <1>v, <1>V, <1>h, MessageListFacts
<1>1. view \in Seq(V) /\ \A i, j \in 1..Len(view) : view[i] = view[j] => i = j
  BY <1>0 DEF Enumerates
<1>2. PageIsRight(view, page, limit, Reply(page, limit, Paged(view, page, limit)))
  BY <1>1, ReplyIsRight
<1>3. MessagesReply(list, profiles, page, limit) = Reply(page, limit, Paged(view, page, limit))
  <2>1. page \in Int /\ limit \in Int
    BY PaginationAssumption DEF Int32
  <2> QED BY <1>0, <2>1 DEF MessagesPagewise, MessagesReply
<1> QED BY <1>2, <1>3, <1>l, <1>v

LEMMA ChatPages ==
    ASSUME IInv, PositionsDiffer, NEW u, NEW profiles, NEW page \in Int, NEW limit \in Int32
    PROVE  PageIsRight(WithNames(ChatList(u), u, profiles), page, limit,
              GetUserChatsHandler(u, page, limit, profiles))
<1>S. PICK rows : rows = GetUserFullChats(u)
  OBVIOUS
<1>l. PICK list : list = ChatList(u)
  OBVIOUS
<1>v. PICK view : view = WithNames(list, u, profiles)
  OBVIOUS
<1>V. PICK V : V = ChatRange(rows, u, profiles)
  OBVIOUS
<1>h. PICK h : h = ChatItems(rows, u, profiles)
  OBVIOUS
<1>0. view \in Seq(V) /\ Enumerates(view, h, rows) /\ ChatsPagewise(list, view, u, profiles)
  BY <1>S, <1>l, <1>v, <1>V, <1>h, ChatListFacts
<1>1. view \in Seq(V) /\ \A i, j \in 1..Len(view) : view[i] = view[j] => i = j
  BY <1>0 DEF Enumerates
<1>2. PageIsRight(view, page, limit, Reply(page, limit, Paged(view, page, limit)))
  BY <1>1, ReplyIsRight
<1>3. GetUserChatsHandler(u, page, limit, profiles) = Reply(page, limit, Paged(view, page, limit))
  <2>1. page \in Int /\ limit \in Int
    BY PaginationAssumption DEF Int32
  <2> QED BY <1>0, <1>l, <2>1 DEF ChatsPagewise, GetUserChatsHandler, GetUserChats
<1> QED BY <1>2, <1>3, <1>l, <1>v

(* Only members are answered. *)
LEMMA MembersOnly ==
    ASSUME IInv, NEW u, NEW c, NEW lost, NEW profiles, NEW page \in Int32, NEW limit \in Int32,
           NEW answer, answer = GetMessagesByChatIdHandler(u, c, page, limit, profiles, lost)
    PROVE  IsMemberOfChat(u, c) <=> answer.code # 403
<1>1. CASE IsMemberOfChat(u, c)
  <2>r. PICK result : result = Paged(MessagesByChatId(c, lost), page, limit)
    OBVIOUS
  <2>1. result.err \in {Ok, "ErrDB"} /\ DOMAIN result = {"err", "items"}
    BY <2>r DEF Paged
  <2>n. PICK new : new = [result EXCEPT !.items = WithAuthors(@, profiles)]
    OBVIOUS
  <2>2. new.err \in {Ok, "ErrDB"}
    BY <2>1, <2>n
  <2>3. answer = Reply(page, limit, new)
    BY <1>1, <2>n, <2>r DEF GetMessagesByChatIdHandler, GetMessagesByChatId
  <2>4. answer.code \in {400, 200, MapErrorToHTTP("ErrDB")}
    BY <2>2, <2>3 DEF Reply
  <2>5. MapErrorToHTTP("ErrDB") = 500
    BY DEF MapErrorToHTTP
  <2> QED BY <1>1, <2>4, <2>5
<1>2. CASE ~IsMemberOfChat(u, c)
  <2>1. answer = Reply(page, limit, [err |-> "ErrAccessDenied", items |-> <<>>])
    BY <1>2 DEF GetMessagesByChatIdHandler, GetMessagesByChatId
  <2>2. answer = [code |-> MapErrorToHTTP("ErrAccessDenied"), items |-> <<>>]
    BY <2>1 DEF Reply, DecodeQueryParams, Ok
  <2>3. MapErrorToHTTP("ErrAccessDenied") = 403
    BY DEF MapErrorToHTTP
  <2> QED BY <1>2, <2>2, <2>3
<1> QED BY <1>1, <1>2

LEMMA ChatPagesAreRight == IInv /\ PositionsDiffer => PagesAreRight
<1> SUFFICES ASSUME IInv, PositionsDiffer, NEW u \in Users, NEW p \in (1..Cardinality(Calls) + 1) \cap Int32
    PROVE  /\ PageIsRight(WithNames(ChatList(u), u, Users), p, 1, GetUserChatsHandler(u, p, 1, Users))
           /\ \A c \in Chats :
                 LET answer == GetMessagesByChatIdHandler(u, c, p, 1, Users, {})
                 IN  /\ IsMemberOfChat(u, c) <=> answer.code # 403
                     /\ IsMemberOfChat(u, c) =>
                           PageIsRight(WithAuthors(MessagesByChatId(c, {}), Users), p, 1, answer)
  BY Zenon DEF PagesAreRight
<1>1. p \in Int /\ p \in Int32 /\ 1 \in Int32
  BY PaginationAssumption DEF Int32
<1>2. PageIsRight(WithNames(ChatList(u), u, Users), p, 1, GetUserChatsHandler(u, p, 1, Users))
  BY <1>1, ChatPages
<1>3. ASSUME NEW c \in Chats, NEW answer, answer = GetMessagesByChatIdHandler(u, c, p, 1, Users, {})
      PROVE  /\ IsMemberOfChat(u, c) <=> answer.code # 403
             /\ IsMemberOfChat(u, c) =>
                   PageIsRight(WithAuthors(MessagesByChatId(c, {}), Users), p, 1, answer)
  <2>1. IsMemberOfChat(u, c) <=> answer.code # 403
    BY <1>1, <1>3, MembersOnly
  <2>2. ASSUME IsMemberOfChat(u, c)
        PROVE  PageIsRight(WithAuthors(MessagesByChatId(c, {}), Users), p, 1, answer)
    <3>1. answer = MessagesReply(MessagesByChatId(c, {}), Users, p, 1)
      BY <1>3, <2>2 DEF GetMessagesByChatIdHandler, GetMessagesByChatId, MessagesReply
    <3> QED BY <1>1, <3>1, MessagePages
  <2> QED BY <2>1, <2>2
<1> QED BY <1>2, <1>3
-------------------------------------------------------------------------------
(* First pages that hold everything. *)

LEMMA FewMessages ==
    ASSUME IInv, FitOnOnePage, NEW c
    PROVE  IsFiniteSet(In(c)) /\ Cardinality(In(c)) \in Nat /\ Cardinality(In(c)) <= MaxLimit
<1>1. IsFiniteSet(messages) /\ IsFiniteSet(In(c)) /\ In(c) \subseteq messages
  BY FiniteMessages
<1>2. Cardinality(In(c)) <= Cardinality(messages)
  BY <1>1, FS_Subset
<1>3. Cardinality(In(c)) \in Nat /\ Cardinality(messages) \in Nat
  BY <1>1, FS_CardinalityType
<1> QED BY <1>1, <1>2, <1>3, PaginationAssumption DEF FitOnOnePage

LEMMA FirstPageOfChats ==
    ASSUME IInv, PositionsDiffer, FitOnOnePage, NEW u, NEW profiles,
           NEW rows, rows = GetUserFullChats(u), NEW h, h = ChatItems(rows, u, profiles),
           NEW chats, chats = GetUserChatsHandler(u, 1, MaxLimit, profiles).items
    PROVE  Enumerates(chats, h, rows) /\ DOMAIN chats = 1..Len(chats)
<1>l. PICK list : list = ChatList(u)
  OBVIOUS
<1>v. PICK view : view = WithNames(list, u, profiles)
  OBVIOUS
<1>V. PICK V : V = ChatRange(rows, u, profiles)
  OBVIOUS
<1>0. view \in Seq(V) /\ Enumerates(view, h, rows) /\ ChatsPagewise(list, view, u, profiles)
  BY <1>l, <1>v, <1>V, ChatListFacts
<1>1. Len(view) <= MaxLimit
  <2>1. Len(view) = Cardinality(rows)
    BY <1>0 DEF Enumerates
  <2> QED BY <2>1, FewChats, PaginationAssumption DEF FitOnOnePage
<1>2. Paged(view, 1, MaxLimit) = [err |-> Ok, items |-> view] /\ DecodeQueryParams(1, MaxLimit)
  BY <1>0, <1>1, FirstPage
<1>3. GetUserChatsHandler(u, 1, MaxLimit, profiles) = Reply(1, MaxLimit, Paged(view, 1, MaxLimit))
  <2>1. 1 \in Int /\ MaxLimit \in Int
    BY PaginationAssumption
  <2> QED BY <1>0, <1>l, <2>1 DEF ChatsPagewise, GetUserChatsHandler, GetUserChats
<1>4. chats = view
  BY <1>2, <1>3 DEF Reply
<1> QED BY <1>0, <1>4

LEMMA FirstPageOfMessages ==
    ASSUME IInv, PositionsDiffer, FitOnOnePage, NEW u, NEW c, IsMemberOfChat(u, c), NEW lost, NEW profiles,
           NEW S, S = In(c), NEW h, h = MessageEntries(S, lost, profiles),
           NEW all, all = GetMessagesByChatIdHandler(u, c, 1, MaxLimit, profiles, lost).items
    PROVE  /\ Enumerates(all, h, S) /\ TellsApart(h, S) /\ DOMAIN all = 1..Len(all)
           /\ \A x \in S : (\A y \in S : y.created <= x.created) => all[1] = h[x]
<1>l. PICK list : list = MessagesByChatId(c, lost)
  OBVIOUS
<1>v. PICK view : view = WithAuthors(list, profiles)
  OBVIOUS
<1>V. PICK V : V = MessageRange(S, lost, profiles)
  OBVIOUS
<1>0. /\ view \in Seq(V) /\ Enumerates(view, h, S) /\ TellsApart(h, S)
      /\ MessagesPagewise(list, view, profiles)
      /\ \A x \in S : (\A y \in S : y.created <= x.created) => view[1] = h[x]
  BY <1>l, <1>v, <1>V, MessageListFacts
<1>1. Len(view) <= MaxLimit
  <2>1. Len(view) = Cardinality(S)
    BY <1>0 DEF Enumerates
  <2> QED BY <2>1, FewMessages
<1>2. Paged(view, 1, MaxLimit) = [err |-> Ok, items |-> view] /\ DecodeQueryParams(1, MaxLimit)
  BY <1>0, <1>1, FirstPage
<1>3. GetMessagesByChatIdHandler(u, c, 1, MaxLimit, profiles, lost) = Reply(1, MaxLimit, Paged(view, 1, MaxLimit))
  <2>1. 1 \in Int /\ MaxLimit \in Int
    BY PaginationAssumption
  <2> QED BY <1>0, <1>l, <2>1 DEF MessagesPagewise, GetMessagesByChatIdHandler, GetMessagesByChatId
<1>4. all = view
  BY <1>2, <1>3 DEF Reply
<1> QED BY <1>0, <1>4

(* The picker offers the stickers there are. *)
LEMMA StickersOffered ==
    ASSUME NEW packs, packs = Range(GetStickerPacksHandler.items)
    PROVE  UNION {Range(GetStickersByPackIDHandler(p).items) : p \in packs} = {"known"}
<1>r. PICK rank : rank = [p \in DOMAIN Packs |-> -p]
  OBVIOUS
<1>s. PICK s : s = InOrder(DOMAIN Packs, rank)
  OBVIOUS
<1>1. \A p \in DOMAIN Packs : p \in Int /\ 1 <= p /\ p < Half /\ p \in Nat
  BY PacksAssumption, PaginationAssumption
<1>2. GetStickerPacksHandler.items = s
  BY <1>r, <1>s DEF GetStickerPacksHandler, Respond, StickerPacks, GetStickerPacks
<1>n. PICK n : n = Cardinality(DOMAIN Packs)
  OBVIOUS
<1>3. DOMAIN s = 1..n /\ s \in [1..n -> DOMAIN Packs] /\ \A p \in DOMAIN Packs : \E i \in 1..n : s[i] = p
  <2>1. (\A p \in DOMAIN Packs : rank[p] \in Int) /\ \A p, q \in DOMAIN Packs : rank[p] = rank[q] => p = q
    BY <1>1, <1>r
  <2>2. IsFiniteSet(DOMAIN Packs)
    BY PacksAssumption
  <2> QED BY <1>n, <1>s, <2>1, <2>2, InOrderFacts
<1>4. packs = DOMAIN Packs
  BY <1>2, <1>3 DEF Range
<1>5. ASSUME NEW p \in DOMAIN Packs
      PROVE  GetStickersByPackIDHandler(p).items = Packs[p]
  <2>1. PathInt32(p).id = p
    <3>1. p \in 1..Half - 1
      BY <1>1, PaginationAssumption
    <3> QED BY <3>1, PathFacts
  <2> QED BY <2>1 DEF GetStickersByPackIDHandler, Respond, StickersByPackID, GetStickersByPackID
<1>6. \A p \in packs : Range(GetStickersByPackIDHandler(p).items) = Range(Packs[p])
  BY <1>4, <1>5
<1>7. {Range(GetStickersByPackIDHandler(p).items) : p \in packs} = {Range(Packs[p]) : p \in DOMAIN Packs}
  BY <1>4, <1>6
<1> QED BY <1>7, PacksAssumption

-------------------------------------------------------------------------------
(* A chat of the list and its messages. *)
LEMMA ChatAgrees ==
    ASSUME IInv, PositionsDiffer, FitOnOnePage, NEW u \in Users, NEW profiles, NEW lost,
           NEW c \in GetUserFullChats(u), NEW item, item = ChatItem(c, u, profiles),
           NEW all, all = GetMessagesByChatIdHandler(u, c.chat, 1, MaxLimit, profiles, lost).items,
           NEW offered, offered = {"known"}
    PROVE  RowAgrees(c, item.author, all, offered)
<1>x. PICK x : x = c.chat
  OBVIOUS
<1>S. PICK S : S = In(x)
  OBVIOUS
<1>h. PICK h : h = MessageEntries(S, lost, profiles)
  OBVIOUS
<1>0. /\ x \in Chats /\ IsMemberOfChat(u, x) /\ S # {}
      /\ c.last = LastMessage(x).id /\ c.read = lastRead[<<u, x>>] /\ c.unread = UnreadCount(u, x)
  BY <1>S, <1>x, ChatRowFacts DEF Listed, IsMemberOfChat
<1>1. /\ Enumerates(all, h, S) /\ TellsApart(h, S) /\ DOMAIN all = 1..Len(all)
      /\ \A m \in S : (\A y \in S : y.created <= m.created) => all[1] = h[m]
  BY <1>0, <1>S, <1>h, <1>x, FirstPageOfMessages
<1>2. Len(all) = Cardinality(S) /\ \A i \in 1..Len(all) : \E m \in S : all[i] = h[m]
  BY <1>1 DEF Enumerates
<1>3. \A m \in S : /\ h[m][1].id = m.id /\ h[m][1].sticker = m.sticker
                   /\ m.sticker # "none" => h[m][1].files = {}
                   /\ h[m][2] = NameOf(m.author, profiles)
  BY <1>h DEF MessageEntries, MessageEntry, MessageItem, Message
<1>4. c.last = all[1][1].id /\ item.author = all[1][2]
  <2>m. PICK m : m = LastMessage(x)
    OBVIOUS
  <2>1. m \in S /\ \A y \in S : y.created <= m.created
    BY <1>0, <1>S, <2>m, LastMessageFacts
  <2>2. all[1] = h[m]
    BY <1>1, <2>1
  <2>3. item.author = NameOf(m.author, profiles)
    BY <1>x, <2>m DEF ChatItem
  <2> QED BY <1>0, <1>3, <2>1, <2>2, <2>3, <2>m
<1>5. c.unread = Cardinality({j \in DOMAIN all : all[j][1].id > c.read})
  <2>A. PICK A : A = {m \in S : m.id > lastRead[<<u, x>>]}
    OBVIOUS
  <2>B. PICK B : B = {j \in DOMAIN all : all[j][1].id > c.read}
    OBVIOUS
  <2>1. A \in SUBSET S /\ B \in SUBSET (1..Len(all))
    BY <1>1, <2>A, <2>B
  <2>2. \A i \in 1..Len(all), m \in S : all[i] = h[m] => (i \in B <=> m \in A)
    BY <1>0, <1>1, <1>3, <2>A, <2>B
  <2>3. IsFiniteSet(S)
    BY <1>S, FiniteMessages
  <2>4. Cardinality(B) = Cardinality(A)
    BY <1>1, <2>1, <2>2, <2>3, CountAlike
  <2>5. UnreadCount(u, x) = Cardinality(A)
    BY <1>S, <2>A DEF UnreadCount
  <2> QED BY <1>0, <2>4, <2>5, <2>B
<1>6. ASSUME NEW j \in DOMAIN all, all[j][1].sticker # "none"
      PROVE  all[j][1].sticker \in offered /\ all[j][1].files = {}
  <2>1. PICK m \in S : all[j] = h[m]
    BY <1>1, <1>2, <1>6
  <2>2. m.sticker \in {"none", "known"}
    BY <1>S DEF In, IInv, TypeOK, MessageRow
  <2> QED BY <1>3, <1>6, <2>1, <2>2
<1> QED BY <1>2, <1>4, <1>5, <1>6, <1>S, <1>x DEF RowAgrees

LEMMA ListsAgree ==
    ASSUME IInv, PositionsDiffer, FitOnOnePage, NEW u \in Users, NEW profiles, NEW lost
    PROVE  ListAgrees(u, profiles, lost)
<1>c. PICK chats : chats = GetUserChatsHandler(u, 1, MaxLimit, profiles).items
  OBVIOUS
<1>o. PICK offered : offered = UNION {Range(GetStickersByPackIDHandler(p).items) : p \in Range(GetStickerPacksHandler.items)}
  OBVIOUS
<1>r. PICK rows : rows = GetUserFullChats(u)
  OBVIOUS
<1>h. PICK h : h = ChatItems(rows, u, profiles)
  OBVIOUS
<1>0. offered = {"known"}
  BY <1>o, StickersOffered
<1>1. Enumerates(chats, h, rows) /\ DOMAIN chats = 1..Len(chats)
  BY <1>c, <1>h, <1>r, FirstPageOfChats
<1>2. /\ \A i \in DOMAIN chats : \E c \in rows : chats[i] = h[c]
      /\ \A c \in rows : \E i \in DOMAIN chats : chats[i] = h[c]
  BY <1>1 DEF Enumerates
<1>3. \A c \in rows : h[c] = ChatItem(c, u, profiles) /\ h[c].row = c
  BY <1>h DEF ChatItems, ChatItem
<1>4. {chats[i].row.chat : i \in DOMAIN chats} =
         {m.chat : m \in {n \in messages : IsMemberOfChat(u, n.chat)}}
  <2>1. ASSUME NEW i \in DOMAIN chats
        PROVE  \E m \in messages : IsMemberOfChat(u, m.chat) /\ m.chat = chats[i].row.chat
    <3>1. PICK c \in rows : chats[i] = h[c]
      BY <1>2
    <3>2. c.chat \in Listed(u)
      BY <1>r, ChatRowFacts
    <3> QED BY <1>3, <3>1, <3>2 DEF Listed, In, IsMemberOfChat
  <2>2. ASSUME NEW m \in messages, IsMemberOfChat(u, m.chat)
        PROVE  \E i \in DOMAIN chats : chats[i].row.chat = m.chat
    <3>1. m.chat \in Listed(u)
      BY <2>2 DEF Listed, In, IsMemberOfChat, IInv, TypeOK, MessageRow
    <3>2. PICK c \in rows : c.chat = m.chat
      BY <1>r, <3>1, ChatRowFacts
    <3>3. PICK i \in DOMAIN chats : chats[i] = h[c]
      BY <1>2
    <3> QED BY <1>3, <3>2, <3>3
  <2> QED BY <2>1, <2>2
<1>5. ASSUME NEW i \in DOMAIN chats, NEW all,
             all = GetMessagesByChatIdHandler(u, chats[i].row.chat, 1, MaxLimit, profiles, lost).items
      PROVE  RowAgrees(chats[i].row, chats[i].author, all, offered)
  <2>1. PICK c \in rows : chats[i] = h[c]
    BY <1>2
  <2>i. PICK item : item = chats[i]
    OBVIOUS
  <2>2. c \in GetUserFullChats(u) /\ item = ChatItem(c, u, profiles) /\ item.row = c
    BY <1>3, <1>r, <2>1, <2>i
  <2>3. RowAgrees(c, item.author, all, offered)
    BY <1>0, <1>5, <2>2, <2>i, ChatAgrees
  <2> QED BY <2>2, <2>3, <2>i
<1> QED BY <1>4, <1>5, <1>c, <1>o DEF ListAgrees

LEMMA ChatsAgree == IInv /\ PositionsDiffer => ChatsAgreeWithMessages
  BY ListsAgree DEF ChatsAgreeWithMessages

(* Users see the chats as they are and nobody else's: the list of chats    *)
(* and the messages agree, and turning pages shows each of them once, for  *)
(* any number of chats, members, calls and stickers and however the        *)
(* transactions overlap.                                                   *)
THEOREM ChatsShown == Spec => []ChatsAreShown
<1>1. IInv /\ PositionsDiffer => ChatsAreShown
  BY ChatsAgree, ChatPagesAreRight DEF ChatsAreShown
<1> QED BY <1>1, PositionsAlwaysDiffer, PTL
===============================================================================
