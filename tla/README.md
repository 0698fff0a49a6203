# TLA+ models of the SLPS social network

This directory specifies, model-checks and proves properties of the back end in
`src/`: a social network in Go with profiles, friends, chats, posts and
communities.  `PROJECT.json` ties every definition to the lines it models.

## 1. The system

Four processes share one PostgreSQL database (READ COMMITTED, no explicit
locks), a Redis for sessions, Elasticsearch for name search, and a directory of
uploaded files.

| process | what runs in it |
|---|---|
| `cmd/main` | the HTTP gateway; chats, messages, posts, comments, communities, stickers and applications (support tickets); the WebSocket hub |
| `cmd/auth` | users and sessions, over gRPC |
| `cmd/profile` | profiles and their search index, over gRPC |
| `cmd/friend` | friend relations, over gRPC |

Every HTTP or gRPC request is a goroutine. A request checks with one query and
writes with another; almost nothing spans several statements in a transaction.
That, the calls between processes (each may fail after it had its effect), and
the goroutines that outlive their request are where the code is hard to test.

### Inventory

| component | state | operations | interacts with | hard behaviour | what makes it correct |
|---|---|---|---|---|---|
| friend service | table `friend_relationships` | send, accept, reject, remove; lists, counters, search | auth service (does the target exist), gateway (error mapping) | check and write are separate statements; an upsert that overwrites; lost answers | nobody becomes a friend unasked; a removed relation does not come back by itself; a user's lists agree |
| domain errors | none | to gRPC, back, to HTTP | every service | information lost on the way | the documented status codes |
| WebSocket hub | map user → client, channel per client, two goroutines per client | add, remove, send, the two pumps | chat service, network | lookup and send are not atomic; cleanup by user id; full channels | no panic, no leaked goroutine, no blocked sender, a live connection stays registered |
| chat rooms | tables `chats`, `chat_members` | get or create | auth service | search and insert race at READ COMMITTED | one chat per pair, no half-made chat |
| chat messages | `messages`, `message_attachments`, `last_read_message_id`, files | create (validate, check, upload, insert, notify), mark read, lists | uploads, hub, profile service | three orders of the same messages; files and rows are written separately; a goroutine that reads later | answers are true, attachments exist, no orphan files, unread counts do not go back |
| uploads | `./uploads` | write, delete, serve | messages, profiles, posts, communities | partial failure, crash | files and references agree |
| accounts, sessions | `users`, Redis, cookies | register, login, logout, middlewares | profile service, search index | registration spans three stores; two clocks that start at different moments; lost answers; tokens of earlier logins | answers to registrations are true; no access after logout |
| profiles | `profiles`, index, files | update, avatar, lists | uploads, index | old file deleted before the row changes | the row names an existing file, the search finds the name that is shown |
| communities | `communities`, `subscriptions`, index, files | create, update, delete, subscribe, lists | uploads, index, posts | stale values written back, cascade | files, index, counters and lists agree with the rows |
| posts, likes, comments | `posts`, media, `likes`, `comments`, files | create, update, delete, like, lists | uploads, communities, profiles | cleanup of some of the files, a toggle in one statement | files and rows agree, a like per odd click, every post shown once |
| applications | `applications`, temporary cookies | create, update, list | sessions | a goroutine merges after the answer, while the browser has other requests under way | a ticket is lost only in known ways and never goes to a stranger |
| pagination, parameters | none | limit and offset, path and query | every list | 32-bit overflow | turning pages shows each item once |
| stickers | read-only tables | lists | messages | | what is sent can be picked |
| processes | connections, calls, metrics in memory | start, wait for others, serve, call, die | all of them | order of start, a crash below a request, panics | nobody waits in a circle, requests end, metrics are right, the user is carried along |

## 2. Modules

Each component has a module with its state, its actions and its properties. An
`MC` module holds what only TLC needs, a `Proofs` module the theorems about one
component or, where the proofs are short, about a few.

| module | models | state | actions |
|---|---|---|---|
| `Errors` | `domain/errors.go` | | the three mappings as functions |
| `Friendship` | `service/friend.go`, `repository/db/friend.go`, `grpc/friend.go`, `handler/friend.go` | `rows` is the table, `req` the requests in progress, `asked` a history variable | `Receive`, then one action per call the service makes |
| `FriendGraph` | what the friend service promises | one relation per unordered pair | atomic ask, accept, reject, remove |
| `UserIds` | | | the users, and the id of nobody, for `WSHub` and `ChatRooms` |
| `WSHub` | `service/WSClient.go`, `handler/serveWs.go` | `Hub.clients`, the fields of `Client`, the position of each pump, of each sender | `AddClient`, `RemoveClient`, the two halves of `SendToUser`, the cases of both pumps' loops, and their deferred calls |
| `ChatRooms` | `GetOrCreateChatWithUser` in `service/chat.go`, `repository/db/chat.go` | committed rows, identity column, requests | check, search, insert, commit |
| `ChatMessages` | the rest of `service/chat.go`, `repository/db/chat.go` and `message.go`, the parts of `service/upload.go` it uses | committed messages, read marks, files, calls, events handed to the hub | the steps of `CreateMessage`, of its goroutine, `UpdateLastReadMessage` |
| `Pagination` | `domain/paginate.go`, the parsing of path and query in `handler/JSONHelper.go` | | pages over an `int32` of half range `Half`, ORDER BY (`InOrder`), a filter of a list (`Those`), `PageIsRight` |
| `FriendViews`, `ChatViews`, `PostViews` | the queries, services, gRPC wrappers and handlers that show what `Friendship`, `ChatMessages` and `Posts` hold; stickers | | one operator per query, service method and handler, from the tables to code and items |
| `Accounts` | `service/auth.go`, `repository/db/user.go`, `repository/dbRedis`, `handler/auth.go`, the session and CSRF middlewares | `config.Debug`, users, profiles, index, sessions and cookies with an age each, requests | the calls of each route; `Tick` lets `Hours` pass |
| `Applications` | `service/application.go`, its store and handler, `TempSessionMiddleware` | rows, sessions, temporary cookies, requests with their goroutines | the middleware, the handlers, the merge, the answer or its loss, at any number of requests of a browser at a time |
| `Profiles` | `service/profile.go`, `repository/db/profile.go`, `repository/dbElastic/profile.go`, `grpc/profile.go`, `handler/profile.go`, `uploads.go` | rows, index, files, requests | the calls of an update of profile or avatar; `Crash` |
| `Communities` | `service/community.go`, its stores and handlers | rows, subscriptions, index, files, requests | the calls of create, update, delete, subscribe; `Crash` |
| `Posts` | `service/post.go`, `service/comment.go`, their stores and handlers | posts with media, likes, comments, files, requests, the community they may belong to | the calls of every operation; `Crash`; the life of the community |
| `Metrics` | `metrics/metricsHTTP.go`, `metricsGRPC.go` | | classification, middleware and interceptor as functions |
| `Processes` | `cmd/*/main.go`, `cmd/grpcclient/client.go`, `grpc/middleware.go`, with `Metrics` | the four processes, the calls between them, their metrics | start, connect, listen, receive, call, answer, panic, crash |

Dependencies: the modules of services use `Errors`; the `Views` modules extend the module
whose tables they show and `Pagination`; `FriendGraph` is what `Friendship`
implements; `Processes` extends `Metrics`. `Accounts` gives `Applications` its
users and `Communities` gives `Posts` its community as part of the environment,
because nothing those modules say depends on more than that. `PaginationProofs` has the
lemmas about pages that the proofs of `Friendship`, `ChatMessages`, `Communities` and
`Posts` share.

Conventions:

* A step of a request is one call to another process. Local computation between
  two calls belongs to the step before it. A single SQL statement is atomic.
* `Fail` lets any call fail before it has an effect; a write that took effect
  may also be answered with an error. Where there is a constant `Faults`, it
  switches both.
* A transaction keeps its rows in the request's record until `Commit`
  makes them visible. Identity values are taken at the INSERT and never returned.
* `created_at` is the time the transaction starts (`clock` counts starts). Two
  equal timestamps are not modelled; then the "last message" would be any.
* The map insert in `AddClient` and the start of the two pumps are one step: a
  client whose pumps have not run yet behaves like one whose pumps have not been
  scheduled. Payloads in the hub are only counted.
* Queries that only read are operators over the tables. Properties of lists are
  evaluated when no request is in progress, as they speak of the tables only.
* ORDER BY is `InOrder`, a function by position and not a recursion, so that what
  a list shows can be proved and not only evaluated.
* History variables (`asked` of `Friendship`, `failed`, `overlapped`, `unsure`,
  `cut`, `odd`, `presented`, `kept`, `merged`, `forgotten`, `wait`, `fate`, `told`,
  `panics`) and the field `late` of a request remember what an exception in a
  property is about. No guard that models code reads them.
* A list of files whose upload fails (`UploadFiles`) may leave some of them, whole
  or torn, in `ChatMessages` and `Posts`. The single file of an avatar or a cover
  succeeds or fails as a whole in `Profiles` and `Communities`.
* What Elasticsearch takes for a name is left open: in `Communities` a query is any
  set of names, so the fuzzy match over name and transliteration is one of them. In
  `FriendViews` the filter by name is a parameter.
* `is_group` is never set by any code, so every chat is a private one.
* Operators marked "Mutation" are plausible bugs; `PROJECT.json` pairs each with
  the property that notices it. No specification uses them.

## 3. Runs

`tlc -config <cfg> <MC module>`. States are distinct ones.

| run | instance | states | shows |
|---|---|---|---|
| `friendship` | 2 accounts and an id without account, 2 overlapping requests, faults | 74,289 | `TableConstraints`, `NobodyDecidedUnasked`, `NoResurrection`, and (under fairness) `EveryRequestAnswered` |
| `friendship_serial` | 3 accounts, 1 request at a time, faults | 33,076 | `ImplementsFriendGraph`: the four operations refine the atomic ones; `RelationsAreShown`: the queries agree (`RelationLists`), and lists, search, counters and status show the table page by page (`ShownRelations`) |
| `friendship_overlap` | 2 accounts, 2 requests, no faults | violation | `NobodyDecidesOwnRequest`, see below |
| `wshub` | 2 users, 2 connections, 2 senders, capacity 1 | 94,129 | `HubTypeOK`, `NoDoubleClose`, `RegisteredIsServed`, `EvictedOnlyByOwnConnections`; with fairness `PumpsEnd`, `SendersNeverBlock` |
| `chatrooms` | 3 accounts and an id without account, 2 requests, 3 chats, faults | 17,067 | `ChatsArePairs`, `AnswerNamesTheirChat`, `SettledForGood` |
| `chat` | 2 members and a stranger, a chat and a missing one, 2 calls with any content and their goroutines, read reports, faults | 648,498 | `AnswersAreTrue`; `DiskAgrees` (`AttachmentsStored`, `NoOrphanFiles`); `EventsAreTrue` (`EventsAddUp`, `EventsAreFresh`); `UnreadNotRolledBack`; `ChatsAreShown` |
| `accounts` | a browser, 2 emails, 2 sessions, 2 requests at a time, 3 in all, any token, debug mode or not, lost answers, failing stores | 717,200 | `RegistrationsAreTrue`; `OnlyOwnersServed` (`ServedAsOwner`, `LogoutIsFinal`); `SessionOutlivesCookie`; `SessionsEnd` |
| `applications` | 2 browsers, 2 requests at a time, also of one browser, 4 in all, a user and an administrator, 2 temporary sessions, 2 applications | 2,447,049 | `ApplicationsAreKept` (`NoApplicationLost`, `AuthorPresentedIt`); `ListsOnlyTheirs` |
| `profiles` | 1 profile, 2 names, 3 files, 2 overlapping requests, failures, crashes | 160,693 | `DiskAgrees` (`AvatarIsServed`, `NoFileLeft`); `FoundByName` |
| `communities` | 2 users, 2 names, 2 communities, 2 files, 2 requests at a time, 3 in all, failures, crashes | 893,014 | `DiskAgrees` (`FilesAreServed`, `NoFileLeft`); `FoundByName`; `MembersAreShown` (`ListsAgree`, `CreatorSubscribed`, `PagesAreRight`) |
| `posts` | 2 users, 2 posts, a comment, 2 files, 2 requests at a time, 3 in all, failures, crashes, a community that disappears | 578,667 | `DiskAgrees` (`FilesAreServed`, `NoFileLeft`); `LikesAreToggled`; `PostsAreShown` (`CommunityPostsByCreator`, `EveryPostShown`, `PagesAreRight`) |
| `processes` | 4 processes, a request with calls up to three processes deep, 2 attempts to connect, a crash anywhere | 46,834 | `TypeOK`, `InFlightIsRight`, `ErrorsAreClassified`, `CallsCarryTheUser`; with fairness `EveryoneServes`, `RequestsEnd` |

The module in which a property is defined states it in words. Where a property
has exceptions, they are what the code really does: `AvatarIsServed` names the
window in which the old avatar is deleted and the row still names it
(`service/profile.go:87`), `FilesAreServed` excepts two changes of one row at a
time, because the second writes back the paths it has read before
(`service/community.go:146`), and `RegistrationsAreTrue` admits the half-made
account of a registration that was answered with 500. Such a hazard is thereby
described and bounded, not excluded: the property would not notice if it occurred,
but it would notice any other way to the same damage. `NoApplicationLost` lists
five ways in which an anonymous application is lost; `AuthorPresentedIt` and
`ListsOnlyTheirs` except temporary sessions that were not taken back in time
(`kept`), as whoever comes next presents them too.

Where a sentence of the repository and the code disagree, no property takes a side
unless the run is there to refute the sentence: a search without a type is left
open (`ShownRelations`), and `InFlightIsRight` only claims what holds of the gauge
besides its help text. Section 5 lists these places.

`friendship_overlap` contradicts a sentence of the repository: the one who
accepts is the receiver (`service/friend.go:113`). The row is re-created between
check and UPDATE, and a user accepts his own request.

### Bounds

Two requests (calls, connections of a user) suffice for each check-then-act
window: one request is inside it, the other changes what was checked. A request
slot is reused without limit in `Friendship`, `ChatRooms` and `Profiles`, so a
window can see a sequence of several other requests. In `Accounts`, `Communities`
and `Posts` three requests are received: one that makes what the other two fight
over. In `Applications` there are four: one that writes under a temporary session,
one in another tab, one that merges, and one that lists. The browser of `accounts`
can register with two emails, or log in with one of them again, so that it gets
hold of two sessions and their tokens, of two users or of one; a second browser
would only add requests that share nothing with the first but the email. Capacity 1 makes a channel both empty and full.
Two connections are one that replaces another, or two users'; the safety
properties of the hub are proved for any number. Three chats let a pair of users
have two and another pair one; when the ids run out a request can only fail,
which is why `Faults` keeps that run free of deadlocks. `MaxFiles` is 1 in `chat`;
two files in `communities` and `posts` are one that is replaced and its
replacement, three in `profiles` have a third written meanwhile.
`UpdateLastReadMessage` takes ids up to the number of calls, that is of messages.

`Half` is half the range of `int32`, 16 instead of 2^31, which is beyond every
list of these instances. Pages whose offset does not fit are excepted in
`PageIsRight`: they wrap to an error or to another page, which shows at least
nothing that is not in the list; the run `friendship_serial` asks for such pages,
and for missing and negative ones. `DefaultLimit` and `MaxLimit` are 2 and 3 instead of 20
and 100, so that a list has several pages and can also be clipped. What is compared
across whole lists is compared on a first page that can hold them, which is a premise
of those properties (`FitOnOnePage`, "fits on one page"): with at most three messages,
posts, accounts or members it is met in every state of the runs, and the theorems keep it.

In `Accounts` a session lives 24 hours by the clock of Redis, from its SET on, and a
cookie 10 by that of the browser, from the moment the handler of the gateway sets it.
Between the two the answer of the auth service is under way, and time may pass there
too. Both clocks run at the same speed. Time passes 12 hours at a time in the run, so
that a login takes no time, 12 hours or 24; the theorem holds for any step. A cookie
that outlives its session needs a login of at least 14 hours, which
`SessionOutlivesCookie` says, and which is reached in the run. `debug` is chosen at the
start.

`processes` has one request because checking liveness dominates its time; what
several requests at a time do to gauges and users is proved in `ProcessesProofs`.
`Retries` is 2 instead of 10: one attempt that is not the last, and the last.

`CHECK_DEADLOCK FALSE` stands where the system comes to rest: a process that
panicked, connections and calls that are made once, ids or requests that ran out.

### Fairness

`Friendship`: every step of a request that began is eventually taken, because
goroutines are scheduled and each call returns or times out; receiving a request
is up to users, and failing is never required. `WSHub`: pumps and senders are
scheduled, and the ticker fires also while messages flow (weak fairness of
`PingFails` by itself); that a broken connection is noticed rests on the
write deadline, the ping period and the pong deadline the code sets. Connecting
and disconnecting has no fairness. `Accounts`: time passes (weak fairness of
`Tick`), nothing else. `Processes`: a process that is starting goes on
(`WaitForGRPC` is a loop with sleeps), and so does the goroutine of a request.
A process that is down need not be started again: the compose file has no restart
policy for the four processes, so `EveryoneServes` has it as a premise. A dial to
a process that serves succeeds; the network between the processes is not lossy,
but any process may die and its callers then get `Unavailable`. The other modules
are checked for safety only.

## 4. Theorems

All proofs are checked by TLAPS for every value of the constants that satisfies
the assumptions stated beside them in the modules: ids are positive naturals,
accounts are ids and finitely many, a capacity and a number of attempts are
positive, calls are finitely many, null values are no ids, "nobody" is no user.
In addition `MaxLimit` is below `Half - 1`, as 100 is below 2^31 - 1; users of
`Communities` and sticker packs are finitely many; ids that a path or an ORDER BY
compares are 32-bit ones. Each component has one invariant (`IInv`, with the prefix `Hub`,
`Rooms` or `Apps` where a proof module has several components) that is proved inductive,
and its theorems are derived from it; TLC has checked every one on the instance of the
component's run.

* `FriendshipProofs`: `TypeCorrect`, `TableConstraintsHold`,
  `NobodyDecidedUnaskedHolds`, `NoResurrectionHolds`, `RelationListsAddUp`,
  `FriendGraphImplemented`, `NobodyDecidesOwnRequestAlone`, `RelationsShown`.
  `NobodyDecidedUnasked` is not inductive, as a request writes its decision after
  the row it checked may be gone. `IInv` adds `PendingBacked` (a pending row stems
  from a request of its action user) and `RequestsBacked` (whoever is about to
  decide has been asked). The history variable `asked` only grows, which is what
  survives the gap. `RelationListsAddUp` needs only what a row can be: three
  statuses, and a last move by one of the two. `RelationsShown` follows the lists
  through the service, the wrapper and the handler: in some order each names an id
  once (`Lists`), a page of it is turned into profiles and shown (`PageOfProfiles`),
  and so the search, the counters and the status of `FriendViews` agree with the
  lists. `FriendGraphImplemented` and `NobodyDecidesOwnRequestAlone` have the
  premise `OneAtATime` (there are no two requests) and rest on `ChecksStand`: what a
  request has checked still holds when it writes. The refinement maps an unordered
  pair to the row under its ordered key; each write replaces one relation
  (`WriteIsOneRelation`), everything else stutters. Without the premise the second
  of these two theorems is false, which is what the run `friendship_overlap` shows.
* `ChatMessagesProofs`: `DiskAgreesAlways`, `AnswersTruly`, `EventsTellTheTruth`,
  `UnreadNeverRolledBack`, `ChatsShown`. `IInv` says of every call what its earlier
  steps have left (`CallOK`), of every stored message which call it stems from and
  that its author is a member (`MessagesOK`), that a chat with messages has a last
  one (`LastExists`), and that a file is one its call was to upload (`FilesOK`). An
  event is assembled by a goroutine that reads after the commit, so its truth needs
  that messages are only added; `UnreadNeverRolledBack` that read marks only grow.
  `ChatsShown` (the list of chats, the messages of a chat, their unread counts,
  authors and stickers agree with the table, page by page) needs in addition that no
  two messages share an id or a `created_at` (`PositionsDiffer`), because the lists
  are ordered by `created_at` and their messages told apart by their ids.
* `AccountsProofs`: `ServesOnlyOwners`, `RegistersTruly`, `CookiesGoFirst`. `IInv`
  ties the step of each route to what its earlier steps left in the three stores
  (`RequestOK`), says that an id belongs to one email (`IdsAreOnce`), and that a
  session has one owner (`SessionsAreOwned`). A session that has ended is never
  handed out again, which is why a logout is final even when a late answer brings
  the cookie back. `CookiesGoFirst` needs that the two clocks, although they start
  apart, advance together (`ClocksAgree`) and that no browser holds a cookie past its
  date (`CookiesAreFresh`). The same module proves `KeepsApplications`, `ListsOnlyOwn`,
  `TemporarySessionsStayHome` of `Applications`. The heart of `AppsIInv` is that a
  temporary session stays in the browser it was made for (`OneHome`) and is presented
  by one user only, unless it was not taken back in time (`OnePresents`): any number
  of requests of a browser may carry it at once, as themselves or as that user, but
  while it is a cookie that was presented, the answer that takes it back is on its
  way. `Traced` says where a temporary session can still be claimed, and what is left
  of one that was merged; `FreshIsNew` that one an answer brings is known to nobody
  else.
* `PostsProofs`: `PostsAgreeWithDisk`, `LikesToggle`, `OnlyTheCreatorPosts`,
  `FilesAreNotShared`, `EverythingPostedIsShown`. The key of `IInv` is
  `FilesHaveOneOwner`: a request holds only files of the post it changes and files
  it wrote itself. A step can then disturb its own post only, and the proof shows
  once that it leaves the requests and posts of others alone (`Alone`,
  `KeepsItsOwn`, `StepKeeps`). What remains are two requests that change one post:
  `OverlapsAreNoted` says that they are the ones the exception of `FilesAreServed`
  names, and `KnowsThePost` that a request which is alone knows the files the row
  has. As the media of a post are read in two queries, a request that is not alone
  may put together kinds of different versions; that a post names no file twice is
  therefore part of the invariant only for posts that no two requests changed at
  once and no write changed unseen (`Clear`). `EverythingPostedIsShown` is about the lists: comments and likes go with
  their post (`GoWithPosts`), each list is put in order, cut into pages and enriched
  item by item, and the items can still be told apart afterwards, so that each is
  shown once.
* `ProfilesProofs`: `AvatarsAreKept`, `ProfilesAreFound`. `IInv` says what a request
  knows of the row it has read and the files it has written (`RequestsAreSound`),
  that requests do not share files (`FilesHaveOneOwner`), that of two changes at a
  time both are noted (`OverlapsAreNoted`), and that without any overlap or failure
  a change finds the row as it read it (`UpdatesAreAlone`). That the search finds
  the name that is shown rests on `IndexFollows`: the index lags behind the row only
  while a request that has yet to write it is in progress, or after one that failed
  or overlapped.
* `CommunitiesProofs`: `CommunitiesAgreeWithDisk`, `CommunitiesAreFound`,
  `MembersAreListed`. `IInv` is built as that of `Posts` (`FilesHaveOneOwner`,
  `OverlapsAreNoted`, `KnowsTheRow`, and `KnowsItsFate`: a finished delete has
  deleted its row, and a row that a finished create made has its user as creator),
  with the same argument: a step disturbs its own community only (`Alone`,
  `KeepsItsOwn`, `StepKeeps`). The other two need also `SInv`: the index follows the
  rows, a creator joins, and subscriptions go with their community.
  `CommunitiesAreFound` follows a hit through the pages: what a query takes is listed
  once, a place in a list is on one page, and the rows of a page of ids are those of
  the index whose entry follows the row. It holds of every set of names a query may
  take, so of the fuzzy match whatever it is.
* `PaginationProofs` has no theorem of its own but what the proofs about lists
  share: `InOrder` lists each element once (`InOrderFacts`), a page is where
  counting puts it (`PagedFacts`), turning items into something else commutes with
  cutting pages (`PageOfMade`), and an answer that has the items of a page is right
  (`ShownIsRight`).
* `ProcessesProofs`: `TypeCorrect`, `GaugesAreRight`, `UsersAreCarried`,
  `ErrorsAddUp`. The first three are proved together (`IInv`): a gauge is the number
  of calls at a process, and at the gateway of its panics besides (`GaugesCount`),
  so one needs that calls are only where somebody serves
  (`CallersWork`) and that panics are those since the gateway started
  (`PanicsOfThisRun`); the user of a call is that of its caller because the
  middleware changes the user only while nothing waits for the request. Each step
  moves one call (`Moves`), which is shown once to keep `CallersWork` and
  `CallsCarryTheUser`; the gauge follows from the cardinality of the set of calls at
  a process. `ErrorsAddUp` shows for each kind of answer that what it adds to the
  counters by type it adds to those by class, through the mappings of `Errors` and
  `Metrics`. The same module has the hub and the chat rooms. `HubTypeCorrect`,
  `NoDoubleCloseHolds`, `RegisteredIsServedHolds` and
  `EvictedOnlyByOwnConnectionsHolds` rest on `HubIInv`, which adds `PumpsHaveCause`:
  a pump that left its loop has a broken connection. Closing is safe because the
  client that is closed leaves the map in the same critical section.
  `ChatsArePairsHolds`, `AnswerNamesTheirChatHolds` and `SettledForGoodHolds` rest
  on `RoomsIInv`, which adds `TransactionsAreSound`: ids of open transactions are
  distinct and unused, and their two users are different accounts.
  `SettledForGoodHolds` says exactly when a pair can get two chats: only from
  transactions that had searched before the first one committed.

Only model-checked: the liveness properties (`EveryRequestAnswered`, `PumpsEnd`,
`SendersNeverBlock`, `SessionsEnd`, `EveryoneServes`, `RequestsEnd`), as fairness is out of
the prover's reach. All other properties of the runs that hold are theorems.

## 5. Not modelled

* Generated code (protobuf, easyjson, swagger, mocks), logging, tracing, health
  gauges, addresses and passwords of the configuration, migrations, the reverse
  proxy: no state that an operation depends on. The one switch of the configuration
  that handlers look at, `Debug` (`config/config.go:68`), is a variable of `Accounts`.
* Code nothing reaches: the store and service methods behind
  `UpdateHeader`, `GetHeaderByUserID`, `SaveMessageAttachments`, `GetStickerPath`,
  `GetStickerByID`, `DeleteProfile` of the index, the stream interceptor, the
  `Record` helpers of the metrics.
* Response bodies beyond ids, names and texts: the properties do not tell them
  apart. Durations and the path labels of metrics.
* Clients that disconnect (their context ends), except in the lost answers of
  `Accounts` and `Applications`.
* The order in which two goroutines of `service/chat.go:200` hand their events to
  the hub: the code promises no order. Each event by itself is covered by
  `EventsAreTrue`.

### Seen while modelling

Behaviour that a reader of the models will notice, without a run of its own.

Chats and friends. Two simultaneous requests create two chats of one pair, as
nothing in the schema forbids it (`repository/db/chat.go:49`). A decision on a
missing request is 500, as `service/friend.go:105` tests for another error than
the store returns. `RejectFriendRequest` keeps the row as `rejected` where
`service/friend.go:152` says it is deleted (the lists rely on that row). The
cleanup of a user's previous connection removes his new one from the hub
(`service/WSClient.go:119`, `:153`), and a send may panic on a channel closed
after the lookup (`:75`). The event of a message shows the last message of the
chat, which may be another one (`service/chat.go:168`). A sticker that does not
exist is 500, as the foreign key fails, where `handler/chat.go:104` documents 404.
The list of messages leaves out attachments it cannot read. `CreateMessage` in
`repository/db/message.go` shadows `err`, so its deferred rollback does not run.
The unread count includes the user's own messages. The search type defaults to
`accepted` where `handler/friend.go:347` documents `notFriends`, and the search among
`notFriends` finds also the one who searches; the handlers of
search and counters do not translate the gRPC error, so everything is 500; "all
users" is paged without an order.

Accounts and applications. A registration that fails after its first INSERT
leaves an email that answers 409 although one can log in with it. `Logout` without
a CSRF cookie dereferences nil (`handler/auth.go:180`). `IsLoggedInHandler` sends
its error twice. Both updates of applications are always 400: their types have no
decoder (`handler/application.go:120`, `:158`). The list of applications panics
whenever the role cannot be read, so for every anonymous request
(`service/application.go:30`); the gauge of requests in flight then stays raised, so
that it is not the current number of requests (`metrics/metricsHTTP.go:60`), and the
request is uncounted. A merge that fails is only logged, and its applications belong
to nobody. So does an anonymous application that is inserted after its temporary
session was merged, which a second tab suffices for. If the answer that takes the
cookie back is lost or late, the next user of the browser presents the same temporary
session: the merge then also overwrites the author of what the first one wrote as
himself (`repository/db/application.go:125`), and his list shows it, where
`handler/application.go:69` says that users see only theirs. The CSRF token is checked
only when `APP_ENV` is `prod` (`config/config.go:68`, `handler/middleware.go:116`);
the `.env` of the repository says `dev`. `AuthMiddleware`
runs twice on several routers, and `cmd/main/main.go:116` calls the post routes
public although they are behind it.

Files. `UpdateHeader` changes the avatar (`handler/profile.go:141`,
`grpc/profile.go:47`). Deleting an avatar that is not there is 500
(`repository/db/profile.go:389`). A profile the index does not know can never be
updated with 200. Overlapping changes leave orphaned files, an older name in the
index, or paths of deleted files. A failed update of a post keeps its new files
unless they are more than before; an update that reads the attachments of one version
and the photos of another writes both back; a post refused by its community keeps them too.
A comment is stored but answered with an error when the profile service fails
(`service/comment.go:71`). Of two simultaneous likes of a user one may be 500.

Communities. The search without a type is among the user's own communities, where
`handler/community.go:461` documents `recommended`. Both searches read an error
response of Elasticsearch, as for a negative offset, as an empty page, since neither
looks at the status of the response.

Pages and parameters. Offsets beyond `int32` wrap (`domain/paginate.go:18`), and
path and query parameters are cut to 32 bits. The sticker handler ignores the
error of `PathInt32`.

Processes. The id of a request is lost after the first hop (`grpc/middleware.go`).
The gateway's health gauge is labelled `profile-service`
(`cmd/main/main.go:225`) and is never set to 0.

## 6. What is left

1. `ChatMessages` composed with `WSHub`, for the order in which a recipient sees
   the events of two messages.
2. An abstract specification of "a row names existing files" that `Profiles`,
   `Communities` and `Posts` all implement, in place of their three invariants; their
   proofs already have the same shape.
