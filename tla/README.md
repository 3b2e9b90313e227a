# GhostChannel in TLA+

GhostChannel is a two-party chat: a NestJS API (`src/backend`) that stores
users, devices, friend requests, conversations and encrypted messages in
Postgres through Prisma, pushes events over socket.io and connects its
instances with Redis; and a React client (`src/frontend`) that holds the device's
private key, encrypts and decrypts, and keeps what it shows in a Redux store.

This directory holds TLA+ modules of the parts whose correctness depends on the
order in which things happen, TLC configurations that check them on small
instances, and proofs that TLAPS checks for every value of the constants.

## Running

    tlc -config MCFriends_overlap.cfg MCFriends.tla     # any module and cfg of the table below
    tlapm Friends_proofs.tla
    tlapm Messaging_proofs.tla
    tlapm Presence_proofs.tla
    tlapm FriendLists_proofs.tla
    tlapm FriendListsBadge_proofs.tla
    tlapm Devices_proofs.tla
    tlapm Conversations_proofs.tla
    tlapm Decryption_proofs.tla

`PROJECT.json` lists the runs, the mutants (one per checked property: a plausible bug in a
definition that makes the property fail), which source lines each definition
stands for, the hazards, the findings and the theorems.

## The system

| part | state | operations | what makes it correct |
|---|---|---|---|
| friends service (`backend/src/friends`) | `invite_code`, `friend_requests`, `friendships` | generate and expire a code, send a request, answer it, remove a friend; publishes to Redis `chat:friends` | both sides agreed to a friendship; one row per friendship; no two pending requests in one pair; an answer is final; an acceptance makes friends |
| chat gateway (`backend/src/websocket/chat.gateway.ts`) | `userSockets` of this instance; subscriptions to Redis | connect, disconnect, `message:send`, `message:read`, `message:delivered`; relays `chat:messages`, `chat:friends`, `chat:presence`, `chat:conversations` | a message reaches every participant, once, on whichever instance; only participants see it; a receipt reaches the sender; who is online is who is connected |
| messages and conversations (`backend/src/messages`, `backend/src/conversations`) | `conversations`, `conversation_participants`, `messages` | create, list, read history, clear, leave | clearing is for both users; an empty conversation is deleted; two friends' devices share one conversation |
| devices (`backend/src/devices`, `users.controller.ts`) | `devices`, `users.default_device_id`, `current_device_id` | register at login, list, rename, make default, revoke, delete | one device per key; an active default; a conversation names devices that exist |
| authentication and sessions (`backend/src/auth`) | `sessions`, the device a token names | register, log in, check the device, guard | a token means a session; a session's device is the user's |
| accounts (`backend/src/users`) | `users` | change handle or password, delete the account | handles are unique; a deleted account leaves nothing behind |
| socket client (`frontend/src/services/socket.service.ts`) | one socket, its listeners | connect, disconnect, subscribe, send, mark read | every subscriber is called, on the current socket, once per event |
| chat page (`frontend/src/pages/Chat.tsx`, `store/messageSlice.ts`) | messages by conversation, shared keys, decrypted text, unread counts, presence | load, receive, send, mark read, decrypt with retries, switch and delete conversations | what is shown is what the server has; no copy twice; a plaintext belongs to its message |
| friend lists (`FriendRequests.tsx`, `FriendsList.tsx`) | requests and friends, reloaded on events | send, answer, remove, reload | the lists converge to the server's |
| keys (`frontend/src/services/crypto.ts`) | key pair in browser storage | generate, store, export, import, derive, encrypt, decrypt | a stored pair matches; both ends derive one key |

How they interact: a browser calls the API over HTTP and the gateway over its
socket. A service writes Postgres and publishes to Redis; every
API instance, the publishing one included, takes the event off its own
subscription and emits it to the sockets it holds. Browsers react by changing the store or
by reloading over HTTP. There is no socket.io Redis adapter, so an
`emit` outside that path reaches one instance's sockets only.

What is hard about it: no service uses a database transaction, so any two requests
interleave at every `await`; a process can die between two writes; an event can be handled long
after the state it was computed from has changed; an instance gets its own
publications back; a browser replaces its list with the answer of a request issued
earlier; a lost connection replays nothing. `PROJECT.json` lists each of these at its
line under `hazards`.

## The modules

### Friends, FriendsAbs, Friends_proofs

`Friends.tla` models `backend/src/friends`. Each HTTP request runs in a handler `h`;
`job[h].pc` names the database call it makes next, and the code between two
awaits is one action. `requests` is `friend_requests.status` by ordered pair (the unique
index `(from, to)`, and no row is ever deleted), `friendship` the row id stored
under an ordered pair (the unique index `(user1, user2)`), `invitable` the users with a live
invite code, `channel` the Redis channel. `Crash(h)` ends a handler of `Mortal` between any two steps. Two
variables are history: `consent`, who asked or accepted whom, and `overtaken`, the pairs of users of whom a handler wrote a row while another
was between reading rows of the same two users and writing one (`RelyPC`).

| code | actions |
|---|---|
| `generateInviteCode`, expiry | `GenerateInviteCode`, `ExpireInviteCode` |
| `sendFriendRequest` | `SendFindCode`, `SendCheckFriends`, `SendCheckPending`, `SendCheckAny`, `SendWriteRequest`, `SendPublish` |
| `respondToFriendRequest` | `RespondFind`, `RespondUpdate`, `RespondBefriend`, `RespondPublishAccepted`, `RespondPublishResponse` |
| `removeFriend` | `RemoveFind`, `RemoveDelete` |
| gateway, `handleRedisFriendEvent` | `Deliver` |

`FriendsAbs.tla` is what the service promises when every request takes effect at
once: two users are strangers, or one has asked the other, or they are friends; nothing is promised any more to the pairs in `lost`.
`Friends` implements it with any number of overlapping handlers, whichever of them die (`ImplementsFriendsAbs`), with `overtaken` for `lost`: the checks
"not already friends or request pending" and "already responded to" hold for two users until one of their requests is written
under the eyes of another about the same two, and only those users lose by it. That the promise then ends is real: the two findings of this component,
and the third trace described with them, are what happens after. A request in the middle of
being accepted still counts as asked, and an acceptance whose handler died half way counts as
a refusal, so the refinement tolerates a request that stays accepted without a friendship.

### Messaging, Messaging_proofs

`Messaging.tla` models one conversation: its rows, the gateway instances, the Redis
channel `chat:messages` as one queue per instance (`bus`), the HTTP handlers that clear or leave the
conversation or read its history, and the message list of each participant's browser
(`shown`: how many copies of each message; `seen`: which it shows as read).

| code | actions |
|---|---|
| `message:send` (`chat.gateway.ts:243`) | `SendCheck`, `SendCreate`, `SendMembers`, `SendEmit` |
| `message:read` (`chat.gateway.ts:321`) | `ReadRetried` (the browser asks), `ReadUpdate`, `ReadGetMembers`, `ReadEmit` |
| `DELETE /conversations/:id/messages` | `ClearCheck`, `ClearRows`, `ClearMembers`, `ClearPublish`, `ClearDone` |
| `DELETE /conversations/:id` (`deleteMessages` true or not) | `LeaveCheck`, `LeaveWipe`, `LeaveRow`, `LeaveCount`, `LeavePurge`, `LeaveDrop` |
| `loadMessages` and `GET /messages/:id` | `FetchCheck`, `FetchQuery`, `FetchApply` |
| `handleRedisMessage` | `Deliver` |
| `addMessage`, `setMessages`, `clearMessages`, `markRead` of the store | `AddMessage`, `SetMessages`, `ReceiveNew`, `ReceiveDeleted`, `ReceiveRead` |
| a lost and restored socket, a dying process | `Disconnect`, `Reconnect`, `Crash` |

An emit to a socket and the browser's handling of it are one step: a socket delivers in order,
so a late arrival is the same as an emit made late, and `bus` lets every instance lag as
long as it likes. `missed` records whose browser may have missed an event (disconnected, or an
owed event died with its handler), so that the properties ask nothing of it until it
has reloaded. `Ops` selects which operations a run uses. The `onMessage` callback of `Chat.tsx:237`, which would mark an
arriving message read, never does: the effect has an empty dependency list and keeps the
empty conversation list of the first render. The model has it that way, and read
requests come from loading the history and from decryption retries.

### Presence, Presence_proofs

`Presence.tla` models who is shown online. `conn` is the server's side of each socket (in
`userSockets` and still in `handleConnection`'s await, or settled, or closed during the await),
`using` the browser's side; a tab may have lost a socket, and opened another, before the instance
notices. `online` is the chat page's `onlineUsers`, `bus` one `chat:presence` queue per instance.

| code | actions |
|---|---|
| `handleConnection` | `Connect`, then after the await `Announce`, or `AnnounceClosed` when the socket closed meanwhile |
| `handleDisconnect` | `Disconnect` |
| `handleRedisPresence` | `Deliver` |
| `request:online-users` | `EnterChat` (the page asks), `AnswerOnlineUsers` |
| socket lost, tab closed, `socketService.disconnect` | `Lose` |
| leaving `/chat` for `/settings` and coming back on the same socket | `LeaveChat`, `EnterChat` |
| an instance that dies and starts again | `Restart` |

`away` and `cutOff` are history variables for the two cases in which the code shows users online
who are not, and which `OfflineShown` therefore names: a page that was disconnected keeps what it had (nothing clears
`onlineUsers`, and the list only adds), and `handleConnection` announces a socket
that closed during its await.

### Decryption, Decryption_proofs

`Decryption.tla` models one chat page of a user: what it shows for each message (`text`, the store's
`decryptedText`), the shared keys it has derived (`keys`), what it has selected, and the asynchronous
functions under way (`job`, `timers`, `reload`, `pick`). A shared key is a pair of private keys, ours and
a device of the friend; a message opens with the key it was sealed with and with no other. `Elsewhere`
stands for the private key of another device of the user. Everything outside the page changes the rows: friends send, register and delete devices and open
conversations, the user writes in another tab or regenerates the key there.

| code (`pages/Chat.tsx`) | actions |
|---|---|
| `loadConversations` | `ReloadList`, `ReloadMessages` |
| `loadMessages` | `LoadAnswer` |
| `getOrDeriveSharedKey`, `decryptMessage` | `Decrypt`, `NoRecipient`; the operators `UserKey`, `DeviceKey`, `AllTried` are its three attempts |
| the timeouts of a failed decryption | `RetryFires` |
| the effect that retries failed messages | `RetryFailed`, due after `EffectDue` |
| `handleSelectConversation`, and the effect of `activeConversation` | `SelectConversation` |
| `handleSelectFriend` | `SelectFriend`, then `FriendOpens`, `FriendCreated` or `FriendFails` |
| `handleSendMessage` | `Send`, `SendFails` |
| events and others | `FriendSends`, `OtherPageSends`, `Notified`, `FriendCreates`, `FriendRegisters`, `FriendDeletes`, `Regenerate` |

The lookups of one decryption are one action, and so is one sending: the page's own steps interleave
between them, not within. A closure that keeps the first render's keys (`onMessage`) has `fresh`. `unseen` is history: messages that
`loadConversations` stored without decrypting them, or that a load which knew no access put in the store
redacted, and that no later load has tried.

### Devices, Devices_proofs

`Devices.tla` models one user's devices: the two halves of the stored pair of each browser (`pub` in
localStorage, `priv` in IndexedDB, `old` of earlier versions), the session of each tab (`device`) and of each browser (`saved`),
and the server's rows with `default` and `current`. The two halves of a generated pair have one number. A page's function and the
handlers of its requests are one process per tab, with a step between two writes.

| code | actions |
|---|---|
| `storeDeviceKeypair`, `migrateFromLocalStorage` | `Put`, `SetItem`, `PutFails` |
| `loadDeviceKeypair` and generation in `Login.tsx` | `LoadPair`, `LoadFails` |
| `handleSubmit`, `handleDeviceNameSubmit` | `Submit`, `CheckDevice`, `NameDevice`, `Answer` |
| `AuthService.login` | `FindDevice`, `UpdateLastSeen`, `SetCurrent` |
| `DevicesService.registerDevice` | `FindSameKey`, `CountDevices`, `CreateDevice`, `SetFirstDefault` |
| `confirmRegenerateKeysAction`, `revokeDevice` | `Regenerate`, then the steps above, then `Revoke` |
| `deleteDevice`, `setDefaultDevice` of the settings page | `ChooseDevice`, `CheckCurrent`, `Remove`, `FindChosen`, `SetDefault` |
| `loadAuthState`, `saveAuthState`, `handleLogout` | `Reload`, `SaveAuthState`, `Logout` |
| `handleSendMessage`, as far as the key and the device it names | `Send` |
| a request, a handler or a page that stops half way | `Fails`, `Reload` |

Two variables are history. `torn`: browsers that may have halves of two pairs, because functions of two tabs were storing at once, a page
was left between the two writes after it wrote over the private key of another pair, or a migration failed; a browser leaves `torn` when a pair has been stored whole.
`PairWhole` leaves these out and nothing else: it is claimed of every regeneration, login and migration that runs to its end, in any tab, and of a page left between
the two writes of a first pair.
`mixed`: browsers in which a pair was stored while another was in use, which any regeneration under a session does. In those the code does send messages that
nobody can open, and `MessagesOpen` leaves them out; it is claimed of all others.

### Conversations, Conversations_proofs

`Conversations.tla` models the conversations of two friends: the rows (`rows`, with the two devices and who is left in them), the
list, the open conversation and the friend's devices as each page knows them (`list`, `open`, `known`), and one
process per page for `createConversation`.

| code | actions |
|---|---|
| `loadConversations`, `findByUserId` | `LoadRead`, `LoadAnswer`, `LoadFails` (answers may overtake one another) |
| `handleRedisConversation`, `conversation:new` | `Publish`, `Notified` |
| `loadFriendDevice` | `LoadFriendDevice` |
| `handleSelectFriend`, `switchToCurrentDeviceConversation`, "Message Default Device" | `Choose`, `Profile`, `ChooseDefault` |
| `createConversation` of controller and service | `FindTarget`, `CheckFriends`, `FindExisting`, `Insert`, `Publish`, then `Answer` in the page |
| `handleDeleteConversation`, `handleSelectConversation` | `Leave`, `SelectConversation` |
| logins, revocations, deletions and the end of the friendship elsewhere | `LogsIn`, `Revoked`, `Deleted`, `Unfriended` |

`clock`, `seen` and `top` are history: which state of the table a list shows, and the newest it has shown. `after` in a row
says how many rows there were when its creator looked for one, so that conversations which come from requests that ran at once can be told from
those that do not.
A row nobody is left in stays in `rows`, where `findFirst` may still meet it: its deletion, which follows in a call of its own and may fail, is in `Messaging`.

### FriendLists, FriendLists_proofs, FriendListsBadge_proofs

`FriendLists.tla` models what one page shows of friends and requests: `received`, `sent`, `contacts`, the badge, and the socket they
listen on with the number of times its handlers are attached (`handlers`). Endpoints are atomic here; their steps are those of
`Friends`. Lists are bags, because nothing in the code keeps an entry from being there twice;
`Size`, the number of copies in one, is the cardinality of its `Entries`.

| code | actions |
|---|---|
| `SocketService.connect`, `setupSocketListeners`, `disconnect`, `checkAndResetListeners` | `ConnectOnce` in `EnterChat`, `Connected`, `Lost`, `OpenSettings`, `LogsOut` |
| tabs and pages | `EnterChat`, `OpenSettings`, `OpenConversations`, `OpenFriends`, `LogsOut` |
| `loadPendingRequests`, `loadFriendRequestCount`, `loadFriends` | `ServeRead`, `ListsAnswer`, `CountAnswer`, `FriendsAnswer` |
| `sendFriendRequest`, `respondToRequest`, `confirmRemoveFriend` | `User`, `ServeWrite`, `ServeRefuses`, `SendAnswer`, `RespondAnswer`, `RemoveAnswer` |
| `friend:request`, `friend:accepted`, `friend_request_response` | `FriendRequest`, `FriendAccepted`, `FriendRequestResponse`, `Unheard` |
| the other users | `OtherSends`, `OtherAnswers`, `OtherRemoves` |

Each change of the rows has a number. `newest` and `doubt` are history: the newest change a list has heard of, and the lists
that have been told of an older change after a newer one, or have missed one. The properties ask nothing of a list
in doubt; the next complete answer takes it out of doubt.

## The runs

| run | instance | what it shows |
|---|---|---|
| `friends_overlap` | 2 users, 2 handlers of which 1 may die, 2 row ids, fairness | however two requests interleave: `MutualConsent` (no friendship without both having acted), `OneFriendshipPerPair` (crossing accepts store one row, thanks to the sorted key), `AcceptanceCompletes` (an accept by the handler that does not die makes its users friends, whatever the other does and wherever it dies), `ImplementsFriendsAbs` |
| `friends_duplicate` | the same | finding: `NoDuplicateRequests` fails |
| `friends_answer` | the same | finding: `AnswerIsFinal` fails |
| `messaging_serial` | 2 users, 2 instances, 1 handler, every operation but the wiping leave, lost connections, crashes | `NothingLost` and `NoGhosts`: once nothing is under way, a connected participant that missed nothing shows exactly the conversation's messages, although the instances lag behind Redis |
| `messaging_overlap` | 2 handlers, 2 messages, send and leave | `AudienceOnly` (who has left sees nothing written later), `ShownOnce`, `NothingLost`, `EmptyConversationDropped` |
| `messaging_ghosts` | 2 handlers, send and clear | finding: `NoGhosts` fails |
| `presence_single` | 1 instance, 2 users with a tab each, 3 sockets | `OnlineShown` and `OfflineShown`: once nothing is under way, connected chat pages show exactly who is connected, but for the two named cases |
| `decryption_page` | 2 friends with a device each and a third that one of them may register, 2 conversations, 2 functions under way, 1 message, 1 regeneration, 1 failed request, 3 acts; fairness | at rest a message of the open conversation reads in plain, but for those that were stored untried (`NothingStuck`); a message that can be opened is in the end, whichever requests fail (`EventuallyPlain`); what is marked read in a conversation of other devices was sealed for this browser (`ReadOnlyHere`); a message is sealed for a device of the friend it is written to, unless the conversation names no device (`SealedForFriend`) |
| `decryption_endless` | the same, no failures, 2 acts | finding: `RetriesEnd` fails |
| `devices_tabs` | 2 tabs of one browser, 1 of another with a pair to migrate, 3 pairs, 3 rows, 1 failure, 3 acts | `PairWhole` (the stored halves belong together, regenerations included), `MessagesOpen` (a message opens with the key of the device it names), `DefaultSet`, `NotLockedOut` (no browser is left with a key only a revoked device has), `TwinsOnlyAtOnce` (two devices with one key come from overlapping requests only) |
| `conversations_pages` | 2 users with a page each, 3 devices, 2 conversations, 2 loads at once, 1 failure, 3 acts | `OnePerPair` (two conversations of one pair come from overlapping requests, or from one that somebody left), `ListComplete` (a page ends up listing what the friend created and what it has open), `NoneComesBack` (a deleted conversation stays away) |
| `friendlists_page` | 1 other user, 3 calls, 2 changes of the rows, 3 moves | `HandledOnce` (each event is handled once, whatever visits and reconnects), `ReceivedExact`, `SentExact`, `ContactsComplete`, `BadgeExact` (the lists settle on the server's rows) |

Bounds. Two users are a whole conversation and a whole pair (the product creates
two-party conversations only, and no friends operation reads rows of a third user).
Two handlers are the smallest number that overlap; a
third repeats the same checks against the same rows, and the theorems hold for any number.
Two instances give a sender and a recipient on the same and on different ones. Two row ids are one
being deleted and a newer one; `FreshRow` keeps an id from returning while a handler holds it.
`MaxChannel` = 1 only delays a publish: no friends property reads the channel. `MaxMessages` is 1 where a message is raced
by every other operation, 2 where two sends race; `MaxClears` = 1. `PageSize` is
the code's 50, out of reach of one or two messages; with a longer history a reload drops the newest
messages, which the hazards record. Presence has two tabs and three sockets, so that an old socket of a tab can close
after the new one has opened while the other tab watches; `MaxBus` = 2 holds an old event and the one that
replaces it, and a connection or last disconnection waits for room. Sockets are used again, so the number of connections is
not bounded. 
The browser modules count what the users and the others do (`MaxActs`, `MaxMoves`, `MaxChanges`) and let everything that follows from it
run to its end, so every behaviour has few causes and all their interleavings: a selection, a message and a change elsewhere; a login in each of two tabs and a
regeneration; a creation on both pages and a departure; a request, its answer and a visit to another page. One failed request reaches every
error path of the code, none of which another failure undoes. Two functions under way (`Slots`) are a load and a decryption of the same message, and what a selection
starts. Three devices are the two of a conversation and a newer one. `MaxCalls` = 3 is what entering the page asks for.

All runs set `CHECK_DEADLOCK FALSE`, since the users may stop using
the service when the bounds are used up.

Symmetry permutes row ids (Friends, where users are integers, compared by the sort, and handlers differ in whether they may die) and users,
handlers and instances (Messaging, where nothing orders them), users and sockets (Presence); it is used in no run that checks liveness.

Fairness. `friends_overlap` and `friends_answer` assume it: a handler that has begun is resumed
by the event loop when its database call settles (`WF` on `Step(h)`), and Redis hands an instance what was published (`WF` on `Deliver`). A handler in `Mortal` may die
instead. Nobody
is assumed to send, answer or remove anything. `decryption_page` assumes that every request is answered or fails and that React runs the effects of a
render: `WF` on `Reloading`, `Picking`, each slot's `Step` and `RetryFailed`. Timers, users and friends owe nothing, so `EventuallyPlain` stands
on the retry effect alone. The other modules state their
properties at quiescence (`Quiet`, `Settled`) instead and assume no fairness.

## Findings

- `friends_duplicate`: two users who ask each other at the same time both find no pending
  request (`friends.service.ts:129`) before either writes; both rows are created, against
  "Prevents duplicate friend requests" (`friends.service.ts:16`).
- `friends_answer`: an accept and a reject of one request, from two tabs or devices of its recipient, both read it as pending (`friends.service.ts:277`) and each updates it by id; the second
  overwrites the first answer, against "Friend request already responded to" (`friends.service.ts:278`). When the reject is last, the two are friends and
  the request is rejected, and both answers have been announced.
- `messaging_ghosts`: a clear between storing a message and announcing it
  leaves the message on screen after it was deleted, against "Delete all messages in a
  conversation (for both users)" (`conversations.controller.ts:226`).
- `decryption_endless`: each failed decryption stores its failure, which makes a new `messages` object, on which the retry effect
  depends (`Chat.tsx:171-191`): a message no key opens is tried again and again while its conversation is open, each time with new timeouts, against
  "Retry after 2 seconds, then again after 5 seconds if still failing" (`Chat.tsx:658`).

Seen while modelling; the first three are reached by the modules, with the configuration given:

- `NoRequestBetweenFriends` of `Friends` fails under the configuration of `friends_duplicate`: a's request to b passes both checks (`friends.service.ts:115` and `129`); b asks a, a accepts; then a's
  request is written, pending between friends, against "Verify not already friends or request pending". b's page shows a request of a friend, and accepting it fails on the friendship that is
  there. `SerialNoRequestBetweenFriends` is the theorem for requests that do not overlap, `PairsKeptCorrect` for those that do and do not overtake one another.

- `ReceiptSeen` of `Messaging` fails with `Instances = {i1, i2}`, `Handlers = {h1}`, `Ops = {"send", "fetch", "read"}`, `MaxMessages = 1`: a read receipt is emitted by one instance and not published, so a sender
  on another never sees it, against the comment at `chat.gateway.ts:333`.
- `OnlineShown` of `Presence` fails with two instances: `users:online` lists the users of one instance, and nothing tells a new client of those on
  another, against "Send current online users to the newly connected client" (`chat.gateway.ts:197`). Two instances also
  take a user offline who closes a tab on one and keeps another open on the other (`chat.gateway.ts:215`).
- On the first chat page after a login or a reload, the effect of `FriendRequests` runs before that of `Chat` connects the socket, so
  `onFriendRequestResponse` attaches nothing (`socket.service.ts:221`) and answered requests stay in the outgoing list until the tab is opened
  again. `SentExact` has `onResponse` as its condition. React's StrictMode mounts twice in development and hides it.
- `friend:request` prepends without looking (`FriendRequests.tsx:51`): when a load's answer already has the request it is listed twice.
- Nothing is reloaded after a reconnect: events missed meanwhile stay missed. Removing a friend tells the other side nothing, and deletes no history although the
  dialog says "This will delete your conversation history" (`FriendsList.tsx:238`).
- `loadConversations` stores the messages of every conversation without decrypting them, the open one included: they read "Decrypting..." until they
  are loaded again (`Chat.tsx:411-419`; `unseen` in `Decryption`).
- A conversation that names only its creator's device is unlocked for the other user (`Chat.tsx:1222`), while `loadMessages` shows its messages redacted.
- `loadMessages` marks messages read "if we can actually decrypt them (conversation is accessible)" (`Chat.tsx:454`); the retry of a message that came over the socket marks it read
  when it opens in the open conversation, accessible or not (`Chat.tsx:691`). `ReadOnlyHere` therefore says for whom such a message was sealed, not that there is none.
- After a selection whose creation failed, `handleSendMessage` maps the conversation that is still open to the friend now selected
  (`Chat.tsx:905`); only the device that conversation names keeps the message sealed for the right friend.
- A page left between the two writes of `storeDeviceKeypair` (`crypto.ts:280` and `294`) while it replaces a pair, or a migration that is repeated after a new pair was stored, leaves halves of different pairs
  (`torn` counts both). Nothing notices: the next login names the old public key and decrypts with the new private one.
  The password of the private key is made of the browser's version, language, screen and time zone offset (`crypto.ts:84`): a change of one makes the next login generate a new pair.
- Regenerating keys leaves the session, the current and the default device on the revoked one until the next login (`Settings.tsx:313-320`). A key that only a revoked device has is answered
  without a device, and the login page fails on it (`Login.tsx:64`).
- `deleteDevice` checks the current device and then deletes (`users.controller.ts:193`): a login in between leaves the current device gone. A failed deletion is
  answered with status 200 and the page reports success. `setDefaultDevice` accepts a revoked device.
- A conversation one participant has left is found first and has too few participants (`conversations.service.ts:102`): another is created each time.
  The target is the friend's `currentDeviceId` even when revoked or deleted (`conversations.controller.ts:53`).
- An older answer of `loadConversations` overwrites a newer list, and the creator's other pages are never told of a conversation.
- A page that deletes a conversation (`Chat.tsx:884`) while its own "Message Default Device" request (`Chat.tsx:1437`) is unanswered gets
  the entry back with the answer, and no load removes it. `left` does not record such a page, so `NoneComesBack` is about the others.
- A browser with its private key still in localStorage and two tabs at the login page: the first migrates, logs in and regenerates its keys, which
  revokes the old device; the second, whose `migrateFromLocalStorage` has read the old key before (`crypto.ts:390`), then stores the old pair again. The
  browser now has the key of a revoked device and every login fails (`Login.tsx:64`). So `NotLockedOut` is proved for legacy browsers with one tab.
- A tab that logs in between the two writes of another tab's `storeDeviceKeypair` uses a pair of which half is new (`torn` and `mixed` count it).
- Deleting an account calls `DELETE /users/me`, which no route serves.

## What is proved

`Friends_proofs.tla`, from `UsersAssumption` (ids can be sorted), `MortalAssumption`, `RowsAssumption` and
`ChannelAssumption`, for any users, handlers, deaths and rows:

- `TypeCorrect`, `MutualConsentCorrect`, `OneFriendshipCorrect` for `Spec`. `MutualConsent`
  is not inductive: the row is created two steps after the request was
  found, so the invariant `ConsentInv` adds that a handler about to write a
  friendship already has both users' consent recorded, and that a pending or accepted request has its sender's.
- `ImplementsCorrect`, `PairsKeptCorrect` and `AnswersKeptCorrect` for `Spec`, with any overlap, by `PromiseInv`: of two users not in `overtaken`, what a handler has read still holds when it writes
  (`FindingsHold`: past each check, the fact it checked), they have no request each way and none between friends (`PairsKept`), and nobody else is about to write theirs. The first says that every step
  of the service is a step of the abstract protocol or none; the second that duplicates and requests between friends come from overtaking only; the third the same of second answers.
- With at most one handler (`Serial`, a hypothesis) nobody is overtaken (`SerialFree`), so `SerialNoDuplicates`, `SerialNoRequestBetweenFriends` and
  `SerialAnswerIsFinal` follow for all users: the properties the findings break hold of every behaviour in which no two requests overlap.

`Messaging_proofs.tla`, for any number of users, instances, handlers and messages:

- `TypeCorrect`; the type invariant needs `Room`, that the messages written and those about to be never exceed `MaxMessages`.
- `ShownOnceCorrect`.
- `AudienceOnlyCorrect`, when no history is fetched: `AudienceInv` says that every recipient
  list, in a handler or in an event under way, is included in the audience of its message.
  It stands on `members` only ever shrinking. With fetches the statement is false of the code (`messages.controller.ts:92` checks first and queries later).
- `EmptyConversationDroppedCorrect`, when no handler dies: `EmptyInv` says that a conversation with no participants is
  gone or a handler is on its way to delete it.
- `NothingLostCorrect`, for sends, reads and leaves: `LostInv` says that each message is, for each
  participant, shown, or in the queue of the participant's instance, or with a handler that
  will announce it.
- With at most one handler (`OneAtATime`), clears, reloads, lost connections and crashes included: `NothingLostSerially`, if a page holds the whole
  history, by `SerialLostInv`: a message reaches a browser if it is held, announced in its queue or about to be announced, with no deletion queued behind;
  and `NoGhostsCorrect`, without the leave that wipes, by `GhostInv`: a deleted message that a browser holds or will hear of has a deletion queued
  behind it or a handler about to publish one. What a page may have missed counts for neither until it reloads.

`Presence_proofs.tla`, from `TabsAssumption` and `SocketsAssumption`, for any users, tabs and sockets:

- `TypeCorrect`, for any instances.
- With one instance (`Alone`): `OnlineShownCorrect`, by `OnlineInv`: in the queue of presence events every "offline" of a
  connected user has an "online" behind it, and a page that does not show the user has an event or a list coming.
- `OfflineShownCorrect`, by `OfflineInv`, its mirror image, and `Clean`: a page that has heard nothing shows nobody.

`FriendLists_proofs.tla`, from `BoundsAssumption`, for any users, changes, calls and moves:

- `HandledOnceCorrect`, by `SocketInv`: a page without a socket has no listeners set up, and one with a socket has its handlers on it once. Resetting
  `listenersSetup` does no harm because the page connects only when the socket is down, and `connect` returns early then.
- `ReceivedCorrect`, `SentCorrect` and `ContactsCorrect`, by `ListsInv`. That the lists are right when nothing is under way is not inductive: a step
  before, something was. The invariant says what the news under way, events of the queue and answered calls of the user, makes up for. `Past`: nothing has a number that is still to come.
  `Leads`, in `ReceivedInv` and `SentInv`: the news of each user after change `newest` puts it on and takes it off the list in turn, begins with what the list shows
  and ends with the rows; so does the news after each answer of the endpoint, beginning with that answer. News from before `newest` puts the list in doubt, so nothing is
  claimed of it. The lemmas from `ListPutOn` to `ListHearsOff` do this for an abstract list: for `received` the events put users on it and the user's answers take them off, for `sent` the reverse.
  `ContactsInv` says less, because an event only makes `FriendsList` ask again: a friend is on the list, or in an answer that is at least as new as the list, or the list will ask. `RemovedBefore` keeps
  the answer to a removal from hiding a friendship that began again.

`FriendListsBadge_proofs.tla`, on top of it, for what is counted:

- `TypeCorrect`, by `TypeInv`: besides `SocketInv` and `Past`, the lists and the calls are bags of finitely many members (`GoodBag`), because the rows are finite and each step adds
  finitely many; so the page can count them, and the badge is a number. `GoodDatum`: an answer to the count holds received requests only.
- `BadgeCorrect`, by `CountInv`, which adds `BadgeInv` to `ListsInv` and `TypeInv`. The badge has three sources: the number in an answer of the endpoint, the length of a
  loaded list, and the length the list of received requests has after an event or an answer. `Badge`: an answer under way that does not hold the requests that wait is older than
  something that will be, or has been, heard (`Settling`); and when nothing is under way the badge is the count or in doubt. The step that is not local is the
  badge counted from the list: that it is right rests on `ReceivedInv` (the list is the rows, each once, by then) and on `SizeOfSet` (its length is then their number).
  `Unasked` and `GoneWrites` say that reads of the count end with the page, so that the next page does not inherit an answer.

`Devices_proofs.tla`, from `InAssumption`, `StartAssumption` and `BoundsAssumption`, for any browsers and tabs:

- `TypeCorrect`, by `TInv`: it adds to `TypeOK` what the locals of a process may hold at each step of a function, so that every device named is a row.
- `TwinsCorrect`, by `LookedFor`: for a handler between `findFirst` and `create`, no active device among those it looked at has its key.
- `DefaultCorrect`, by `FirstIsFirst` (while there is no row, whoever is about to create one makes it the default) and `FirstDue` (a default that is missing
  is about to be written).
- `PairCorrect`, by `WholeInv`: what holds in a browser outside `torn`. A tab between the two writes has stored its private half and is alone there (`WholeTab`); an old
  private key is that of the stored public one, no session is saved, and whoever is about to store there is migrating it (`Migrant`).
- `MessagesCorrect`, by `CleanInv`: what holds in a browser outside `mixed`. The halves differ only while a tab is between its two writes, and
  then no other tab is in use; every session, every stored session and every login that has its device is on a device with the key that is stored whole; an old private key is that of the stored public one, and nobody is logged in.
- `LoginsPossible`, under `LegacyAlone` (a browser that has a key to migrate is open in one tab), by `LockInv`: a key just generated is nowhere else (`Fresh`), a browser,
  its sessions and its functions have keys of their own (`Owned`), and a regeneration that revokes has stored another key (`Replaced`). Without the hypothesis it is false, see Findings.

`Conversations_proofs.tla`, from the assumptions of its module, for any number of pages, rows and devices:

- `TypeCorrect`, by `TInv`; `clock` is bounded because it counts rows and acts.
- `PairCorrect`, by `PastFind`: among the rows a handler about to insert looked at, none is of its pair, as long as none of that pair has been left.
- `ListCorrect` and `DeletedCorrect`, both by `ListInv`, three facts of each page and row: an answer that lacks a row of the page's user is older than those that have it (`Ordered`);
  a row the page is to list is listed, or is on its way, or an older list is shown (`Awaited`); a row deleted on the page is only in answers and lists older than the newest shown (`Gone`).

`Decryption_proofs.tla`, from the assumptions of its module (a device a conversation names at the beginning is one of the friend's), for any friends, devices,
conversations, messages and functions at once:

- `TypeCorrect`, by `TInv`: every key cached is of this browser and, in a device's cache, of that device (`GoodKeys`); a function or timer under way is about messages that are there
  (`GoodJob`); the retry effect is due only when a message of the open conversation has failed, so the decryption it starts has something to do.
- `SealedCorrect` and `ReadCorrect`, by `PairInv`: what the page, or a function under way, knows of a conversation still holds of its row, but for a device since
  deleted (`Later`), and a device it names is the friend's (`Named`). So a load that has access still has it when its answer is marked read.
- `NothingStuckCorrect`, by `StuckInv`: a message is in plain, was stored untried, is about to be decrypted, or has failed with the effect due if its conversation is open.

Only model-checked: the liveness properties `AcceptanceCompletes` and `EventuallyPlain`, because liveness under fairness needs `ENABLED` and is
out of the prover's reach. `Size` counts `Entries` instead of calling `BagCardinality`, and `Orphaned` does not call `BagOfAll`, because those sums
are recursive in `Bags`, and a fact about them would need induction over data.

## Not modelled, and why

- Unread counts (`Chat.tsx:730-804`) are a function of the store's messages, recomputed at every change; group conversations and the unused
  endpoints (`POST /messages`, `PATCH read`, `message:delivered`) have no caller in the frontend.
- Registration, profile, password, handle and device names are single writes of one row behind a form. Account deletion is never reached from the frontend.
- Passwords and tokens are assumed to be checked correctly, and WebCrypto to do what it promises. Session rows are written and never read.
- The acknowledgement of `sendMessage` only ends its own promise; `useWebSocket.ts`, `useUnreadCounts.ts`, `api/websocket.ts` and most of `crypto-helpers.ts` are used by nothing.
- The schema migrations, generated Prisma client, Docker and nginx files, styling and presentational components have no behaviour to check.

Abstractions that cross modules: `Decryption` and `Conversations` have the steps of a leaving user, of a login or of a friend's request as one
action each, because `Messaging`, `Devices` and `Friends` have them in full; `FriendLists` has one page of the user, `Decryption` one chat page.

## Plan

1. `Friends`, 2. `Messaging`, 3. `Presence`, 4. `Conversations`, 5. `Devices`, 6. `Decryption` and `FriendLists`: done.
7. Theorems: every safety and action property of the runs that pass; the two liveness properties stay with TLC.
