------------------------------- MODULE FriendLists -------------------------------
(***************************************************************************)
(* What a chat page shows of friends and friend requests: the lists of     *)
(* components/FriendRequests.tsx and components/FriendsList.tsx, the badge *)
(* of pages/Chat.tsx, and the socket they listen on                        *)
(* (services/socket.service.ts), as the user moves between the pages and   *)
(* tabs, the socket comes and goes, and calls and events cross.            *)
(*                                                                         *)
(* One page of one user; each endpoint is atomic here (Friends has its     *)
(* steps), every call succeeds or is refused, and the user has no other    *)
(* page.  The number of a change of the server's rows tells which answer   *)
(* and which event is older.  A production build: React's StrictMode would *)
(* mount each component twice.                                             *)
(***************************************************************************)
EXTENDS Naturals, Sequences, FiniteSets, FiniteSetsExt, Bags

CONSTANTS Others,      \* the other users
          Nobody,
          MaxCalls,    \* bound: HTTP calls under way
          MaxChanges,  \* bound: changes of the server's rows
          MaxMoves     \* bound: pages and tabs opened, and connections lost

ASSUME OthersAssumption == Nobody \notin Others
ASSUME BoundsAssumption == MaxCalls \in Nat /\ MaxChanges \in Nat /\ MaxMoves \in Nat

VARIABLES rows,      \* server: friendships, and requests pending, of the user
          channel,   \* friend events on their way to the user's socket, in order
          socket,    \* "none", "down" (connecting or disconnected) or "up"
          handlers,  \* how often setupSocketListeners has put its handlers on it
          listenersSetup,
          onResponse,  \* FriendRequests listens for friend_request_response
          view,      \* the page, and the tab of the chat page
          received,  \* bag of users: entries of receivedRequests
          sent,      \* bag of users: entries of sentRequests
          contacts,  \* friends of FriendsList
          badge,     \* friendRequestCount
          calls,     \* bag of HTTP calls under way
          now,       \* history: changes of rows so far
          newest,    \* history: the newest change each list has been told of
          doubt,     \* history: lists told of an older change after a newer one,
                     \* or not told at all
          moves

client == <<socket, handlers, listenersSetup, onResponse, view>>
lists == <<received, sent, contacts, badge>>
history == <<now, newest, doubt>>
vars == <<rows, channel, client, lists, calls, history, moves>>

Lists == {"received", "sent", "contacts", "badge"}
Views == {"out", "settings", "friends", "conversations"}
Rows == {"received", "sent", "friend"} \X Others
Event == [type : {"request", "accepted", "response"}, who : Others, n : 1..MaxChanges]

(* "by" is the tab's component, the chat page itself or its tab left since, or a *)
(* page left since                                                               *)
Call == [op : {"lists", "count", "friends", "send", "accept", "reject", "remove"},
         who : Others \union {Nobody}, by : {"tab", "chat", "gone"},
         stage : {"asked", "answered"}, data : SUBSET Rows, n : 0..MaxChanges]

Reads == {"lists", "count", "friends"}

Init ==
    /\ rows \in {{}} \union {{r} : r \in Rows} /\ channel = <<>>
    /\ socket = "none" /\ handlers = 0 /\ listenersSetup = FALSE /\ onResponse = FALSE
    /\ view = "out"
    /\ received = EmptyBag /\ sent = EmptyBag
    /\ contacts = {} /\ badge = 0
    /\ calls = EmptyBag
    /\ now = 0 /\ newest = [l \in Lists |-> 0] /\ doubt = {}
    /\ moves = 0
--------------------------------------------------------------------------------
Of(kind, data) == {u \in Others : <<kind, u>> \in data}

(* one copy of x more, none, and one less (BagsExt has these too, but not for the *)
(* prover, which takes its copy of Bags for another).  The page takes out entries *)
(* by the id of their request: a user's are of one row, which is reused when the  *)
(* user asks again, so they all go                                                *)
With(bag, x) == bag (+) SetToBag({x})
Without(bag, x) == Restrict(bag, DOMAIN bag \ {x})
Less(bag, x) == IF bag[x] = 1 THEN Without(bag, x) ELSE [bag EXCEPT ![x] = @ - 1]

(* the entries of a list, and how many there are (the sums of Bags are recursive, *)
(* and nothing can be proved of those)                                            *)
Entries(bag) == UNION {{x} \X (1..bag[x]) : x \in DOMAIN bag}

Size(bag) == Cardinality(Entries(bag))

OnChat == view \in {"friends", "conversations"}

(* the lists of the components that are mounted *)
Mounted == IF view = "friends" THEN Lists ELSE IF OnChat THEN {"badge"} ELSE {}

Asks(op, who, by) ==
    [op |-> op, who |-> who, by |-> by, stage |-> "asked", data |-> {}, n |-> 0]

Room(k) == Size(calls) + k <= MaxCalls

Moves == moves < MaxMoves /\ moves' = moves + 1

(* history: each list of ls hears of change n; a "whole" answer holds all that was *)
(* there at n, an event or the answer to a call of one's own only the change itself *)
Hears(ls, n, whole) ==
    /\ newest' = [l \in Lists |-> IF l \in ls THEN Max({newest[l], n}) ELSE newest[l]]
    /\ doubt' = IF whole THEN (doubt \ ls) \union {l \in ls : n < newest[l]}
                         ELSE doubt \union {l \in ls : n <= newest[l]}
    /\ UNCHANGED now

(* history: the badge is counted from the list of received requests *)
HearsCounted(ls, n) ==
    /\ newest' = [l \in Lists |-> IF l \in ls \union {"badge"} THEN Max({newest[l], n})
                                                               ELSE newest[l]]
    /\ doubt' = LET d == (doubt \ {"badge"}) \union {l \in ls : n <= newest[l]}
                IN  IF "received" \in d \/ newest'["received"] < newest["badge"]
                    THEN d \union {"badge"} ELSE d
    /\ UNCHANGED now

(* history: change n, or the answer of a call, never reaches these lists *)
Misses(ls, n) ==
    /\ LET missed == ls \intersect Mounted
       IN  /\ newest' = [l \in Lists |-> IF l \in missed THEN Max({newest[l], n}) ELSE newest[l]]
           /\ doubt' = doubt \union missed
    /\ UNCHANGED now

(* history: the components of these lists go *)
Forgets(ls) ==
    /\ newest' = [l \in Lists |-> IF l \in ls THEN 0 ELSE newest[l]]
    /\ doubt' = doubt \ ls
    /\ UNCHANGED now
--------------------------------------------------------------------------------
(* The socket *)

SetupListeners ==
    IF listenersSetup THEN UNCHANGED <<handlers, listenersSetup>>
    ELSE handlers' = handlers + 1 /\ listenersSetup' = TRUE

(* connect *)
Connect ==
    /\ socket' = IF socket = "none" THEN "down" ELSE socket
    /\ IF socket = "down" THEN UNCHANGED <<handlers, listenersSetup>> ELSE SetupListeners

(* mutated: the page connects whether it is connected or not *)
ConnectAlways == Connect

(* the chat page's effect *)
ConnectOnce ==
    IF socket = "up" THEN UNCHANGED <<socket, handlers, listenersSetup>> ELSE Connect

(* socket.io has connected, again if need be *)
Connected ==
    /\ socket = "down"
    /\ socket' = "up"
    /\ UNCHANGED <<rows, channel, handlers, listenersSetup, onResponse, view, lists, calls,
                   history, moves>>

Lost ==
    /\ Moves
    /\ socket = "up"
    /\ socket' = "down"
    /\ UNCHANGED <<rows, channel, handlers, listenersSetup, onResponse, view, lists, calls,
                   history>>
--------------------------------------------------------------------------------
(* Pages and tabs *)

(* mutated: an answer to a tab that was left reaches the next one *)
LeftUnnoticed(by, c) == c

(* who a call belongs to once the tab, or the page, is left; a read nobody waits *)
(* for is of no further interest                                                 *)
Left(by, c) ==
    [c EXCEPT !.by = IF by = "gone" THEN "gone" ELSE IF @ = "tab" THEN "chat" ELSE @]

Orphaned(by) ==
    LET left == {Left(by, c) : c \in DOMAIN calls}
    IN  [d \in {c \in left : c.by = "gone" => c.op \notin Reads} |->
            Cardinality({e \in Entries(calls) : Left(by, e[1]) = d})]

(* the lists of FriendRequests and FriendsList go with them ... *)
UnmountTab == received' = EmptyBag /\ sent' = EmptyBag /\ contacts' = {}

(* ... and new ones start empty and ask for what they show *)
TabAsks == SetToBag({Asks("lists", Nobody, "tab"), Asks("friends", Nobody, "tab")})

(* login, or the way back from the settings: the effects of the tab run before *)
(* those of the chat page, so that a socket made now comes too late for        *)
(* onFriendRequestResponse                                                     *)
EnterChat ==
    /\ Moves
    /\ view \in {"out", "settings"}
    /\ Room(3)
    /\ view' = "friends"
    /\ onResponse' = (socket # "none")
    /\ ConnectOnce
    /\ calls' = calls (+) TabAsks (+) SetToBag({Asks("count", Nobody, "chat")})
    /\ UNCHANGED <<rows, channel, lists, history>>

(* the last callback removed resets listenersSetup; the handlers stay on the socket *)
OpenSettings ==
    /\ Moves
    /\ OnChat
    /\ view' = "settings"
    /\ listenersSetup' = FALSE /\ onResponse' = FALSE
    /\ calls' = Orphaned("gone")
    /\ UnmountTab /\ badge' = 0 /\ Forgets(Lists)
    /\ UNCHANGED <<rows, channel, socket, handlers>>

OpenConversations ==
    /\ Moves
    /\ view = "friends"
    /\ view' = "conversations"
    /\ onResponse' = FALSE
    /\ calls' = Orphaned("chat")
    /\ UnmountTab /\ Forgets(Lists \ {"badge"})
    /\ UNCHANGED <<rows, channel, socket, handlers, listenersSetup, badge>>

OpenFriends ==
    /\ Moves
    /\ view = "conversations"
    /\ Room(2)
    /\ view' = "friends"
    /\ onResponse' = (socket # "none")
    /\ calls' = calls (+) TabAsks
    /\ UNCHANGED <<rows, channel, socket, handlers, listenersSetup, lists, history>>

(* handleLogout of the chat page disconnects; that of the settings, or a reload, *)
(* starts the program anew                                                       *)
LogsOut ==
    /\ Moves
    /\ view # "out"
    /\ view' = "out"
    /\ socket' = "none" /\ handlers' = 0 /\ listenersSetup' = FALSE /\ onResponse' = FALSE
    /\ calls' = Orphaned("gone")
    /\ UnmountTab /\ badge' = 0 /\ Forgets(Lists)
    /\ UNCHANGED <<rows, channel>>
--------------------------------------------------------------------------------
(* Calls *)

(* the buttons of a received request, which stay enabled while it is answered *)
Answerable(u) == u \in DOMAIN received

(* the profile of a contact in the list *)
Removable(u) == u \in contacts

(* sendFriendRequest, one at a time; respondToRequest; confirmRemoveFriend *)
User(op, u) ==
    /\ view = "friends"
    /\ Room(1)
    /\ op = "send" => \A c \in DOMAIN calls : ~(c.op = "send" /\ c.by = "tab")
    /\ op \in {"accept", "reject"} => Answerable(u)
    /\ op = "remove" => Removable(u)
    /\ calls' = With(calls, Asks(op, u, "tab"))
    /\ UNCHANGED <<rows, channel, client, lists, history, moves>>

Publish(type, u) == [type |-> type, who |-> u, n |-> now']

Change == now < MaxChanges /\ now' = now + 1 /\ UNCHANGED <<newest, doubt>>

(* what an endpoint answers with *)
Read(op) ==
    {r \in rows : r[1] \in CASE op = "lists" -> {"received", "sent"}
                             [] op = "count" -> {"received"}
                             [] op = "friends" -> {"friend"}}

ServeRead(c) ==
    /\ c.stage = "asked" /\ c.op \in Reads
    /\ calls' = With(Less(calls, c),
                       [c EXCEPT !.stage = "answered", !.data = Read(c.op), !.n = now])
    /\ UNCHANGED <<rows, channel, client, lists, history, moves>>

Strangers(u) == \A r \in rows : r[2] # u

Permitted(c) ==
    CASE c.op = "send" -> Strangers(c.who)
      [] c.op \in {"accept", "reject"} -> <<"received", c.who>> \in rows
      [] c.op = "remove" -> <<"friend", c.who>> \in rows

(* the other user is told of the request or the answer; this one of the friendship *)
ServeWrite(c) ==
    /\ c.stage = "asked" /\ c.op \notin Reads
    /\ Permitted(c)
    /\ Change
    /\ rows' = CASE c.op = "send" -> rows \union {<<"sent", c.who>>}
                 [] c.op = "accept" ->
                      (rows \ {<<"received", c.who>>}) \union {<<"friend", c.who>>}
                 [] c.op = "reject" -> rows \ {<<"received", c.who>>}
                 [] c.op = "remove" -> rows \ {<<"friend", c.who>>}
    /\ channel' = channel \o (IF c.op = "accept" THEN <<Publish("accepted", c.who)>> ELSE <<>>)
    /\ calls' = With(Less(calls, c), [c EXCEPT !.stage = "answered", !.n = now'])
    /\ UNCHANGED <<client, lists, moves>>

(* an error answer changes nothing on the page *)
ServeRefuses(c) ==
    /\ c.stage = "asked" /\ c.op \notin Reads
    /\ ~Permitted(c)
    /\ calls' = Less(calls, c)
    /\ UNCHANGED <<rows, channel, client, lists, history, moves>>

Returned(c) == c.stage = "answered" /\ calls' = Less(calls, c)

(* mutated: the loaded requests are added to those an event has brought *)
ListsAnswerMerged(c) ==
    /\ c.op = "lists" /\ Returned(c)
    /\ badge' = Cardinality(Of("received", c.data))
    /\ IF c.by = "tab"
       THEN /\ received' = received (+) SetToBag(Of("received", c.data))
            /\ sent' = SetToBag(Of("sent", c.data))
            /\ Hears({"received", "sent", "badge"}, c.n, TRUE)
       ELSE UNCHANGED <<received, sent>> /\ Hears({"badge"}, c.n, TRUE)
    /\ UNCHANGED <<rows, channel, client, contacts, moves>>

(* loadPendingRequests; of a tab left since only the count is used *)
ListsAnswer(c) ==
    /\ c.op = "lists" /\ Returned(c)
    /\ badge' = Cardinality(Of("received", c.data))
    /\ IF c.by = "tab"
       THEN /\ received' = SetToBag(Of("received", c.data))
            /\ sent' = SetToBag(Of("sent", c.data))
            /\ Hears({"received", "sent", "badge"}, c.n, TRUE)
       ELSE UNCHANGED <<received, sent>> /\ Hears({"badge"}, c.n, TRUE)
    /\ UNCHANGED <<rows, channel, client, contacts, moves>>

(* loadFriendRequestCount *)
CountAnswer(c) ==
    /\ c.op = "count" /\ Returned(c)
    /\ badge' = Cardinality(c.data)
    /\ Hears({"badge"}, c.n, TRUE)
    /\ UNCHANGED <<rows, channel, client, received, sent, contacts, moves>>

(* loadFriends *)
FriendsAnswer(c) ==
    /\ c.op = "friends" /\ Returned(c)
    /\ IF c.by = "tab" THEN contacts' = Of("friend", c.data) /\ Hears({"contacts"}, c.n, TRUE)
                       ELSE UNCHANGED <<contacts, history>>
    /\ UNCHANGED <<rows, channel, client, received, sent, badge, moves>>

SendAnswer(c) ==
    /\ c.op = "send" /\ Returned(c)
    /\ IF c.by = "tab" THEN sent' = With(sent, c.who) /\ Hears({"sent"}, c.n, FALSE)
                       ELSE UNCHANGED sent /\ Misses({"sent"}, c.n)
    /\ UNCHANGED <<rows, channel, client, received, contacts, badge, moves>>

(* mutated: the badge is left to the next event *)
RespondAnswerKeepsBadge(c) ==
    /\ c.op \in {"accept", "reject"} /\ Returned(c) /\ c.by = "tab"
    /\ received' = Without(received, c.who)
    /\ HearsCounted({"received"}, c.n)
    /\ UNCHANGED <<rows, channel, client, sent, contacts, badge, moves>>

(* for a tab that was left React may still count the entries it had, so any number *)
RespondAnswer(c) ==
    /\ c.op \in {"accept", "reject"} /\ Returned(c)
    /\ LET rest == Without(received, c.who)
       IN  IF c.by = "tab"
           THEN /\ received' = rest /\ badge' = Size(rest)
                /\ HearsCounted({"received"}, c.n)
           ELSE badge' \in (IF OnChat THEN {badge, 0, 1} ELSE {badge})
                /\ Misses({"received", "badge"}, c.n)
                /\ UNCHANGED received
    /\ UNCHANGED <<rows, channel, client, sent, contacts, moves>>

RemoveAnswer(c) ==
    /\ c.op = "remove" /\ Returned(c)
    /\ IF c.by = "tab" THEN contacts' = contacts \ {c.who} /\ Hears({"contacts"}, c.n, FALSE)
                       ELSE UNCHANGED contacts /\ Misses({"contacts"}, c.n)
    /\ UNCHANGED <<rows, channel, client, received, sent, badge, moves>>
--------------------------------------------------------------------------------
(* The other users: friend events reach this user by Redis and the gateway *)

OtherSends(u) ==
    /\ Strangers(u)
    /\ Change
    /\ rows' = rows \union {<<"received", u>>}
    /\ channel' = Append(channel, Publish("request", u))
    /\ UNCHANGED <<client, lists, calls, moves>>

OtherAnswers(u, accepts) ==
    /\ <<"sent", u>> \in rows
    /\ Change
    /\ rows' = (rows \ {<<"sent", u>>}) \union (IF accepts THEN {<<"friend", u>>} ELSE {})
    /\ channel' = channel \o (IF accepts THEN <<Publish("accepted", u)>> ELSE <<>>)
                          \o <<Publish("response", u)>>
    /\ UNCHANGED <<client, lists, calls, moves>>

(* nobody is told *)
OtherRemoves(u) ==
    /\ <<"friend", u>> \in rows
    /\ Change
    /\ rows' = rows \ {<<"friend", u>>}
    /\ UNCHANGED <<channel, client, lists, calls, moves>>
--------------------------------------------------------------------------------
(* Events *)

Arrives(type) ==
    /\ channel # <<>> /\ Head(channel).type = type
    /\ channel' = Tail(channel)

(* what the handlers on the socket make of one event, each of them again *)
Times(x) == IF handlers = 0 THEN EmptyBag ELSE [y \in {x} |-> handlers]

(* friend:request: the tab prepends the entry, the page asks for the count *)
FriendRequest ==
    /\ socket = "up" /\ OnChat /\ Arrives("request")
    /\ Room(handlers)
    /\ calls' = calls (+) Times(Asks("count", Nobody, "chat"))
    /\ IF view = "friends"
       THEN /\ received' = received (+) Times(Head(channel).who)
            /\ badge' = Size(received')
            /\ HearsCounted({"received"}, Head(channel).n)
       ELSE UNCHANGED <<received, badge, history>>
    /\ UNCHANGED <<rows, client, sent, contacts, moves>>

(* mutated: only the conversations are reloaded *)
FriendAcceptedIgnored ==
    /\ socket = "up" /\ OnChat /\ Arrives("accepted")
    /\ Room(handlers)
    /\ UNCHANGED <<rows, client, lists, calls, history, moves>>

(* friend:accepted; the page reloads its conversations too (Conversations) *)
FriendAccepted ==
    /\ socket = "up" /\ OnChat /\ Arrives("accepted")
    /\ Room(handlers)
    /\ calls' = IF view # "friends" THEN calls
                ELSE calls (+) Times(Asks("friends", Nobody, "tab"))
    /\ UNCHANGED <<rows, client, lists, history, moves>>

(* mutated: the answered request is taken off the received ones *)
FriendRequestResponseReceived ==
    /\ socket = "up" /\ OnChat /\ Arrives("response")
    /\ received' = IF onResponse THEN Without(received, Head(channel).who) ELSE received
    /\ UNCHANGED <<rows, client, sent, contacts, badge, calls, history, moves>>

(* friend_request_response *)
FriendRequestResponse ==
    /\ socket = "up" /\ OnChat /\ Arrives("response")
    /\ IF onResponse
       THEN /\ sent' = Without(sent, Head(channel).who)
            /\ Hears({"sent"}, Head(channel).n, FALSE)
       ELSE UNCHANGED <<sent, history>>
    /\ UNCHANGED <<rows, client, received, contacts, badge, calls, moves>>

(* no socket, or no page that listens *)
Unheard ==
    /\ channel # <<>> /\ ~(socket = "up" /\ OnChat)
    /\ channel' = Tail(channel)
    /\ Misses(CASE Head(channel).type = "request" -> {"received", "badge"}
                [] Head(channel).type = "accepted" -> {"contacts"}
                [] Head(channel).type = "response" -> {"sent"}, Head(channel).n)
    /\ UNCHANGED <<rows, client, lists, calls, moves>>
--------------------------------------------------------------------------------
Moving ==
    Connected \/ Lost \/ EnterChat \/ OpenSettings \/ OpenConversations \/ OpenFriends \/ LogsOut

Calling ==
    \/ \E op \in {"send", "accept", "reject", "remove"}, u \in Others : User(op, u)
    \/ \E c \in DOMAIN calls :
          \/ ServeRead(c) \/ ServeWrite(c) \/ ServeRefuses(c)
          \/ ListsAnswer(c) \/ CountAnswer(c) \/ FriendsAnswer(c)
          \/ SendAnswer(c) \/ RespondAnswer(c) \/ RemoveAnswer(c)

Hearing == FriendRequest \/ FriendAccepted \/ FriendRequestResponse \/ Unheard

Elsewhere ==
    \E u \in Others :
        OtherSends(u) \/ (\E accepts \in BOOLEAN : OtherAnswers(u, accepts)) \/ OtherRemoves(u)

Next == Moving \/ Calling \/ Hearing \/ Elsewhere

Spec == Init /\ [][Next]_vars
--------------------------------------------------------------------------------
TypeOK ==
    /\ rows \subseteq Rows /\ \A q, r \in rows : q[2] = r[2] => q = r
    /\ channel \in Seq(Event)
    /\ socket \in {"none", "down", "up"} /\ handlers \in Nat
    /\ listenersSetup \in BOOLEAN /\ onResponse \in BOOLEAN
    /\ view \in Views
    /\ IsABag(received) /\ DOMAIN received \subseteq Others
    /\ IsABag(sent) /\ DOMAIN sent \subseteq Others
    /\ contacts \subseteq Others /\ badge \in Nat
    /\ IsABag(calls) /\ DOMAIN calls \subseteq Call
    /\ view # "friends" => \A c \in DOMAIN calls : c.by # "tab"
    /\ now \in 0..MaxChanges /\ newest \in [Lists -> 0..MaxChanges] /\ doubt \subseteq Lists
    /\ moves \in 0..MaxMoves

(* "Prevent setting up listeners multiple times": whatever the user opens and *)
(* however the socket comes and goes, each event is handled once.             *)
HandledOnce == (socket = "none" => handlers = 0) /\ (socket # "none" => handlers = 1)

(* all that is known to the server has been heard, or missed *)
Quiet == channel = <<>> /\ calls = EmptyBag

(* The incoming requests are those that wait for an answer, each shown once,   *)
(* unless the list heard of an older change after a newer one, or missed one.  *)
ReceivedExact ==
    Quiet /\ view = "friends" /\ "received" \notin doubt =>
        received = SetToBag(Of("received", rows))

(* "Remove the request from sent requests when it's responded to": likewise the *)
(* outgoing ones, if the socket was there when the list started to listen.      *)
SentExact ==
    Quiet /\ view = "friends" /\ onResponse /\ "sent" \notin doubt =>
        sent = SetToBag(Of("sent", rows))

(* A new friend is listed whoever accepted. *)
ContactsComplete ==
    Quiet /\ view = "friends" /\ "contacts" \notin doubt =>
        Of("friend", rows) \subseteq contacts

(* The badge counts the requests that wait for an answer. *)
BadgeExact ==
    Quiet /\ OnChat /\ "badge" \notin doubt => badge = Cardinality(Of("received", rows))
================================================================================
