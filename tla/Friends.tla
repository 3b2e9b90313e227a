-------------------------------- MODULE Friends --------------------------------
(***************************************************************************)
(* backend/src/friends: invite codes, friend requests and friendships.     *)
(*                                                                         *)
(* Each HTTP request runs in a handler.  A handler's code between two      *)
(* awaits is one action; the database row a step reads or writes is        *)
(* touched atomically, and other handlers run between any two steps.  A    *)
(* handler may also die between two steps (process crash, database or      *)
(* Redis error).                                                           *)
(*                                                                         *)
(* A friend request row is known by its <<from, to>> pair: the schema      *)
(* allows one row per ordered pair and the service never deletes one.      *)
(* Invite codes are abstracted to which users have a live one; a code that *)
(* was never issued, was overwritten or has expired is refused and changes *)
(* nothing, and a new code for a user who has one leaves that user live.   *)
(***************************************************************************)
EXTENDS Integers, Sequences

CONSTANTS Users,       \* user ids; integers, because the code sorts them
          Handlers,    \* requests the API serves at the same time
          Mortal,      \* those of them that may die before they end
          RowIds,      \* ids of friendship rows of one pair
          NoRow,       \* no such row
          MaxChannel   \* bound: events published and not yet delivered

ASSUME UsersAssumption == Users \subseteq Int
ASSUME MortalAssumption == Mortal \subseteq Handlers
ASSUME RowsAssumption == NoRow \notin RowIds
ASSUME ChannelAssumption == MaxChannel \in Nat \ {0}

VARIABLES invitable,   \* users whose invite_code is set and not expired
          requests,    \* friend_requests.status by <<from, to>>
          friendship,  \* friendships.id by <<user1, user2>>
          job,         \* what each handler is doing
          channel,     \* Redis chat:friends, oldest event first
          consent,     \* history: <<u, v>>, u asked v or accepted v
          overtaken    \* history: {u, v}, a handler wrote a row of theirs while
                       \* another was relying on what it had read of them

history == <<consent, overtaken>>
vars == <<invitable, requests, friendship, job, channel, history>>

Pairs == Users \X Users
Status == {"none", "pending", "accepted", "rejected"}

BusyPC == {"checkFriends", "checkPending", "checkAny", "writeRequest",
           "publishRequest", "update", "befriend", "publishAccepted",
           "publishResponse", "delete"}
Choice == {"accept", "reject", "create", "update", "none"}

Idle == [pc |-> "idle"]
Busy == [pc : BusyPC, user : Users, from : Users, to : Users,
         choice : Choice, row : RowIds \union {NoRow}]

Event == [type : {"friend_request", "friend_accepted",
                  "friend_request_response"},
          from : Users, to : Users]

Init ==
    /\ invitable = {}
    /\ requests = [p \in Pairs |-> "none"]
    /\ friendship = [p \in Pairs |-> NoRow]
    /\ job = [h \in Handlers |-> Idle]
    /\ channel = <<>>
    /\ consent = {} /\ overtaken = {}

--------------------------------------------------------------------------------
(* Rows *)

(* mutated: the ids are stored unsorted *)
FriendshipKeyUnsorted(a, b) == <<a, b>>

(* [fromUserId, toUserId].sort(): the key under which a friendship is stored *)
FriendshipKey(a, b) == IF a < b THEN <<a, b>> ELSE <<b, a>>

(* areFriends, and the same query in sendFriendRequest and removeFriend *)
AreFriends(a, b) == friendship[<<a, b>>] # NoRow \/ friendship[<<b, a>>] # NoRow

(* the id that query returns *)
FriendshipRow(a, b) ==
    IF friendship[<<a, b>>] # NoRow THEN friendship[<<a, b>>]
                                    ELSE friendship[<<b, a>>]

PendingBetween(a, b) ==
    requests[<<a, b>>] = "pending" \/ requests[<<b, a>>] = "pending"

(* a fresh uuid: one no handler still holds *)
FreshRow(r) == \A h \in Handlers : job[h].pc = "delete" => job[h].row # r

(* Handlers *)

At(h, pc) == job[h].pc = pc
Goto(h, pc) == job' = [job EXCEPT ![h].pc = pc]

(* mutated: the locals outlive the handler *)
FinishKeepsLocals(h) == job' = [job EXCEPT ![h].pc = "idle"]

Finish(h) == job' = [job EXCEPT ![h] = Idle]

Publish(type, j) ==
    /\ Len(channel) < MaxChannel
    /\ channel' = Append(channel, [type |-> type, from |-> j.from, to |-> j.to])

(* Steps at which a handler relies on rows it has read of its two users and  *)
(* will write one.  removeFriend is not among them: its delete is by id.     *)
RelyPC == {"checkPending", "checkAny", "writeRequest", "update", "befriend"}
Between(h) == {job[h].from, job[h].to}

(* h writes a row of its two users, maybe under the eyes of another handler  *)
Writes(h) ==
    overtaken' =
        IF \E g \in Handlers \ {h} : job[g].pc \in RelyPC /\ Between(g) = Between(h)
        THEN overtaken \union {Between(h)} ELSE overtaken

(* the handler's user agrees to a friendship between j.from and j.to *)
Agree(j) == consent' = consent \union ({j.user} \X {j.from, j.to})
--------------------------------------------------------------------------------
(* Invite codes *)

GenerateInviteCode(u) ==
    /\ u \notin invitable
    /\ invitable' = invitable \union {u}
    /\ UNCHANGED <<requests, friendship, job, channel, history>>

(* inviteCodeExpiresAt passes *)
ExpireInviteCode(u) ==
    /\ u \in invitable
    /\ invitable' = invitable \ {u}
    /\ UNCHANGED <<requests, friendship, job, channel, history>>
--------------------------------------------------------------------------------
(* sendFriendRequest: user u presents the invite code of user v *)

SendFindCode(h, u, v) ==
    /\ At(h, "idle")
    /\ u # v
    /\ v \in invitable
    /\ job' = [job EXCEPT ![h] = [pc |-> "checkFriends", user |-> u, from |-> u,
                                  to |-> v, choice |-> "none", row |-> NoRow]]
    /\ UNCHANGED <<invitable, requests, friendship, channel, history>>

(* mutated: a friend can be asked again *)
SendCheckFriendsDropped(h) ==
    /\ At(h, "checkFriends")
    /\ Goto(h, "checkPending")
    /\ UNCHANGED <<invitable, requests, friendship, channel, history>>

SendCheckFriends(h) ==
    /\ At(h, "checkFriends")
    /\ IF AreFriends(job[h].from, job[h].to)
       THEN Finish(h)
       ELSE Goto(h, "checkPending")
    /\ UNCHANGED <<invitable, requests, friendship, channel, history>>

SendCheckPending(h) ==
    /\ At(h, "checkPending")
    /\ IF PendingBetween(job[h].from, job[h].to)
       THEN Finish(h)
       ELSE Goto(h, "checkAny")
    /\ UNCHANGED <<invitable, requests, friendship, channel, history>>

(* existingAnyRequest decides between update and create *)
SendCheckAny(h) ==
    /\ At(h, "checkAny")
    /\ LET found == requests[<<job[h].from, job[h].to>>] # "none"
       IN  job' = [job EXCEPT ![h].pc = "writeRequest",
                              ![h].choice = IF found THEN "update" ELSE "create"]
    /\ UNCHANGED <<invitable, requests, friendship, channel, history>>

(* The update is by id and looks at nothing else; the create meets the       *)
(* unique (from, to) constraint when another handler was faster.             *)
SendWriteRequest(h) ==
    /\ At(h, "writeRequest")
    /\ LET j == job[h]
           p == <<j.from, j.to>>
       IN  IF j.choice = "create" /\ requests[p] # "none"
           THEN /\ Finish(h)
                /\ UNCHANGED <<requests, history>>
           ELSE /\ requests' = [requests EXCEPT ![p] = "pending"]
                /\ Agree(j) /\ Writes(h)
                /\ Goto(h, "publishRequest")
    /\ UNCHANGED <<invitable, friendship, channel>>

SendPublish(h) ==
    /\ At(h, "publishRequest")
    /\ Publish("friend_request", job[h])
    /\ Finish(h)
    /\ UNCHANGED <<invitable, requests, friendship, history>>
--------------------------------------------------------------------------------
(* respondToFriendRequest: user u answers the request p *)

(* mutated: either user of the request may answer it *)
MayRespondEither(u, p) == u \in {p[1], p[2]}

(* any signed-in user can name any request id; only its recipient gets on *)
MayRespond(u, p) == p[2] = u

RespondFind(h, u, p, choice) ==
    /\ At(h, "idle")
    /\ requests[p] = "pending"
    /\ MayRespond(u, p)
    /\ job' = [job EXCEPT ![h] = [pc |-> "update", user |-> u, from |-> p[1],
                                  to |-> p[2], choice |-> choice, row |-> NoRow]]
    /\ UNCHANGED <<invitable, requests, friendship, channel, history>>

(* mutated: an accepted request is announced, its friendship never created *)
RespondUpdateOnly(h) ==
    /\ At(h, "update")
    /\ LET p == <<job[h].from, job[h].to>>
       IN  requests' = [requests EXCEPT ![p] =
                            IF job[h].choice = "accept" THEN "accepted" ELSE "rejected"]
    /\ Agree(job[h]) /\ Writes(h)
    /\ Goto(h, "publishResponse")
    /\ UNCHANGED <<invitable, friendship, channel>>

(* the update is by id: the status read by RespondFind is not checked again *)
RespondUpdate(h) ==
    /\ At(h, "update")
    /\ LET j == job[h]
           p == <<j.from, j.to>>
       IN  IF j.choice = "accept"
           THEN /\ requests' = [requests EXCEPT ![p] = "accepted"]
                /\ Agree(j)
                /\ Goto(h, "befriend")
           ELSE /\ requests' = [requests EXCEPT ![p] = "rejected"]
                /\ Goto(h, "publishResponse")
                /\ UNCHANGED consent
    /\ Writes(h)
    /\ UNCHANGED <<invitable, friendship, channel>>

(* friendship.create; unique (user1, user2) makes a second one throw, and    *)
(* the handler ends without publishing anything                              *)
RespondBefriend(h) ==
    /\ At(h, "befriend")
    /\ LET key == FriendshipKey(job[h].from, job[h].to)
       IN  IF friendship[key] # NoRow
           THEN Finish(h) /\ UNCHANGED <<friendship, overtaken>>
           ELSE /\ \E r \in RowIds :
                     /\ FreshRow(r)
                     /\ friendship' = [friendship EXCEPT ![key] = r]
                /\ Writes(h)
                /\ Goto(h, "publishAccepted")
    /\ UNCHANGED <<invitable, requests, channel, consent>>

RespondPublishAccepted(h) ==
    /\ At(h, "publishAccepted")
    /\ Publish("friend_accepted", job[h])
    /\ Goto(h, "publishResponse")
    /\ UNCHANGED <<invitable, requests, friendship, history>>

RespondPublishResponse(h) ==
    /\ At(h, "publishResponse")
    /\ Publish("friend_request_response", job[h])
    /\ Finish(h)
    /\ UNCHANGED <<invitable, requests, friendship, history>>
--------------------------------------------------------------------------------
(* removeFriend: user u removes user v; the request row keeps its status *)

RemoveFind(h, u, v) ==
    /\ At(h, "idle")
    /\ AreFriends(u, v)
    /\ job' = [job EXCEPT ![h] = [pc |-> "delete", user |-> u, from |-> u, to |-> v,
                                  choice |-> "none", row |-> FriendshipRow(u, v)]]
    /\ UNCHANGED <<invitable, requests, friendship, channel, history>>

(* delete by id: throws when that row is gone, and leaves a newer one alone *)
RemoveDelete(h) ==
    /\ At(h, "delete")
    /\ friendship' =
         [p \in Pairs |->
             IF /\ p \in {<<job[h].from, job[h].to>>, <<job[h].to, job[h].from>>}
                /\ friendship[p] = job[h].row
             THEN NoRow ELSE friendship[p]]
    /\ Finish(h)
    /\ UNCHANGED <<invitable, requests, channel, history>>
--------------------------------------------------------------------------------
(* a gateway instance takes the oldest event off chat:friends *)
Deliver ==
    /\ channel # <<>>
    /\ channel' = Tail(channel)
    /\ UNCHANGED <<invitable, requests, friendship, job, history>>

(* the process dies, or a database or Redis call of the handler throws *)
Crash(h) ==
    /\ ~At(h, "idle")
    /\ Finish(h)
    /\ UNCHANGED <<invitable, requests, friendship, channel, history>>

Step(h) ==
    \/ SendCheckFriends(h)
    \/ SendCheckPending(h)
    \/ SendCheckAny(h)
    \/ SendWriteRequest(h)
    \/ SendPublish(h)
    \/ RespondUpdate(h)
    \/ RespondBefriend(h)
    \/ RespondPublishAccepted(h)
    \/ RespondPublishResponse(h)
    \/ RemoveDelete(h)

Begin(h) ==
    \/ \E u, v \in Users : SendFindCode(h, u, v)
    \/ \E u \in Users, p \in Pairs, c \in {"accept", "reject"} :
          RespondFind(h, u, p, c)
    \/ \E u, v \in Users : RemoveFind(h, u, v)

Codes ==
    \/ \E u \in Users : GenerateInviteCode(u)
    \/ \E u \in Users : ExpireInviteCode(u)

Next ==
    \/ \E h \in Handlers : Begin(h)
    \/ \E h \in Handlers : Step(h)
    \/ \E h \in Mortal : Crash(h)
    \/ Codes
    \/ Deliver

Spec == Init /\ [][Next]_vars

(* A handler that has begun runs on: the event loop resumes it when its      *)
(* await settles.  Redis hands published events to its subscribers.          *)
Fairness ==
    /\ \A h \in Handlers : WF_vars(Step(h))
    /\ WF_vars(Deliver)

FairSpec == Spec /\ Fairness
--------------------------------------------------------------------------------
(* Type invariant *)
TypeOK ==
    /\ invitable \subseteq Users
    /\ requests \in [Pairs -> Status]
    /\ friendship \in [Pairs -> RowIds \union {NoRow}]
    /\ job \in [Handlers -> Busy \union {Idle}]
    /\ channel \in Seq(Event)
    /\ consent \subseteq Pairs
    /\ overtaken \subseteq SUBSET Users

(* Nobody becomes a friend without having asked or accepted: whatever two   *)
(* handlers interleave and whichever dies, a friendship row means that both *)
(* of its users acted (respondToFriendRequest lets only the recipient       *)
(* answer, sendFriendRequest names the caller as sender).                   *)
MutualConsent ==
    \A a, b \in Users :
        AreFriends(a, b) => <<a, b>> \in consent /\ <<b, a>> \in consent

(* Two accepts of crossing requests cannot store one friendship twice: the  *)
(* sort in respondToFriendRequest makes the unique constraint see both.     *)
OneFriendshipPerPair ==
    \A a, b \in Users :
        friendship[<<a, b>>] # NoRow /\ friendship[<<b, a>>] # NoRow => a = b

(* "Prevents duplicate friend requests": never a pending request each way.   *)
(* Two handlers that both look before either writes break it.                *)
NoDuplicateRequests ==
    \A a, b \in Users : a # b =>
        ~(requests[<<a, b>>] = "pending" /\ requests[<<b, a>>] = "pending")

(* "Verify not already friends": friends have no request left to answer.     *)
(* It fails when requests overlap: a has passed both checks of its request,  *)
(* b asks a and a accepts, then the first request is written between friends.*)
NoRequestBetweenFriends ==
    \A a, b \in Users : AreFriends(a, b) => ~PendingBetween(a, b)

(* h runs respondToFriendRequest for the request p with action accept: about *)
(* to update its row, or between that and friendship.create                  *)
Answering(h, p) ==
    At(h, "update") /\ job[h].choice = "accept" /\ <<job[h].from, job[h].to>> = p
Accepting(h, p) == At(h, "befriend") /\ <<job[h].from, job[h].to>> = p

(* "Friend request already responded to": an answer is final; only sending   *)
(* the request again changes the status of an answered request.  Two answers *)
(* that both read the request while it is pending break it: the last one     *)
(* written stays, and a request can end up rejected between friends.         *)
AnswerIsFinal ==
    [][\A p \in Pairs :
          requests[p] \in {"accepted", "rejected"} /\ requests'[p] # requests[p]
             => requests'[p] = "pending"]_requests

(* "If accepted: Creates Friendship record": a handler that found a request  *)
(* pending and does not die accepting it makes the two users friends,        *)
(* whatever the other handlers do to that request and wherever they die.     *)
AcceptanceCompletes ==
    \A p \in {q \in Pairs : q[1] # q[2]} :
        (\E h \in Handlers \ Mortal : Answering(h, p)) ~> AreFriends(p[1], p[2])

(* Refinement: each HTTP request takes effect at once, whatever overlaps and *)
(* whichever handler dies, as long as no row of the two users is written     *)
(* between another handler's reading and its writing.  This is all that      *)
(* breaks "Verify not already friends or request pending" and "already       *)
(* responded to".  An acceptance counts from the moment its row exists.      *)
Abs == INSTANCE FriendsAbs WITH
    asked <- {p \in Pairs : /\ {p[1], p[2]} \notin overtaken
                            /\ \/ requests[p] = "pending"
                               \/ \E h \in Handlers : Accepting(h, p)},
    friends <- {{p[1], p[2]} : p \in {q \in Pairs : /\ friendship[q] # NoRow
                                                     /\ {q[1], q[2]} \notin overtaken}},
    lost <- overtaken

ImplementsFriendsAbs == Abs!Spec
================================================================================
