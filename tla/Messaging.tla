------------------------------- MODULE Messaging -------------------------------
(***************************************************************************)
(* One conversation: its rows in the database, the gateway instances that  *)
(* serve it (backend/src/websocket/chat.gateway.ts), the Redis channel     *)
(* chat:messages that connects them, the HTTP handlers that clear or leave *)
(* it, and the list of messages each participant's browser shows.          *)
(*                                                                         *)
(* A handler's code between two awaits is one action.  An event a gateway  *)
(* emits to a socket reaches the browser in the same action: a browser     *)
(* handles the events of its socket in order, and an event that arrives    *)
(* late is one the gateway emits late.  Message ids are numbered in the    *)
(* order of createdAt; both reducers keep a conversation sorted by it, so  *)
(* what a browser shows is how many copies of each message it holds.       *)
(***************************************************************************)
EXTENDS Integers, Sequences, FiniteSets

CONSTANTS Users,        \* the participants the conversation was created with
          Instances,    \* API processes, all subscribed to chat:messages
          Handlers,     \* requests the API serves at the same time
          Offline,      \* not an instance
          MaxMessages,  \* bound: messages ever written
          MaxClears,    \* bound: times the history is cleared
          PageSize,     \* messages a history request returns (50)
          Ops           \* which operations the users perform

ASSUME UsersAssumption == Users # {}
ASSUME HandlersAssumption == IsFiniteSet(Handlers)
ASSUME OfflineAssumption == Offline \notin Instances
ASSUME BoundsAssumption ==
    MaxMessages \in Nat /\ MaxClears \in Nat /\ PageSize \in Nat \ {0}

VARIABLES alive,     \* the conversations row exists
          members,   \* conversation_participants rows
          rows,      \* messages rows, by id
          readRows,  \* messages whose read_at is set
          sentBy,    \* sender of every message ever written, oldest first
          clears,    \* history clearings so far
          asked,     \* per user, message:read requests its browser has emitted
          job,       \* what each handler is doing
          bus,       \* per instance, chat:messages events it has not handled
          at,        \* instance each user's socket is connected to
          shown,     \* copies of each message in each browser's store
          seen,      \* messages each browser shows as read
          audience,  \* history: members when each message was written
          missed     \* history: users whose browser may have missed an event

db == <<alive, members, rows, readRows, sentBy, clears, audience>>
browsers == <<shown, seen, asked>>
vars == <<db, job, bus, at, browsers, missed>>

Ids == 1..MaxMessages

BusyPC == {"create", "sendMembers", "emit",
           "readMembers", "emitRead",
           "clear", "clearMembers", "publishCleared", "cleared",
           "wipe", "leaveRow", "count", "purge", "drop",
           "query", "apply"}

Idle == [pc |-> "idle"]
Busy == [pc : BusyPC, user : Users, inst : Instances \union {Offline},
         msgs : SUBSET Ids, read : SUBSET Ids, to : SUBSET Users, wipe : BOOLEAN]

Event == [type : {"new_message"}, msg : Ids, to : SUBSET Users]
            \union [type : {"messages_deleted"}, to : SUBSET Users]

Nothing == [m \in Ids |-> 0]

Init ==
    /\ alive = TRUE
    /\ members = Users
    /\ rows = {}
    /\ readRows = {}
    /\ sentBy = <<>>
    /\ clears = 0
    /\ asked = [u \in Users |-> {}]
    /\ job = [h \in Handlers |-> Idle]
    /\ bus = [i \in Instances |-> <<>>]
    /\ at \in [Users -> Instances]
    /\ shown = [u \in Users |-> Nothing]
    /\ seen = [u \in Users |-> {}]
    /\ audience = <<>>
    /\ missed = {}
--------------------------------------------------------------------------------
(* Handlers *)

At(h, pc) == job[h].pc = pc
Goto(h, pc) == job' = [job EXCEPT ![h].pc = pc]
Finish(h) == job' = [job EXCEPT ![h] = Idle]

Start(h, pc, u, msgs, wipe) ==
    /\ At(h, "idle")
    /\ job' = [job EXCEPT ![h] = [pc |-> pc, user |-> u, inst |-> at[u], msgs |-> msgs,
                                  read |-> {}, to |-> {}, wipe |-> wipe]]

(* getParticipantIds; the answer is used after the await *)
ReadMembers(h, pc) ==
    /\ job' = [job EXCEPT ![h].pc = pc, ![h].to = members]
    /\ UNCHANGED <<db, bus, at, browsers, missed>>

(* redisClient.publish: every subscribed instance gets the event, this one too *)
Publish(e) == bus' = [i \in Instances |-> Append(bus[i], e)]

(* the sockets an instance emits an event for the users "to" to *)
Reached(i, to) == {u \in to : at[u] = i}

(* Browsers *)

(* mutated: addMessage without the check for a copy *)
AddMessageAgain(s, m) == [s EXCEPT ![m] = @ + 1]

(* addMessage: a message already in the store is ignored *)
AddMessage(s, m) == IF s[m] > 0 THEN s ELSE [s EXCEPT ![m] = @ + 1]

(* setMessages: replaces what the store holds *)
SetMessages(ms) == [m \in Ids |-> IF m \in ms THEN 1 ELSE 0]

Held(u) == {m \in Ids : shown[u][m] > 0}

FromOthers(u, ms) == {m \in ms : sentBy[m] # u}

(* message:new at the browsers of "us"; the event carries no readAt.  The    *)
(* callback would mark a message of the open conversation read, but it was   *)
(* made when the page had no conversations yet and finds no access to any.   *)
ReceiveNew(us, m) ==
    /\ shown' = [u \in Users |-> IF u \in us THEN AddMessage(shown[u], m) ELSE shown[u]]
    /\ seen' = [u \in Users |-> IF u \in us /\ m \notin Held(u)
                                THEN seen[u] \ {m} ELSE seen[u]]
    /\ UNCHANGED asked

(* messages:deleted at the browsers of "us" *)
ReceiveDeleted(us) ==
    /\ shown' = [u \in Users |-> IF u \in us THEN SetMessages({}) ELSE shown[u]]
    /\ seen' = [u \in Users |-> IF u \in us THEN {} ELSE seen[u]]
    /\ UNCHANGED asked

(* message:read at the browsers of "us": markRead finds only what is there *)
ReceiveRead(us, m) ==
    /\ seen' = [u \in Users |-> IF u \in us /\ m \in Held(u)
                                THEN seen[u] \union {m} ELSE seen[u]]
    /\ UNCHANGED <<shown, asked>>

(* getMessages: the oldest PageSize rows *)
Page(ms) == {m \in ms : Cardinality({k \in ms : k < m}) < PageSize}
--------------------------------------------------------------------------------
(* message:send *)

Sending == {h \in Handlers : At(h, "create")}

(* isParticipant; a non-participant gets an error and nothing changes *)
SendCheck(h, u) ==
    /\ "send" \in Ops
    /\ at[u] # Offline
    /\ u \in members
    /\ Len(sentBy) + Cardinality(Sending) < MaxMessages
    /\ Start(h, "create", u, {}, FALSE)
    /\ UNCHANGED <<db, bus, at, browsers, missed>>

(* createMessage; the foreign key fails when the conversation is gone *)
SendCreate(h) ==
    /\ At(h, "create")
    /\ IF ~alive
       THEN /\ Finish(h)
            /\ UNCHANGED <<rows, sentBy, audience>>
       ELSE LET m == Len(sentBy) + 1 IN
            /\ rows' = rows \union {m}
            /\ sentBy' = Append(sentBy, job[h].user)
            /\ audience' = Append(audience, members)
            /\ job' = [job EXCEPT ![h].pc = "sendMembers", ![h].msgs = {m}]
    /\ UNCHANGED <<alive, members, readRows, clears, bus, at, browsers, missed>>

(* mutated: the recipients are the participants the conversation began with *)
SendMembersCached(h) ==
    /\ At(h, "sendMembers")
    /\ job' = [job EXCEPT ![h].pc = "emit", ![h].to = Users]
    /\ UNCHANGED <<db, bus, at, browsers, missed>>

SendMembers(h) == At(h, "sendMembers") /\ ReadMembers(h, "emit")

(* mutated: nothing is published, as for message:read *)
SendEmitLocally(h) ==
    /\ At(h, "emit")
    /\ \E m \in job[h].msgs : ReceiveNew(Reached(job[h].inst, job[h].to), m)
    /\ Finish(h)
    /\ UNCHANGED <<db, bus, at, missed>>

(* mutated: an instance does not get its own publication back *)
SendEmitWithoutEcho(h) ==
    /\ At(h, "emit")
    /\ \E m \in job[h].msgs :
         /\ ReceiveNew(Reached(job[h].inst, job[h].to), m)
         /\ bus' = [i \in Instances |->
                      IF i = job[h].inst THEN bus[i]
                      ELSE Append(bus[i], [type |-> "new_message", msg |-> m,
                                           to |-> job[h].to])]
    /\ Finish(h)
    /\ UNCHANGED <<db, at, missed>>

(* emit to this instance's sockets, then publish to all instances *)
SendEmit(h) ==
    /\ At(h, "emit")
    /\ \E m \in job[h].msgs :
         /\ ReceiveNew(Reached(job[h].inst, job[h].to), m)
         /\ Publish([type |-> "new_message", msg |-> m, to |-> job[h].to])
    /\ Finish(h)
    /\ UNCHANGED <<db, at, missed>>
--------------------------------------------------------------------------------
(* message:read *)

(* a message of the open conversation that a decryption retry has read *)
ReadRetried(u, m) ==
    /\ "retry" \in Ops
    /\ m \in FromOthers(u, Held(u))
    /\ seen' = [seen EXCEPT ![u] = @ \union {m}]
    /\ asked' = [asked EXCEPT ![u] = @ \union {m}]
    /\ UNCHANGED <<db, job, bus, at, shown, missed>>

(* the request reaches the gateway: markRead, which throws without a row *)
ReadUpdate(h, u, m) ==
    /\ at[u] # Offline
    /\ m \in asked[u]
    /\ asked' = [asked EXCEPT ![u] = @ \ {m}]
    /\ IF m \in rows
       THEN /\ readRows' = readRows \union {m}
            /\ Start(h, "readMembers", u, {m}, FALSE)
       ELSE At(h, "idle") /\ UNCHANGED <<readRows, job>>
    /\ UNCHANGED <<alive, members, rows, sentBy, clears, audience, bus, at,
                   shown, seen, missed>>

ReadGetMembers(h) == At(h, "readMembers") /\ ReadMembers(h, "emitRead")

(* the receipt goes to this instance's sockets and is not published *)
ReadEmit(h) ==
    /\ At(h, "emitRead")
    /\ \E m \in job[h].msgs : ReceiveRead(Reached(job[h].inst, job[h].to), m)
    /\ Finish(h)
    /\ UNCHANGED <<db, bus, at, missed>>
--------------------------------------------------------------------------------
(* DELETE /conversations/:id/messages *)

ClearCheck(h, u) ==
    /\ "clear" \in Ops
    /\ u \in members
    /\ clears < MaxClears
    /\ clears' = clears + 1
    /\ Start(h, "clear", u, {}, FALSE)
    /\ UNCHANGED <<alive, members, rows, readRows, sentBy, audience,
                   bus, at, browsers, missed>>

(* mutated: receipts survive the messages they are about *)
ClearRowsKeepsReceipts(h) ==
    /\ At(h, "clear")
    /\ rows' = {}
    /\ Goto(h, "clearMembers")
    /\ UNCHANGED <<alive, members, readRows, sentBy, clears, audience,
                   bus, at, browsers, missed>>

ClearRows(h) ==
    /\ At(h, "clear")
    /\ rows' = {}
    /\ readRows' = {}
    /\ Goto(h, "clearMembers")
    /\ UNCHANGED <<alive, members, sentBy, clears, audience, bus, at, browsers, missed>>

ClearMembers(h) == At(h, "clearMembers") /\ ReadMembers(h, "publishCleared")

(* mutated: the participant who asked is left out, its browser clears itself *)
ClearPublishToOthers(h) ==
    /\ At(h, "publishCleared")
    /\ Publish([type |-> "messages_deleted", to |-> job[h].to \ {job[h].user}])
    /\ Goto(h, "cleared")
    /\ UNCHANGED <<db, at, browsers, missed>>

ClearPublish(h) ==
    /\ At(h, "publishCleared")
    /\ Publish([type |-> "messages_deleted", to |-> job[h].to])
    /\ Goto(h, "cleared")
    /\ UNCHANGED <<db, at, browsers, missed>>

(* the response: the browser that asked empties its own list *)
ClearDone(h) ==
    /\ At(h, "cleared")
    /\ ReceiveDeleted({job[h].user})
    /\ Finish(h)
    /\ UNCHANGED <<db, bus, at, missed>>
--------------------------------------------------------------------------------
(* DELETE /conversations/:id, with or without deleteMessages=true *)

LeaveCheck(h, u, wipe) ==
    /\ IF wipe THEN "leaveWipe" \in Ops ELSE "leave" \in Ops
    /\ u \in members
    /\ Start(h, IF wipe THEN "wipe" ELSE "leaveRow", u, {}, wipe)
    /\ UNCHANGED <<db, bus, at, browsers, missed>>

(* the other participants are not told *)
LeaveWipe(h) ==
    /\ At(h, "wipe")
    /\ rows' = {}
    /\ readRows' = {}
    /\ Goto(h, "leaveRow")
    /\ UNCHANGED <<alive, members, sentBy, clears, audience, bus, at, browsers, missed>>

(* conversationParticipant.delete throws when the row is already gone *)
LeaveRow(h) ==
    /\ At(h, "leaveRow")
    /\ members' = members \ {job[h].user}
    /\ IF job[h].user \in members THEN Goto(h, "count") ELSE Finish(h)
    /\ UNCHANGED <<alive, rows, readRows, sentBy, clears, audience, bus, at,
                   browsers, missed>>

(* mutated: off by one, as if the count still included the one leaving *)
LeaveCountOffByOne(h) ==
    /\ At(h, "count")
    /\ IF Cardinality(members) > 1 THEN Finish(h)
       ELSE Goto(h, IF job[h].wipe THEN "drop" ELSE "purge")
    /\ UNCHANGED <<db, bus, at, browsers, missed>>

LeaveCount(h) ==
    /\ At(h, "count")
    /\ IF members # {} THEN Finish(h)
       ELSE Goto(h, IF job[h].wipe THEN "drop" ELSE "purge")
    /\ UNCHANGED <<db, bus, at, browsers, missed>>

LeavePurge(h) ==
    /\ At(h, "purge")
    /\ rows' = {}
    /\ readRows' = {}
    /\ Goto(h, "drop")
    /\ UNCHANGED <<alive, members, sentBy, clears, audience, bus, at, browsers, missed>>

(* conversation.delete cascades to messages; a second one throws *)
LeaveDrop(h) ==
    /\ At(h, "drop")
    /\ alive' = FALSE
    /\ rows' = {}
    /\ readRows' = {}
    /\ Finish(h)
    /\ UNCHANGED <<members, sentBy, clears, audience, bus, at, browsers, missed>>
--------------------------------------------------------------------------------
(* loadMessages: GET the history, then setMessages with the answer *)

FetchCheck(h, u) ==
    /\ "fetch" \in Ops
    /\ Start(h, IF u \in members THEN "query" ELSE "apply", u, {}, FALSE)
    /\ UNCHANGED <<db, bus, at, browsers, missed>>

FetchQuery(h) ==
    /\ At(h, "query")
    /\ job' = [job EXCEPT ![h].pc = "apply", ![h].msgs = Page(rows),
                          ![h].read = Page(rows) \intersect readRows]
    /\ UNCHANGED <<db, bus, at, browsers, missed>>

(* "mine": the conversation is open and this device has access to it, so the *)
(* browser marks what others sent and had no readAt                          *)
FetchApply(h, mine) ==
    /\ At(h, "apply")
    /\ mine => "read" \in Ops
    /\ LET u == job[h].user
           new == IF mine THEN FromOthers(u, job[h].msgs \ job[h].read) ELSE {}
       IN  /\ shown' = [shown EXCEPT ![u] = SetMessages(job[h].msgs)]
           /\ seen' = [seen EXCEPT ![u] = job[h].read \union new]
           /\ asked' = [asked EXCEPT ![u] = @ \union new]
           /\ missed' = IF at[u] # Offline /\ bus[at[u]] = <<>>
                        THEN missed \ {u} ELSE missed
    /\ Finish(h)
    /\ UNCHANGED <<db, bus, at>>
--------------------------------------------------------------------------------
(* handleRedisMessage: an instance handles its oldest event *)
Deliver(i) ==
    /\ bus[i] # <<>>
    /\ LET e == Head(bus[i]) IN
         IF e.type = "new_message" THEN ReceiveNew(Reached(i, e.to), e.msg)
                                   ELSE ReceiveDeleted(Reached(i, e.to))
    /\ bus' = [bus EXCEPT ![i] = Tail(@)]
    /\ UNCHANGED <<db, job, at, missed>>

(* socket.io drops and restores the connection; nothing is sent again *)
Disconnect(u) ==
    /\ "disconnect" \in Ops
    /\ at[u] # Offline
    /\ at' = [at EXCEPT ![u] = Offline]
    /\ missed' = missed \union {u}
    /\ UNCHANGED <<db, job, bus, browsers>>

Reconnect(u, i) ==
    /\ at[u] = Offline
    /\ at' = [at EXCEPT ![u] = i]
    /\ UNCHANGED <<db, job, bus, browsers, missed>>

Owing == {"sendMembers", "emit", "readMembers", "emitRead",
          "clearMembers", "publishCleared", "cleared"}

(* the handler dies between two steps; an event it owed is never sent *)
Crash(h) ==
    /\ "crash" \in Ops
    /\ ~At(h, "idle")
    /\ missed' = IF job[h].pc \in Owing THEN Users ELSE missed
    /\ Finish(h)
    /\ UNCHANGED <<db, bus, at, browsers>>

Step(h) ==
    \/ SendCreate(h) \/ SendMembers(h) \/ SendEmit(h)
    \/ ReadGetMembers(h) \/ ReadEmit(h)
    \/ ClearRows(h) \/ ClearMembers(h) \/ ClearPublish(h) \/ ClearDone(h)
    \/ LeaveWipe(h) \/ LeaveRow(h) \/ LeaveCount(h) \/ LeavePurge(h) \/ LeaveDrop(h)
    \/ FetchQuery(h) \/ \E mine \in BOOLEAN : FetchApply(h, mine)

Begin(h) ==
    \E u \in Users :
        \/ SendCheck(h, u)
        \/ \E m \in Ids : ReadUpdate(h, u, m)
        \/ ClearCheck(h, u)
        \/ \E wipe \in BOOLEAN : LeaveCheck(h, u, wipe)
        \/ FetchCheck(h, u)

Next ==
    \/ \E h \in Handlers : Begin(h) \/ Step(h) \/ Crash(h)
    \/ \E i \in Instances : Deliver(i)
    \/ \E u \in Users : \/ \E m \in Ids : ReadRetried(u, m)
                        \/ Disconnect(u)
                        \/ \E i \in Instances : Reconnect(u, i)

Spec == Init /\ [][Next]_vars
--------------------------------------------------------------------------------
(* Type invariant *)
TypeOK ==
    /\ alive \in BOOLEAN
    /\ members \subseteq Users
    /\ rows \subseteq Ids
    /\ readRows \subseteq rows
    /\ sentBy \in Seq(Users)
    /\ clears \in 0..MaxClears
    /\ job \in [Handlers -> Busy \union {Idle}]
    /\ bus \in [Instances -> Seq(Event)]
    /\ at \in [Users -> Instances \union {Offline}]
    /\ shown \in [Users -> [Ids -> Nat]]
    /\ seen \in [Users -> SUBSET Ids]
    /\ asked \in [Users -> SUBSET Ids]
    /\ audience \in Seq(SUBSET Users)
    /\ missed \subseteq Users

(* A participant who has left reads nothing written afterwards: recipients  *)
(* are looked up after the message is stored, never before.                 *)
AudienceOnly ==
    \A u \in Users : \A m \in Held(u) :
        m <= Len(audience) /\ u \in audience[m]

(* A message is shown once, although an instance emits it to its sockets    *)
(* and then receives its own publication of it.                             *)
ShownOnce == \A u \in Users, m \in Ids : shown[u][m] <= 1

Quiet ==
    /\ \A h \in Handlers : At(h, "idle")
    /\ \A i \in Instances : bus[i] = <<>>

Current(u) == u \in members /\ at[u] # Offline /\ u \notin missed

(* When nothing is under way, a participant's browser shows every message   *)
(* of the conversation: on whichever instance it is, whatever was cleared,  *)
(* however far an instance lags behind Redis.                               *)
NothingLost == Quiet => \A u \in Users : Current(u) => rows \subseteq Held(u)

(* "Delete all messages in a conversation (for both users)": when nothing   *)
(* is under way no browser shows a message that was deleted.                *)
NoGhosts == Quiet => \A u \in Users : Current(u) => Held(u) \subseteq rows

(* "Broadcast read receipt to all participants so sender sees it was read". *)
ReceiptSeen ==
    Quiet => \A m \in readRows :
                Current(sentBy[m]) /\ m \in Held(sentBy[m]) => m \in seen[sentBy[m]]

(* "If no participants left, delete the conversation entirely": however     *)
(* departures and a late message overlap, no conversation and no message is *)
(* left behind when the last participant is gone, and none goes sooner.     *)
EmptyConversationDropped ==
    Quiet => /\ alive <=> members # {}
             /\ ~alive => rows = {}
================================================================================
