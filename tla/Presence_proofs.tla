----------------------------- MODULE Presence_proofs -----------------------------
(***************************************************************************)
(* Theorems about Presence, checked by TLAPS.                              *)
(***************************************************************************)
EXTENDS Presence, TLAPS

(* One API process: the deployment for which the presence list is right. *)
Alone == \E i : Instances = {i}

--------------------------------------------------------------------------------
(* Type correctness *)

LEMMA OwnerType == \A t \in Tabs : Owner(t) \in Users
BY TabsAssumption DEF Owner

(* Registered holds the sockets in userSockets, each with its instance. *)
LEMMA RegisteredConn ==
    ASSUME TypeOK, NEW s \in Sockets, conn[s].pc \in {"connecting", "open"}
    PROVE  /\ conn[s] \in Conn
           /\ conn[s].tab \in Tabs
           /\ conn[s].inst \in Instances
           /\ s \in Registered(conn[s].inst)
           /\ OwnerOf(s) \in Users
<1>1. conn[s] \in Conn
  BY DEF TypeOK, Free
<1> QED
  BY <1>1, OwnerType DEF Conn, Registered, OwnerOf

LEMMA CutConn ==
    ASSUME TypeOK, NEW s \in Sockets, conn[s].pc # "free"
    PROVE  conn[s] \in Conn /\ OwnerOf(s) \in Users
<1>1. conn[s] \in Conn
  BY DEF TypeOK, Free
<1> QED
  BY <1>1, OwnerType DEF Conn, OwnerOf

LEMMA OnlineIdsType ==
    ASSUME TypeOK, NEW i
    PROVE  OnlineUserIds(i) \subseteq Users
BY RegisteredConn DEF OnlineUserIds, Registered

LEMMA PublishType ==
    ASSUME TypeOK, NEW b \in BOOLEAN, NEW u \in Users, Publish(b, u)
    PROVE  bus' \in [Instances -> Seq(Event)]
<1>1. [online |-> b, user |-> u] \in Event
  BY DEF Event
<1>2. bus \in [Instances -> Seq(Event)]
  BY DEF TypeOK
<1> QED
  BY <1>1, <1>2 DEF Publish

LEMMA TypeStep ==
    ASSUME TypeOK, [Next]_vars
    PROVE  TypeOK'
<1> USE DEF server, tabs
<1>1. ASSUME NEW t \in Tabs, NEW s \in Sockets, NEW i \in Instances, Connect(t, s, i)
      PROVE  TypeOK'
  <2>1. bus' \in [Instances -> Seq(Event)]
    BY <1>1, PublishType, OwnerType DEF Connect
  <2>2. conn' \in [Sockets -> Conn \union {Free}]
    BY <1>1 DEF Connect, TypeOK, Conn
  <2>3. \A r \in Tabs : using'[r] # NoSocket =>
          conn'[using'[r]].pc \in {"connecting", "open"} /\ conn'[using'[r]].tab = r
    BY <1>1 DEF Connect, TypeOK, Free
  <2> QED
    BY <1>1, <2>1, <2>2, <2>3 DEF Connect, TypeOK
<1>2. ASSUME NEW s \in Sockets, Announce(s)
      PROVE  TypeOK'
  <2>1. conn[s] \in Conn /\ OwnerOf(s) \in Users
    BY <1>2, CutConn DEF Announce
  <2>2. OnlineUserIds(conn[s].inst) \subseteq Users
    BY OnlineIdsType
  <2>3. online' \in [Tabs -> SUBSET Users]
    BY <1>2, <2>1, <2>2 DEF Announce, TypeOK
  <2>4. conn' \in [Sockets -> Conn \union {Free}]
    BY <1>2, <2>1 DEF Announce, TypeOK, Conn
  <2> QED
    BY <1>2, <2>3, <2>4 DEF Announce, TypeOK
<1>3. ASSUME NEW s \in Sockets, AnnounceClosed(s)
      PROVE  TypeOK'
  <2>1. OwnerOf(s) \in Users
    BY <1>3, CutConn DEF AnnounceClosed
  <2> QED
    BY <1>3, <2>1 DEF AnnounceClosed, Show, TypeOK, Free
<1>4. ASSUME NEW s \in Sockets, Disconnect(s)
      PROVE  TypeOK'
  <2>1. conn[s] \in Conn /\ OwnerOf(s) \in Users
    BY <1>4, CutConn DEF Disconnect
  <2>2. bus' \in [Instances -> Seq(Event)]
    BY <1>4, <2>1, PublishType DEF Disconnect, TypeOK
  <2>3. online' \in [Tabs -> SUBSET Users]
    <3>1. online \in [Tabs -> SUBSET Users]
      BY DEF TypeOK
    <3>2. \A ts, u : Hide(ts, u) \in [Tabs -> SUBSET Users]
      BY <3>1 DEF Hide
    <3> QED
      <4>1. CASE LastOfUser(s)
        <5>1. online' = Hide(Reached(conn[s].inst), OwnerOf(s))
          BY <1>4, <4>1 DEF Disconnect
        <5> QED
          BY <3>2, <5>1
      <4>2. CASE ~LastOfUser(s)
        BY <1>4, <3>1, <4>2 DEF Disconnect
      <4> QED
        BY <4>1, <4>2
  <2>4. conn' \in [Sockets -> Conn \union {Free}]
    BY <1>4, <2>1 DEF Disconnect, TypeOK, Conn
  <2>5. \A t \in Tabs : using[t] # NoSocket => conn'[using[t]] = conn[using[t]]
    BY <1>4 DEF Disconnect, TypeOK
  <2> QED
    BY <1>4, <2>2, <2>3, <2>4, <2>5 DEF Disconnect, TypeOK
<1>5. ASSUME NEW i \in Instances, Restart(i)
      PROVE  TypeOK'
  <2>1. conn' \in [Sockets -> Conn \union {Free}]
    BY <1>5 DEF Restart, TypeOK
  <2>2. bus' \in [Instances -> Seq(Event)]
    BY <1>5 DEF Restart, TypeOK
  <2>3. \A t \in Tabs : using'[t] # NoSocket =>
          using'[t] = using[t] /\ conn'[using[t]] = conn[using[t]] /\ using[t] \in Sockets
    BY <1>5 DEF Restart, TypeOK, Registered
  <2>4. /\ using' \in [Tabs -> Sockets \union {NoSocket}]
        /\ asking' \subseteq {t \in mounted : using'[t] # NoSocket}
        /\ away' \subseteq Tabs
    BY <1>5, SocketsAssumption DEF Restart, TypeOK, Registered
  <2> QED
    BY <1>5, <2>1, <2>2, <2>3, <2>4 DEF Restart, TypeOK
<1>6. ASSUME NEW i \in Instances, Deliver(i)
      PROVE  TypeOK'
  <2>1. Head(bus[i]) \in Event /\ Tail(bus[i]) \in Seq(Event)
    BY <1>6 DEF Deliver, TypeOK
  <2>2. online' \in [Tabs -> SUBSET Users]
    BY <1>6, <2>1 DEF Deliver, Show, Hide, TypeOK, Event
  <2> QED
    BY <1>6, <2>1, <2>2 DEF Deliver, TypeOK
<1>7. ASSUME NEW t \in Tabs, Lose(t)
      PROVE  TypeOK'
  BY <1>7 DEF Lose, TypeOK
<1>8. ASSUME NEW t \in Tabs, LeaveChat(t)
      PROVE  TypeOK'
  BY <1>8 DEF LeaveChat, TypeOK
<1>9. ASSUME NEW t \in Tabs, EnterChat(t)
      PROVE  TypeOK'
  BY <1>9 DEF EnterChat, TypeOK
<1>10. ASSUME NEW t \in Tabs, AnswerOnlineUsers(t)
       PROVE  TypeOK'
  <2>1. OnlineUserIds(conn[using[t]].inst) \subseteq Users
    BY OnlineIdsType
  <2> QED
    BY <1>10, <2>1 DEF AnswerOnlineUsers, Show, TypeOK
<1>11. CASE UNCHANGED vars
  BY <1>11 DEF vars, TypeOK
<1> QED
  BY <1>1, <1>2, <1>3, <1>4, <1>5, <1>6, <1>7, <1>8, <1>9, <1>10, <1>11 DEF Next

(* Every reachable state is well formed; in particular a tab that is         *)
(* connected is connected by a socket its instance still has in userSockets. *)
THEOREM TypeCorrect == Spec => []TypeOK
<1>1. Init => TypeOK
  BY DEF Init, TypeOK
<1>2. TypeOK /\ [Next]_vars => TypeOK'
  BY TypeStep
<1> QED
  BY <1>1, <1>2, PTL DEF Spec

--------------------------------------------------------------------------------
(* Queues of presence events *)

News(b, u) == [online |-> b, user |-> u]

Queued(q, e) == \E k \in 1..Len(q) : q[k] = e

(* every e in the queue has an f behind it *)
Followed(q, e, f) ==
    \A k \in 1..Len(q) : q[k] = e => \E j \in (k + 1)..Len(q) : q[j] = f

(* What a publication does to a queue. *)
LEMMA AppendQueue ==
    ASSUME NEW q \in Seq(Event), NEW e, NEW f, NEW g \in Event, e # f
    PROVE  /\ Queued(q, e) => Queued(Append(q, g), e)
           /\ Queued(Append(q, e), e)
           /\ Followed(Append(q, f), e, f)
           /\ g # e /\ Followed(q, e, f) => Followed(Append(q, g), e, f)
<1>1. \A x : /\ Len(Append(q, x)) = Len(q) + 1
             /\ Append(q, x)[Len(q) + 1] = x
             /\ \A k \in 1..Len(q) : Append(q, x)[k] = q[k]
  OBVIOUS
<1>2. Len(q) \in Nat
  OBVIOUS
<1>3. Queued(q, e) => Queued(Append(q, g), e)
  BY <1>1, <1>2 DEF Queued
<1>4. Queued(Append(q, e), e)
  BY <1>1, <1>2 DEF Queued
<1>5. Followed(Append(q, f), e, f)
  <2>1. ASSUME NEW k \in 1..Len(Append(q, f)), Append(q, f)[k] = e
        PROVE  \E j \in (k + 1)..Len(Append(q, f)) : Append(q, f)[j] = f
    <3>1. k # Len(q) + 1
      BY <1>1, <2>1
    <3>2. Len(q) + 1 \in (k + 1)..Len(Append(q, f))
      BY <1>1, <1>2, <3>1
    <3> QED
      BY <1>1, <3>2
  <2> QED
    BY <2>1 DEF Followed
<1>6. ASSUME g # e, Followed(q, e, f)
      PROVE  Followed(Append(q, g), e, f)
  <2>1. ASSUME NEW k \in 1..Len(Append(q, g)), Append(q, g)[k] = e
        PROVE  \E j \in (k + 1)..Len(Append(q, g)) : Append(q, g)[j] = f
    <3>1. k \in 1..Len(q) /\ q[k] = e
      BY <1>1, <1>2, <1>6, <2>1
    <3>2. PICK j \in (k + 1)..Len(q) : q[j] = f
      BY <1>6, <3>1 DEF Followed
    <3> QED
      BY <1>1, <1>2, <3>1, <3>2
  <2> QED
    BY <2>1 DEF Followed
<1> QED
  BY <1>3, <1>4, <1>5, <1>6

(* What handling the oldest event does to it. *)
LEMMA TailQueue ==
    ASSUME NEW q \in Seq(Event), q # <<>>, NEW e, NEW f, e # f
    PROVE  /\ Followed(q, e, f) => Followed(Tail(q), e, f)
           /\ Followed(q, e, f) /\ Head(q) = e => Queued(Tail(q), f)
           /\ Queued(q, f) /\ Head(q) # f => Queued(Tail(q), f)
<1>1. /\ Len(q) \in Nat \ {0}
      /\ Len(Tail(q)) = Len(q) - 1
      /\ \A k \in 1..Len(Tail(q)) : Tail(q)[k] = q[k + 1]
      /\ Head(q) = q[1]
  OBVIOUS
<1>2. ASSUME NEW x, NEW k \in 2..Len(q), q[k] = x
      PROVE  k - 1 \in 1..Len(Tail(q)) /\ Tail(q)[k - 1] = x
  <2>1. k - 1 \in 1..Len(Tail(q)) /\ (k - 1) + 1 = k
    BY <1>1
  <2> QED
    BY <1>1, <1>2, <2>1
<1>3. ASSUME Followed(q, e, f)
      PROVE  Followed(Tail(q), e, f)
  <2>1. ASSUME NEW k \in 1..Len(Tail(q)), Tail(q)[k] = e
        PROVE  \E j \in (k + 1)..Len(Tail(q)) : Tail(q)[j] = f
    <3>1. k + 1 \in 1..Len(q) /\ q[k + 1] = e
      BY <1>1, <2>1
    <3>2. PICK j \in (k + 1 + 1)..Len(q) : q[j] = f
      BY <1>3, <3>1 DEF Followed
    <3>3. j \in 2..Len(q) /\ j - 1 \in (k + 1)..Len(Tail(q))
      BY <1>1, <3>1, <3>2
    <3> QED
      BY <1>2, <3>2, <3>3
  <2> QED
    BY <2>1 DEF Followed
<1>4. ASSUME Followed(q, e, f), Head(q) = e
      PROVE  Queued(Tail(q), f)
  <2>1. PICK j \in (1 + 1)..Len(q) : q[j] = f
    BY <1>1, <1>4 DEF Followed
  <2> QED
    BY <1>1, <1>2, <2>1 DEF Queued
<1>5. ASSUME Queued(q, f), Head(q) # f
      PROVE  Queued(Tail(q), f)
  <2>1. PICK k \in 1..Len(q) : q[k] = f
    BY <1>5 DEF Queued
  <2>2. k \in 2..Len(q)
    BY <1>1, <1>5, <2>1
  <2> QED
    BY <1>2, <2>1, <2>2 DEF Queued
<1> QED
  BY <1>3, <1>4, <1>5
--------------------------------------------------------------------------------
(* With one instance, what each action does to userSockets.keys() *)

LEMMA AloneConn ==
    ASSUME TypeOK, NEW i, Instances = {i}
    PROVE  /\ OnlineUserIds(i) = {OwnerOf(s) : s \in {r \in Sockets :
                                    conn[r].pc \in {"connecting", "open"}}}
           /\ \A s \in Sockets : conn[s].pc # "free" => conn[s].inst = i
           /\ \A t \in Watching : t \in Reached(i) /\ using[t] \in Registered(i)
<1>1. \A s \in Sockets : conn[s].pc # "free" => conn[s].inst = i
  BY CutConn DEF Conn
<1>2. Registered(i) = {r \in Sockets : conn[r].pc \in {"connecting", "open"}}
  BY <1>1 DEF Registered
<1>3. \A t \in Watching : t \in Reached(i) /\ using[t] \in Registered(i)
  BY <1>2 DEF TypeOK, Watching, Reached
<1> QED
  BY <1>1, <1>2, <1>3 DEF OnlineUserIds

LEMMA ConnectIds ==
    ASSUME TypeOK, TypeOK', NEW i, Instances = {i},
           NEW t \in Tabs, NEW s \in Sockets, Connect(t, s, i)
    PROVE  OnlineUserIds(i)' = OnlineUserIds(i) \union {Owner(t)}
<1>1. /\ conn'[s] = [pc |-> "connecting", tab |-> t, inst |-> i]
      /\ \A r \in Sockets \ {s} : conn'[r] = conn[r]
      /\ conn[s].pc = "free"
  BY DEF Connect, TypeOK, Free
<1>2. Registered(i)' = Registered(i) \union {s}
  BY <1>1 DEF Registered
<1>3. OwnerOf(s)' = Owner(t) /\ \A r \in Sockets \ {s} : OwnerOf(r)' = OwnerOf(r)
  BY <1>1 DEF OwnerOf
<1>4. s \notin Registered(i) /\ Registered(i) \subseteq Sockets
  BY <1>1 DEF Registered
<1> QED
  BY <1>2, <1>3, <1>4 DEF OnlineUserIds

LEMMA SameIds ==
    ASSUME NEW i, \A s \in Sockets : /\ conn'[s].tab = conn[s].tab
                                     /\ conn'[s].inst = conn[s].inst
                                     /\ conn'[s].pc \in {"connecting", "open"}
                                          <=> conn[s].pc \in {"connecting", "open"}
    PROVE  OnlineUserIds(i)' = OnlineUserIds(i)
<1>1. Registered(i)' = Registered(i)
  BY DEF Registered
<1>2. \A s \in Sockets : OwnerOf(s)' = OwnerOf(s)
  BY DEF OwnerOf
<1>3. Registered(i) \subseteq Sockets
  BY DEF Registered
<1> QED
  BY <1>1, <1>2, <1>3 DEF OnlineUserIds

LEMMA AnnounceIds ==
    ASSUME TypeOK, NEW i, NEW s \in Sockets, Announce(s)
    PROVE  OnlineUserIds(i)' = OnlineUserIds(i)
<1>1. conn[s] \in Conn /\ conn'[s] = [conn[s] EXCEPT !.pc = "open"]
  BY CutConn DEF Announce, TypeOK
<1>2. \A r \in Sockets \ {s} : conn'[r] = conn[r]
  BY DEF Announce, TypeOK
<1> QED
  BY <1>1, <1>2, SameIds DEF Announce, Conn

LEMMA AnnounceClosedIds ==
    ASSUME TypeOK, NEW i, NEW s \in Sockets, AnnounceClosed(s)
    PROVE  OnlineUserIds(i)' = OnlineUserIds(i)
<1>1. conn[s].pc = "cut" /\ conn'[s] = Free
  BY DEF AnnounceClosed, TypeOK
<1>2. \A r \in Sockets \ {s} : conn'[r] = conn[r]
  BY DEF AnnounceClosed, TypeOK
<1>3. Registered(i)' = Registered(i)
  BY <1>1, <1>2 DEF Registered, Free
<1>4. s \notin Registered(i) /\ Registered(i) \subseteq Sockets
  BY <1>1 DEF Registered
<1>5. \A r \in Sockets \ {s} : OwnerOf(r)' = OwnerOf(r)
  BY <1>2 DEF OwnerOf
<1> QED
  BY <1>3, <1>4, <1>5 DEF OnlineUserIds

LEMMA DisconnectIds ==
    ASSUME TypeOK, NEW i, Instances = {i}, NEW s \in Sockets, Disconnect(s)
    PROVE  /\ LastOfUser(s) => OnlineUserIds(i)' = OnlineUserIds(i) \ {OwnerOf(s)}
           /\ ~LastOfUser(s) => OnlineUserIds(i)' = OnlineUserIds(i)
           /\ \A t \in Watching : conn'[using[t]] = conn[using[t]]
<1>1. conn[s].pc \in {"connecting", "open"} /\ conn'[s].pc \in {"free", "cut"}
  BY CutConn DEF Disconnect, TypeOK, Free, Conn
<1>2. \A r \in Sockets \ {s} : conn'[r] = conn[r]
  BY DEF Disconnect, TypeOK
<1>3. Registered(i)' = Registered(i) \ {s} /\ Registered(i) \subseteq Sockets
  BY <1>1, <1>2 DEF Registered
<1>4. s \in Registered(i) /\ conn[s].inst = i
  BY <1>1, AloneConn DEF Registered
<1>5. \A r \in Sockets \ {s} : OwnerOf(r)' = OwnerOf(r)
  BY <1>2 DEF OwnerOf
<1>6. OnlineUserIds(i)' = {OwnerOf(r) : r \in Registered(i) \ {s}}
  BY <1>3, <1>5 DEF OnlineUserIds
<1>7. LastOfUser(s) <=> \A r \in Registered(i) \ {s} : OwnerOf(r) # OwnerOf(s)
  BY <1>4 DEF LastOfUser
<1>8. LastOfUser(s) => OnlineUserIds(i)' = OnlineUserIds(i) \ {OwnerOf(s)}
  BY <1>4, <1>6, <1>7 DEF OnlineUserIds
<1>9. ~LastOfUser(s) => OnlineUserIds(i)' = OnlineUserIds(i)
  BY <1>4, <1>6, <1>7 DEF OnlineUserIds
<1>10. \A t \in Watching : using[t] \in Sockets \ {s}
  BY DEF Disconnect, Watching, TypeOK
<1> QED
  BY <1>2, <1>8, <1>9, <1>10

LEMMA RestartIds ==
    ASSUME TypeOK, NEW i, Instances = {i}, Restart(i)
    PROVE  OnlineUserIds(i)' = {} /\ Watching' = {}
<1>1. \A s \in Sockets : conn'[s] = Free
  BY AloneConn DEF Restart, TypeOK, Free, Conn
<1>2. OnlineUserIds(i)' = {}
  BY <1>1 DEF OnlineUserIds, Registered, Free
<1>3. \A t \in mounted : using'[t] = NoSocket
  BY AloneConn DEF Restart, TypeOK, Watching
<1> QED
  BY <1>2, <1>3 DEF Restart, Watching
--------------------------------------------------------------------------------
(* Everybody connected is shown online *)

(* Nobody who is connected will be hidden for good by an event under way, and *)
(* a page that does not show them yet has an event or a list coming.          *)
OnlineInv(i) ==
    \A u \in OnlineUserIds(i) :
        /\ Followed(bus[i], News(FALSE, u), News(TRUE, u))
        /\ \A t \in Watching : \/ u \in online[t]
                               \/ Queued(bus[i], News(TRUE, u))
                               \/ conn[using[t]].pc = "connecting"
                               \/ t \in asking

LEMMA NewsType == \A u \in Users, b \in BOOLEAN : News(b, u) \in Event
BY DEF News, Event

(* A publication behind news of u. *)
LEMMA AppendNews ==
    ASSUME TypeOK, NEW i \in Instances, NEW g \in Event, bus'[i] = Append(bus[i], g),
           NEW u, NEW b \in BOOLEAN, NEW c \in BOOLEAN, b # c
    PROVE  /\ Queued(bus[i], News(b, u)) => Queued(bus'[i], News(b, u))
           /\ g = News(b, u) => /\ Queued(bus'[i], News(b, u))
                               /\ Followed(bus'[i], News(c, u), News(b, u))
           /\ /\ g # News(c, u)
              /\ Followed(bus[i], News(c, u), News(b, u))
              => Followed(bus'[i], News(c, u), News(b, u))
<1> DEFINE e == News(c, u)
           f == News(b, u)
<1>1. e # f
  BY DEF News
<1>2. bus[i] \in Seq(Event)
  BY DEF TypeOK
<1> HIDE DEF e, f
<1>3. /\ Queued(bus[i], f) => Queued(Append(bus[i], g), f)
      /\ g = f => Queued(Append(bus[i], g), f) /\ Followed(Append(bus[i], g), e, f)
      /\ g # e /\ Followed(bus[i], e, f) => Followed(Append(bus[i], g), e, f)
  <2>1. Queued(bus[i], f) => Queued(Append(bus[i], g), f)
    <3>1. f # e
      BY <1>1
    <3> QED
      BY <1>2, <3>1, AppendQueue
  <2>2. g = f => Queued(Append(bus[i], g), f)
    BY <1>1, <1>2, AppendQueue
  <2>3. g = f => Followed(Append(bus[i], g), e, f)
    BY <1>1, <1>2, AppendQueue
  <2>4. g # e /\ Followed(bus[i], e, f) => Followed(Append(bus[i], g), e, f)
    BY <1>1, <1>2, AppendQueue
  <2> QED
    BY <2>1, <2>2, <2>3, <2>4
<1> QED
  BY <1>3 DEF e, f

(* Handling the oldest event before news of u. *)
LEMMA TailNews ==
    ASSUME TypeOK, NEW i \in Instances, bus[i] # <<>>, bus'[i] = Tail(bus[i]),
           NEW u, NEW b \in BOOLEAN, NEW c \in BOOLEAN, b # c
    PROVE  /\ Followed(bus[i], News(c, u), News(b, u)) =>
                Followed(bus'[i], News(c, u), News(b, u))
           /\ Followed(bus[i], News(c, u), News(b, u)) /\ Head(bus[i]) = News(c, u)
                => Queued(bus'[i], News(b, u))
           /\ Queued(bus[i], News(b, u)) /\ Head(bus[i]) # News(b, u)
                => Queued(bus'[i], News(b, u))
<1> DEFINE e == News(c, u)
           f == News(b, u)
<1>1. e # f
  BY DEF News
<1>2. bus[i] \in Seq(Event)
  BY DEF TypeOK
<1> HIDE DEF e, f
<1>3. /\ Followed(bus[i], e, f) => Followed(Tail(bus[i]), e, f)
      /\ Followed(bus[i], e, f) /\ Head(bus[i]) = e => Queued(Tail(bus[i]), f)
      /\ Queued(bus[i], f) /\ Head(bus[i]) # f => Queued(Tail(bus[i]), f)
  BY <1>1, <1>2, TailQueue
<1> QED
  BY <1>3 DEF e, f

LEMMA OnlineStep ==
    ASSUME TypeOK, TypeOK', NEW i, Instances = {i}, OnlineInv(i), [Next]_vars
    PROVE  OnlineInv(i)'
<1> USE DEF server, tabs
<1>0. bus[i] \in Seq(Event) /\ OnlineUserIds(i) \subseteq Users
  BY OnlineIdsType DEF TypeOK
<1>1. ASSUME NEW t \in Tabs, NEW s \in Sockets, Connect(t, s, i)
      PROVE  OnlineInv(i)'
  <2>1. OnlineUserIds(i)' = OnlineUserIds(i) \union {Owner(t)}
    BY <1>1, ConnectIds
  <2>2. bus'[i] = Append(bus[i], News(TRUE, Owner(t))) /\ News(TRUE, Owner(t)) \in Event
    BY <1>1, OwnerType, NewsType DEF Connect, Publish, News
  <2>3. Watching' \subseteq Watching \union {t} /\ online' = online /\ asking' = asking
    BY <1>1 DEF Connect, Watching, TypeOK
  <2>4. /\ using'[t] = s /\ conn'[s].pc = "connecting"
        /\ \A r \in Watching \ {t} : using'[r] = using[r] /\ conn'[using[r]] = conn[using[r]]
    BY <1>1, SocketsAssumption DEF Connect, TypeOK, Watching, Free
  <2>5. ASSUME NEW u \in OnlineUserIds(i)'
        PROVE  Followed(bus'[i], News(FALSE, u), News(TRUE, u))
    <3>1. CASE u = Owner(t)
      BY <1>0, <2>2, <3>1, AppendNews
    <3>2. CASE u # Owner(t)
      <4>1. Followed(bus[i], News(FALSE, u), News(TRUE, u))
        BY <2>1, <3>2 DEF OnlineInv
      <4>2. News(TRUE, Owner(t)) # News(FALSE, u)
        BY DEF News
      <4> QED
        BY <1>0, <2>2, <4>1, <4>2, AppendNews
    <3> QED
      BY <3>1, <3>2
  <2>6. ASSUME NEW u \in OnlineUserIds(i)', NEW r \in Watching'
        PROVE  \/ u \in online'[r]
               \/ Queued(bus'[i], News(TRUE, u))
               \/ conn'[using'[r]].pc = "connecting"
               \/ r \in asking'
    <3>1. CASE r = t
      BY <2>4, <3>1
    <3>2. CASE u = Owner(t)
      BY <1>0, <2>2, <3>2, AppendNews
    <3>3. CASE r # t /\ u # Owner(t)
      <4>1. \/ u \in online[r]
            \/ Queued(bus[i], News(TRUE, u))
            \/ conn[using[r]].pc = "connecting"
            \/ r \in asking
        BY <2>1, <2>3, <3>3 DEF OnlineInv
      <4>2. Queued(bus[i], News(TRUE, u)) => Queued(bus'[i], News(TRUE, u))
        BY <1>0, <2>2, AppendNews
      <4> QED
        BY <2>3, <2>4, <3>3, <4>1, <4>2
    <3> QED
      BY <3>1, <3>2, <3>3
  <2> QED
    BY <2>5, <2>6 DEF OnlineInv
<1>2. ASSUME NEW s \in Sockets, Announce(s)
      PROVE  OnlineInv(i)'
  <2>1. OnlineUserIds(i)' = OnlineUserIds(i) /\ Watching' = Watching
    BY <1>2, AnnounceIds DEF Announce, Watching
  <2>2. conn[s].inst = i
    BY <1>2, AloneConn DEF Announce
  <2>3. \A t \in Watching : /\ online[t] \subseteq online'[t]
                            /\ using[t] = s => OnlineUserIds(i) \subseteq online'[t]
                            /\ using[t] # s => conn'[using[t]] = conn[using[t]]
    BY <1>2, <2>2 DEF Announce, TypeOK, Watching
  <2>4. bus' = bus /\ using' = using /\ asking' = asking
    BY <1>2 DEF Announce
  <2>5. ASSUME NEW u \in OnlineUserIds(i), NEW t \in Watching
        PROVE  \/ u \in online'[t]
               \/ Queued(bus[i], News(TRUE, u))
               \/ conn'[using[t]].pc = "connecting"
               \/ t \in asking
    <3>1. \/ u \in online[t]
          \/ Queued(bus[i], News(TRUE, u))
          \/ conn[using[t]].pc = "connecting"
          \/ t \in asking
      BY DEF OnlineInv
    <3> QED
      BY <2>3, <3>1
  <2>6. \A u \in OnlineUserIds(i) : Followed(bus[i], News(FALSE, u), News(TRUE, u))
    BY DEF OnlineInv
  <2> QED
    BY <2>1, <2>4, <2>5, <2>6 DEF OnlineInv
<1>3. ASSUME NEW s \in Sockets, AnnounceClosed(s)
      PROVE  OnlineInv(i)'
  <2>1. OnlineUserIds(i)' = OnlineUserIds(i) /\ Watching' = Watching
    BY <1>3, AnnounceClosedIds DEF AnnounceClosed, Watching
  <2>2. \A t \in Watching : online[t] \subseteq online'[t] /\ conn'[using[t]] = conn[using[t]]
    BY <1>3 DEF AnnounceClosed, Show, TypeOK, Watching
  <2>3. bus' = bus /\ using' = using /\ asking' = asking
    BY <1>3 DEF AnnounceClosed
  <2> QED
    BY <2>1, <2>2, <2>3 DEF OnlineInv
<1>4. ASSUME NEW s \in Sockets, Disconnect(s)
      PROVE  OnlineInv(i)'
  <2>1. Watching' = Watching /\ asking' = asking /\ using' = using
    BY <1>4 DEF Disconnect, Watching
  <2>2. \A t \in Watching : conn'[using[t]] = conn[using[t]]
    BY <1>4, DisconnectIds
  <2>3. CASE ~LastOfUser(s)
    BY <1>4, <2>1, <2>2, <2>3, DisconnectIds DEF Disconnect, OnlineInv
  <2>4. CASE LastOfUser(s)
    <3>1. OnlineUserIds(i)' = OnlineUserIds(i) \ {OwnerOf(s)}
      BY <1>4, <2>4, DisconnectIds
    <3>2. News(FALSE, OwnerOf(s)) \in Event
      BY <1>4, CutConn, NewsType DEF Disconnect
    <3>3. bus'[i] = Append(bus[i], News(FALSE, OwnerOf(s)))
      BY <1>4, <2>4 DEF Disconnect, Publish, News
    <3>4. \A t \in Tabs : online[t] \ {OwnerOf(s)} \subseteq online'[t]
      BY <1>4, <2>4 DEF Disconnect, Hide, TypeOK
    <3>5. \A u \in OnlineUserIds(i)' :
             /\ Followed(bus[i], News(FALSE, u), News(TRUE, u))
                   => Followed(bus'[i], News(FALSE, u), News(TRUE, u))
             /\ Queued(bus[i], News(TRUE, u)) => Queued(bus'[i], News(TRUE, u))
      <4>1. \A u \in OnlineUserIds(i)' : News(FALSE, OwnerOf(s)) # News(FALSE, u)
        BY <3>1 DEF News
      <4> QED
        BY <1>0, <3>2, <3>3, <4>1, AppendNews
    <3>6. ASSUME NEW u \in OnlineUserIds(i)', NEW t \in Watching
          PROVE  \/ u \in online'[t]
                 \/ Queued(bus'[i], News(TRUE, u))
                 \/ conn'[using[t]].pc = "connecting"
                 \/ t \in asking
      <4>1. \/ u \in online[t]
            \/ Queued(bus[i], News(TRUE, u))
            \/ conn[using[t]].pc = "connecting"
            \/ t \in asking
        BY <3>1 DEF OnlineInv
      <4>2. u \in online[t] => u \in online'[t]
        BY <3>1, <3>4 DEF Watching, TypeOK
      <4> QED
        BY <2>2, <3>5, <4>1, <4>2
    <3>7. \A u \in OnlineUserIds(i)' : Followed(bus'[i], News(FALSE, u), News(TRUE, u))
      BY <3>1, <3>5 DEF OnlineInv
    <3> QED
      BY <2>1, <3>6, <3>7 DEF OnlineInv
  <2> QED
    BY <2>3, <2>4
<1>5. ASSUME Restart(i)
      PROVE  OnlineInv(i)'
  BY <1>5, RestartIds DEF OnlineInv
<1>6. ASSUME Deliver(i)
      PROVE  OnlineInv(i)'
  <2>1. OnlineUserIds(i)' = OnlineUserIds(i)
    BY <1>6, SameIds DEF Deliver
  <2>2. /\ Watching' = Watching /\ asking' = asking /\ using' = using /\ conn' = conn
        /\ bus[i] # <<>> /\ bus'[i] = Tail(bus[i])
    BY <1>6 DEF Deliver, Watching, TypeOK
  <2>3. Head(bus[i]) \in Event /\ Head(bus[i]) = News(Head(bus[i]).online, Head(bus[i]).user)
    <3>1. Head(bus[i]) \in Event
      BY <1>0, <2>2
    <3> QED
      BY <3>1 DEF Event, News
  <2>4. \A t \in Watching : t \in Reached(i) /\ t \in Tabs
    BY AloneConn DEF Watching, TypeOK
  <2>5. ASSUME NEW u \in OnlineUserIds(i), NEW t \in Watching,
               u \in online[t] \/ Queued(bus[i], News(TRUE, u))
        PROVE  u \in online'[t] \/ Queued(bus'[i], News(TRUE, u))
    <3>0. Followed(bus[i], News(FALSE, u), News(TRUE, u))
      BY DEF OnlineInv
    <3>1. CASE Head(bus[i]) = News(TRUE, u)
      <4>1. Head(bus[i]).online = TRUE /\ Head(bus[i]).user = u
        BY <3>1 DEF News
      <4> QED
        BY <1>6, <2>4, <4>1 DEF Deliver, Show
    <3>2. CASE Head(bus[i]) = News(FALSE, u)
      BY <1>0, <2>2, <3>0, <3>2, TailNews
    <3>3. CASE Head(bus[i]) # News(TRUE, u) /\ Head(bus[i]) # News(FALSE, u)
      <4>1. Head(bus[i]).user # u
        BY <2>3, <3>3 DEF Event
      <4>2. u \in online[t] => u \in online'[t]
        BY <1>6, <2>4, <4>1 DEF Deliver, Show, Hide
      <4>3. Queued(bus[i], News(TRUE, u)) => Queued(bus'[i], News(TRUE, u))
        BY <1>0, <2>2, <3>3, TailNews
      <4> QED
        BY <2>5, <4>2, <4>3
    <3> QED
      BY <3>1, <3>2, <3>3
  <2>6. \A u \in OnlineUserIds(i) : Followed(bus'[i], News(FALSE, u), News(TRUE, u))
    BY <1>0, <2>2, TailNews DEF OnlineInv
  <2> QED
    BY <2>1, <2>2, <2>5, <2>6 DEF OnlineInv
<1>7. ASSUME NEW t \in Tabs, Lose(t) \/ LeaveChat(t) \/ EnterChat(t)
      PROVE  OnlineInv(i)'
  <2>1. OnlineUserIds(i)' = OnlineUserIds(i)
    BY <1>7, SameIds DEF Lose, LeaveChat, EnterChat
  <2>2. conn' = conn /\ bus' = bus
    BY <1>7 DEF Lose, LeaveChat, EnterChat
  <2>3. \A r \in Watching' :
           \/ r \in asking'
           \/ r \in Watching /\ using'[r] = using[r] /\ online'[r] = online[r]
                /\ (r \in asking => r \in asking')
    BY <1>7 DEF Lose, LeaveChat, EnterChat, Watching, TypeOK
  <2> QED
    BY <2>1, <2>2, <2>3 DEF OnlineInv
<1>8. ASSUME NEW t \in Tabs, AnswerOnlineUsers(t)
      PROVE  OnlineInv(i)'
  <2>1. OnlineUserIds(i)' = OnlineUserIds(i)
    BY <1>8, SameIds DEF AnswerOnlineUsers
  <2>2. conn' = conn /\ bus' = bus /\ using' = using /\ Watching' = Watching
    BY <1>8 DEF AnswerOnlineUsers, Watching
  <2>3. t \in Watching /\ asking' = asking \ {t}
    BY <1>8 DEF AnswerOnlineUsers, Watching, TypeOK
  <2>4. conn[using[t]].inst = i
    BY <2>3, AloneConn DEF Registered
  <2>5. OnlineUserIds(i) \subseteq online'[t] /\ \A r \in Tabs : online[r] \subseteq online'[r]
    BY <1>8, <2>4 DEF AnswerOnlineUsers, Show
  <2> QED
    BY <2>1, <2>2, <2>3, <2>5 DEF OnlineInv, Watching, TypeOK
<1>9. CASE UNCHANGED vars
  <2>1. OnlineUserIds(i)' = OnlineUserIds(i)
    BY <1>9, SameIds DEF vars
  <2> QED
    BY <1>9, <2>1 DEF vars, OnlineInv, Watching
<1> QED
  BY <1>1, <1>2, <1>3, <1>4, <1>5, <1>6, <1>7, <1>8, <1>9 DEF Next

(* With one instance, once nothing is under way every connected chat page    *)
(* shows every connected user online, for any number of tabs and sockets.    *)
THEOREM OnlineShownCorrect ==
    ASSUME Alone
    PROVE  Spec => []OnlineShown
<1> PICK i : Instances = {i}
  BY DEF Alone
<1>1. Init => OnlineInv(i)
  BY DEF Init, OnlineInv, OnlineUserIds, Registered, Free
<1>2. TypeOK /\ TypeOK' /\ OnlineInv(i) /\ [Next]_vars => OnlineInv(i)'
  BY OnlineStep
<1>3. TypeOK /\ OnlineInv(i) => OnlineShown
  <2> SUFFICES ASSUME TypeOK, OnlineInv(i), Settled,
                      NEW t \in Watching, NEW u \in Connected
               PROVE  u \in online[t]
    BY DEF OnlineShown
  <2>1. u \in OnlineUserIds(i)
    BY AloneConn DEF Connected
  <2>2. using[t] \in Sockets /\ conn[using[t]].pc # "connecting"
    BY DEF Settled, Watching, TypeOK
  <2>3. ~Queued(bus[i], News(TRUE, u))
    <3>1. bus[i] = <<>>
      BY DEF Settled
    <3> QED
      BY <3>1 DEF Queued
  <2> QED
    BY <2>1, <2>2, <2>3 DEF OnlineInv, Settled
<1> QED
  BY <1>1, <1>2, <1>3, TypeCorrect, PTL DEF Spec
--------------------------------------------------------------------------------
(* Nobody else is shown online *)

(* A page that has heard nothing yet shows nobody. *)
Clean ==
    \A t \in Tabs :
        t \notin mounted \/ (t \notin away /\ using[t] = NoSocket) => online[t] = {}

(* Nobody who is gone will be shown by an event under way, and a page that    *)
(* still shows them has an event coming that takes them off.                  *)
OfflineInv(i) ==
    \A u \in Users \ (OnlineUserIds(i) \union cutOff) :
        /\ Followed(bus[i], News(TRUE, u), News(FALSE, u))
        /\ \A t \in Watching \ away :
              u \in online[t] => Queued(bus[i], News(FALSE, u))

LEMMA CleanStep ==
    ASSUME TypeOK, NEW i, Instances = {i}, Clean, [Next]_vars
    PROVE  Clean'
<1> USE DEF server, tabs
<1>1. ASSUME NEW t \in Tabs, NEW s \in Sockets, Connect(t, s, i)
      PROVE  Clean'
  BY <1>1 DEF Connect, Clean, TypeOK
<1>2. ASSUME NEW s \in Sockets, Announce(s)
      PROVE  Clean'
  <2>1. \A t \in Tabs : t \notin mounted \/ using[t] = NoSocket => online'[t] = online[t]
    BY <1>2, SocketsAssumption DEF Announce, Reached, Registered, TypeOK
  <2> QED
    BY <1>2, <2>1 DEF Announce, Clean
<1>3. ASSUME NEW s \in Sockets, AnnounceClosed(s) \/ Disconnect(s)
      PROVE  Clean'
  <2>1. \A t \in Tabs : t \notin mounted \/ using[t] = NoSocket =>
                           online'[t] = online[t]
    <3>1. \A t \in Tabs : t \notin mounted \/ using[t] = NoSocket =>
                             t \notin Reached(conn[s].inst)
      BY SocketsAssumption DEF Reached, Registered
    <3>2. CASE AnnounceClosed(s)
      BY <3>1, <3>2 DEF AnnounceClosed, Show, TypeOK
    <3>3. CASE Disconnect(s)
      <4>1. CASE LastOfUser(s)
        BY <3>1, <3>3, <4>1 DEF Disconnect, Hide, TypeOK
      <4>2. CASE ~LastOfUser(s)
        BY <3>3, <4>2 DEF Disconnect
      <4> QED
        BY <4>1, <4>2
    <3> QED
      BY <1>3, <3>2, <3>3
  <2>2. mounted' = mounted /\ away' = away /\ using' = using
    BY <1>3 DEF AnnounceClosed, Disconnect
  <2> QED
    BY <2>1, <2>2 DEF Clean
<1>4. ASSUME Restart(i)
      PROVE  Clean'
  <2>1. \A t \in Tabs : using'[t] = using[t] \/ t \in away'
    BY <1>4 DEF Restart, TypeOK
  <2>2. mounted' = mounted /\ away \subseteq away' /\ online' = online
    BY <1>4 DEF Restart
  <2> QED
    BY <2>1, <2>2 DEF Clean
<1>5. ASSUME Deliver(i)
      PROVE  Clean'
  <2>1. \A t \in Tabs : t \notin mounted \/ using[t] = NoSocket => t \notin Reached(i)
    BY SocketsAssumption DEF Reached, Registered
  <2>2. \A t \in Tabs : t \notin mounted \/ using[t] = NoSocket => online'[t] = online[t]
    BY <1>5, <2>1 DEF Deliver, Show, Hide, TypeOK
  <2> QED
    BY <1>5, <2>2 DEF Deliver, Clean
<1>6. ASSUME NEW t \in Tabs, Lose(t) \/ LeaveChat(t) \/ EnterChat(t)
      PROVE  Clean'
  BY <1>6 DEF Lose, LeaveChat, EnterChat, Clean, TypeOK
<1>7. ASSUME NEW t \in Tabs, AnswerOnlineUsers(t)
      PROVE  Clean'
  <2>1. t \in mounted /\ using[t] # NoSocket
    BY <1>7 DEF AnswerOnlineUsers, TypeOK
  <2> QED
    BY <1>7, <2>1 DEF AnswerOnlineUsers, Show, Clean
<1>8. CASE UNCHANGED vars
  BY <1>8 DEF vars, Clean
<1> QED
  BY <1>1, <1>2, <1>3, <1>4, <1>5, <1>6, <1>7, <1>8 DEF Next

LEMMA OfflineStep ==
    ASSUME TypeOK, TypeOK', NEW i, Instances = {i}, Clean, OfflineInv(i), [Next]_vars
    PROVE  OfflineInv(i)'
<1> USE DEF server, tabs
<1>0. bus[i] \in Seq(Event) /\ OnlineUserIds(i) \subseteq Users
  BY OnlineIdsType DEF TypeOK
<1>1. ASSUME NEW t \in Tabs, NEW s \in Sockets, Connect(t, s, i)
      PROVE  OfflineInv(i)'
  <2>1. OnlineUserIds(i)' = OnlineUserIds(i) \union {Owner(t)}
    BY <1>1, ConnectIds
  <2>2. bus'[i] = Append(bus[i], News(TRUE, Owner(t))) /\ News(TRUE, Owner(t)) \in Event
    BY <1>1, OwnerType, NewsType DEF Connect, Publish, News
  <2>3. /\ Watching' \subseteq Watching \union {t}
        /\ online' = online /\ away' = away /\ cutOff' = cutOff
    BY <1>1 DEF Connect, Watching, TypeOK
  <2>4. t \notin away => online[t] = {}
    BY <1>1 DEF Connect, Clean
  <2>5. ASSUME NEW u \in Users \ (OnlineUserIds(i) \union cutOff)'
        PROVE  /\ Followed(bus'[i], News(TRUE, u), News(FALSE, u))
               /\ Queued(bus[i], News(FALSE, u)) => Queued(bus'[i], News(FALSE, u))
    <3>1. News(TRUE, Owner(t)) # News(TRUE, u)
      BY <2>1 DEF News
    <3>2. Followed(bus[i], News(TRUE, u), News(FALSE, u))
      BY <2>1, <2>3 DEF OfflineInv
    <3> QED
      BY <1>0, <2>2, <3>1, <3>2, AppendNews
  <2> QED
    BY <2>1, <2>3, <2>4, <2>5 DEF OfflineInv
<1>2. ASSUME NEW s \in Sockets, Announce(s)
      PROVE  OfflineInv(i)'
  <2>1. OnlineUserIds(i)' = OnlineUserIds(i) /\ Watching' = Watching
    BY <1>2, AnnounceIds DEF Announce, Watching
  <2>2. conn[s].inst = i /\ OwnerOf(s) \in OnlineUserIds(i)
    BY <1>2, AloneConn, RegisteredConn DEF Announce, OnlineUserIds
  <2>3. \A t \in Tabs : online'[t] \subseteq online[t] \union OnlineUserIds(i)
    BY <1>2, <2>2 DEF Announce
  <2>4. bus' = bus /\ away' = away /\ cutOff' = cutOff /\ Watching \subseteq Tabs
    BY <1>2 DEF Announce, Watching, TypeOK
  <2> QED
    BY <2>1, <2>3, <2>4 DEF OfflineInv
<1>3. ASSUME NEW s \in Sockets, AnnounceClosed(s)
      PROVE  OfflineInv(i)'
  <2>1. OnlineUserIds(i)' = OnlineUserIds(i) /\ Watching' = Watching
    BY <1>3, AnnounceClosedIds DEF AnnounceClosed, Watching
  <2>2. \A t \in Tabs : online'[t] \subseteq online[t] \union {OwnerOf(s)}
    BY <1>3 DEF AnnounceClosed, Show
  <2>3. /\ bus' = bus /\ away' = away /\ cutOff' = cutOff \union {OwnerOf(s)}
        /\ Watching \subseteq Tabs
    BY <1>3 DEF AnnounceClosed, Watching, TypeOK
  <2> QED
    BY <2>1, <2>2, <2>3 DEF OfflineInv
<1>4. ASSUME NEW s \in Sockets, Disconnect(s)
      PROVE  OfflineInv(i)'
  <2>1. /\ Watching' = Watching /\ away' = away /\ cutOff' = cutOff
        /\ Watching \subseteq Tabs
    BY <1>4 DEF Disconnect, Watching, TypeOK
  <2>2. CASE ~LastOfUser(s)
    <3>1. OnlineUserIds(i)' = OnlineUserIds(i) /\ bus' = bus /\ online' = online
      BY <1>4, <2>2, DisconnectIds DEF Disconnect
    <3> QED
      BY <2>1, <3>1 DEF OfflineInv
  <2>3. CASE LastOfUser(s)
    <3>1. OnlineUserIds(i)' = OnlineUserIds(i) \ {OwnerOf(s)}
      BY <1>4, <2>3, DisconnectIds
    <3>2. News(FALSE, OwnerOf(s)) \in Event
      BY <1>4, CutConn, NewsType DEF Disconnect
    <3>3. bus'[i] = Append(bus[i], News(FALSE, OwnerOf(s)))
      BY <1>4, <2>3 DEF Disconnect, Publish, News
    <3>4. /\ \A t \in Watching : OwnerOf(s) \notin online'[t]
          /\ \A t \in Tabs : online'[t] \subseteq online[t]
      <4>1. conn[s].inst = i
        BY <1>4, AloneConn DEF Disconnect
      <4>2. online' = Hide(Reached(i), OwnerOf(s))
        BY <1>4, <2>3, <4>1 DEF Disconnect
      <4>3. \A t \in Watching : t \in Reached(i)
        BY AloneConn
      <4> QED
        BY <2>1, <4>2, <4>3 DEF Hide
    <3>5. ASSUME NEW u \in Users \ (OnlineUserIds(i) \union cutOff)'
          PROVE  /\ Followed(bus'[i], News(TRUE, u), News(FALSE, u))
                 /\ Queued(bus[i], News(FALSE, u)) => Queued(bus'[i], News(FALSE, u))
      <4>1. CASE u = OwnerOf(s)
        BY <1>0, <3>2, <3>3, <4>1, AppendNews
      <4>2. CASE u # OwnerOf(s)
        <5>1. Followed(bus[i], News(TRUE, u), News(FALSE, u))
          BY <2>1, <3>1, <4>2 DEF OfflineInv
        <5>2. News(FALSE, OwnerOf(s)) # News(TRUE, u)
          BY DEF News
        <5> QED
          BY <1>0, <3>2, <3>3, <5>1, <5>2, AppendNews
      <4> QED
        BY <4>1, <4>2
    <3>6. ASSUME NEW u \in Users \ (OnlineUserIds(i) \union cutOff)',
                 NEW t \in Watching \ away, u \in online'[t]
          PROVE  Queued(bus'[i], News(FALSE, u))
      <4>1. u # OwnerOf(s) /\ u \in online[t]
        BY <2>1, <3>4, <3>6
      <4> QED
        BY <2>1, <3>1, <3>5, <4>1 DEF OfflineInv
    <3> QED
      BY <2>1, <3>5, <3>6 DEF OfflineInv
  <2> QED
    BY <2>2, <2>3
<1>5. ASSUME Restart(i)
      PROVE  OfflineInv(i)'
  <2>1. bus'[i] = <<>>
    BY <1>5 DEF Restart, TypeOK
  <2>2. \A e, f : Followed(<<>>, e, f)
    BY DEF Followed
  <2>3. Watching' = {}
    BY <1>5, RestartIds
  <2> QED
    BY <2>1, <2>2, <2>3 DEF OfflineInv
<1>6. ASSUME Deliver(i)
      PROVE  OfflineInv(i)'
  <2>1. OnlineUserIds(i)' = OnlineUserIds(i)
    BY <1>6, SameIds DEF Deliver
  <2>2. /\ Watching' = Watching /\ away' = away /\ cutOff' = cutOff
        /\ bus[i] # <<>> /\ bus'[i] = Tail(bus[i])
    BY <1>6 DEF Deliver, Watching, TypeOK
  <2>3. Head(bus[i]) \in Event /\ Head(bus[i]) = News(Head(bus[i]).online, Head(bus[i]).user)
    <3>1. Head(bus[i]) \in Event
      BY <1>0, <2>2
    <3> QED
      BY <3>1 DEF Event, News
  <2>4. \A t \in Watching : t \in Reached(i) /\ t \in Tabs
    BY AloneConn DEF Watching, TypeOK
  <2>5. ASSUME NEW u \in Users \ (OnlineUserIds(i) \union cutOff),
               NEW t \in Watching \ away, u \in online'[t]
        PROVE  Queued(bus'[i], News(FALSE, u))
    <3>0. Followed(bus[i], News(TRUE, u), News(FALSE, u))
      BY DEF OfflineInv
    <3>1. CASE Head(bus[i]) = News(FALSE, u)
      <4>1. Head(bus[i]).online = FALSE /\ Head(bus[i]).user = u
        BY <3>1 DEF News
      <4>2. u \notin online'[t]
        BY <1>6, <2>4, <4>1 DEF Deliver, Hide
      <4> QED
        BY <2>5, <4>2
    <3>2. CASE Head(bus[i]) = News(TRUE, u)
      BY <1>0, <2>2, <3>0, <3>2, TailNews
    <3>3. CASE Head(bus[i]) # News(TRUE, u) /\ Head(bus[i]) # News(FALSE, u)
      <4>1. Head(bus[i]).user # u
        BY <2>3, <3>3 DEF Event
      <4>2. u \in online[t]
        BY <1>6, <2>4, <2>5, <4>1 DEF Deliver, Show, Hide
      <4>3. Queued(bus[i], News(FALSE, u))
        BY <4>2 DEF OfflineInv
      <4> QED
        BY <1>0, <2>2, <3>3, <4>3, TailNews
    <3> QED
      BY <3>1, <3>2, <3>3
  <2>6. \A u \in Users \ (OnlineUserIds(i) \union cutOff) :
           Followed(bus'[i], News(TRUE, u), News(FALSE, u))
    BY <1>0, <2>2, TailNews DEF OfflineInv
  <2> QED
    BY <2>1, <2>2, <2>5, <2>6 DEF OfflineInv
<1>7. ASSUME NEW t \in Tabs, Lose(t) \/ LeaveChat(t) \/ EnterChat(t)
      PROVE  OfflineInv(i)'
  <2>1. OnlineUserIds(i)' = OnlineUserIds(i)
    BY <1>7, SameIds DEF Lose, LeaveChat, EnterChat
  <2>2. bus' = bus /\ cutOff' = cutOff
    BY <1>7 DEF Lose, LeaveChat, EnterChat
  <2>3. \A r \in Watching' \ away' :
           online'[r] = {} \/ (r \in Watching \ away /\ online'[r] = online[r])
    BY <1>7 DEF Lose, LeaveChat, EnterChat, Watching, TypeOK, Clean
  <2> QED
    BY <2>1, <2>2, <2>3 DEF OfflineInv
<1>8. ASSUME NEW t \in Tabs, AnswerOnlineUsers(t)
      PROVE  OfflineInv(i)'
  <2>1. OnlineUserIds(i)' = OnlineUserIds(i)
    BY <1>8, SameIds DEF AnswerOnlineUsers
  <2>2. /\ bus' = bus /\ cutOff' = cutOff /\ away' = away /\ Watching' = Watching
        /\ Watching \subseteq Tabs
    BY <1>8 DEF AnswerOnlineUsers, Watching, TypeOK
  <2>3. conn[using[t]].inst = i
    BY <1>8, AloneConn DEF AnswerOnlineUsers, Watching, TypeOK
  <2>4. \A r \in Tabs : online'[r] \subseteq online[r] \union OnlineUserIds(i)
    BY <1>8, <2>3 DEF AnswerOnlineUsers, Show
  <2> QED
    BY <2>1, <2>2, <2>4 DEF OfflineInv
<1>9. CASE UNCHANGED vars
  <2>1. OnlineUserIds(i)' = OnlineUserIds(i)
    BY <1>9, SameIds DEF vars
  <2> QED
    BY <1>9, <2>1 DEF vars, OfflineInv, Watching
<1> QED
  BY <1>1, <1>2, <1>3, <1>4, <1>5, <1>6, <1>7, <1>8, <1>9 DEF Next

(* With one instance nobody is shown online who is not, on pages that stayed  *)
(* connected and but for users whose socket closed before it was announced.   *)
THEOREM OfflineShownCorrect ==
    ASSUME Alone
    PROVE  Spec => []OfflineShown
<1> PICK i : Instances = {i}
  BY DEF Alone
<1>1. Init => Clean /\ OfflineInv(i)
  BY DEF Init, Clean, OfflineInv, Followed, Watching
<1>2. TypeOK /\ TypeOK' /\ Clean /\ OfflineInv(i) /\ [Next]_vars
        => Clean' /\ OfflineInv(i)'
  BY CleanStep, OfflineStep
<1>3. TypeOK /\ OfflineInv(i) => OfflineShown
  <2> SUFFICES ASSUME TypeOK, OfflineInv(i), Settled,
                      NEW t \in Watching \ away, NEW u \in online[t],
                      u \notin Connected \union cutOff
               PROVE  FALSE
    BY DEF OfflineShown
  <2>1. u \in Users
    BY DEF Watching, TypeOK
  <2>2. u \notin OnlineUserIds(i)
    BY AloneConn DEF Connected, Settled
  <2>3. ~Queued(bus[i], News(FALSE, u))
    <3>1. bus[i] = <<>>
      BY DEF Settled
    <3> QED
      BY <3>1 DEF Queued
  <2> QED
    BY <2>1, <2>2, <2>3 DEF OfflineInv
<1> QED
  BY <1>1, <1>2, <1>3, TypeCorrect, PTL DEF Spec
================================================================================
