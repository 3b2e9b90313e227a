-------------------------------- MODULE Presence --------------------------------
(***************************************************************************)
(* Who is shown online: the sockets each gateway instance holds            *)
(* (userSockets in chat.gateway.ts), the Redis channel chat:presence, and  *)
(* the onlineUsers set of the chat page in each browser tab.               *)
(*                                                                         *)
(* An instance that emits to its sockets reaches the tabs in the same      *)
(* action, since a socket delivers in order.  A tab may lose its           *)
(* connection and open another before the instance that held the first     *)
(* one notices.  Redis calls succeed; tokens are valid.                    *)
(***************************************************************************)
EXTENDS Naturals, Sequences

CONSTANTS Users,
          Tabs,        \* <<user, window>>: open browser tabs
          Instances,   \* API processes
          Sockets,     \* socket ids; one is used again only when forgotten
          NoSocket,
          MaxBus       \* bound: presence events an instance has not handled

ASSUME TabsAssumption == \A t \in Tabs : t[1] \in Users
ASSUME SocketsAssumption == NoSocket \notin Sockets
ASSUME BusAssumption == MaxBus \in Nat \ {0}

VARIABLES conn,      \* the server's side of each socket
          using,     \* the tab's side: the socket it is connected by
          mounted,   \* tabs that show the chat page
          online,    \* onlineUsers of each tab's chat page
          asking,    \* tabs whose request:online-users is under way
          bus,       \* per instance, chat:presence events it has not handled
          away,      \* history: tabs that were disconnected since they mounted
          cutOff     \* history: users announced after the socket had closed

server == <<conn, bus>>
tabs == <<using, mounted, asking, away>>
vars == <<server, tabs, online, cutOff>>

Owner(t) == t[1]

Free == [pc |-> "free"]
(* connecting: in userSockets, handleConnection awaits its publish;         *)
(* cut: no longer in userSockets, but handleConnection has yet to resume    *)
Conn == [pc : {"connecting", "open", "cut"}, tab : Tabs, inst : Instances]

Event == [online : BOOLEAN, user : Users]

Init ==
    /\ conn = [s \in Sockets |-> Free]
    /\ using = [t \in Tabs |-> NoSocket]
    /\ mounted = Tabs
    /\ online = [t \in Tabs |-> {}]
    /\ asking = {}
    /\ bus = [i \in Instances |-> <<>>]
    /\ away = {}
    /\ cutOff = {}
--------------------------------------------------------------------------------
(* Sockets *)

(* the sockets in userSockets of instance i *)
Registered(i) == {s \in Sockets : conn[s].pc \in {"connecting", "open"} /\ conn[s].inst = i}

OwnerOf(s) == Owner(conn[s].tab)

(* userSockets.keys() *)
OnlineUserIds(i) == {OwnerOf(s) : s \in Registered(i)}

(* mutated: counted before the socket is taken out of the set *)
LastOfUserEarly(s) == {r \in Registered(conn[s].inst) : OwnerOf(r) = OwnerOf(s)} = {}

(* mutated: any closed socket counts as the user's last *)
LastOfUserAlways(s) == conn[s].pc # "free"

(* sockets.size = 0 once s has been deleted from it *)
LastOfUser(s) ==
    \A r \in Registered(conn[s].inst) \ {s} : OwnerOf(r) # OwnerOf(s)

(* server.emit: the tabs with the chat page that instance i reaches *)
Reached(i) == {t \in mounted : using[t] \in Registered(i)}

Show(ts, us) == [t \in Tabs |-> IF t \in ts THEN online[t] \union us ELSE online[t]]
Hide(ts, u) == [t \in Tabs |-> IF t \in ts THEN online[t] \ {u} ELSE online[t]]

Publish(isOnline, u) ==
    /\ \A i \in Instances : Len(bus[i]) < MaxBus
    /\ bus' = [i \in Instances |-> Append(bus[i], [online |-> isOnline, user |-> u])]
--------------------------------------------------------------------------------
(* Connections *)

(* handleConnection up to its await *)
Connect(t, s, i) ==
    /\ using[t] = NoSocket
    /\ conn[s] = Free
    /\ conn' = [conn EXCEPT ![s] = [pc |-> "connecting", tab |-> t, inst |-> i]]
    /\ using' = [using EXCEPT ![t] = s]
    /\ Publish(TRUE, Owner(t))
    /\ UNCHANGED <<mounted, online, asking, away, cutOff>>

(* and after it: user:online to everybody, users:online to the new socket *)
Announce(s) ==
    /\ conn[s].pc = "connecting"
    /\ conn' = [conn EXCEPT ![s].pc = "open"]
    /\ online' =
         [t \in Tabs |->
            online[t]
              \union (IF t \in Reached(conn[s].inst) THEN {OwnerOf(s)} ELSE {})
              \union (IF t \in mounted /\ using[t] = s
                      THEN OnlineUserIds(conn[s].inst) ELSE {})]
    /\ UNCHANGED <<bus, tabs, cutOff>>

(* the same when the socket has been closed during the await *)
AnnounceClosed(s) ==
    /\ conn[s].pc = "cut"
    /\ conn' = [conn EXCEPT ![s] = Free]
    /\ online' = Show(Reached(conn[s].inst), {OwnerOf(s)})
    /\ cutOff' = cutOff \union {OwnerOf(s)}
    /\ UNCHANGED <<bus, tabs>>

(* mutated: a request under way survives its connection *)
LoseKeepsRequest(t) ==
    /\ using[t] # NoSocket
    /\ using' = [using EXCEPT ![t] = NoSocket]
    /\ away' = away \union {t}
    /\ UNCHANGED <<server, mounted, asking, online, cutOff>>

(* network lost, tab closed, or socketService.disconnect *)
Lose(t) ==
    /\ using[t] # NoSocket
    /\ using' = [using EXCEPT ![t] = NoSocket]
    /\ asking' = asking \ {t}
    /\ away' = away \union {t}
    /\ UNCHANGED <<server, mounted, online, cutOff>>

(* handleDisconnect, once the instance notices *)
Disconnect(s) ==
    /\ conn[s].pc \in {"connecting", "open"}
    /\ using[conn[s].tab] # s
    /\ conn' = [conn EXCEPT ![s] = IF conn[s].pc = "open" THEN Free
                                   ELSE [conn[s] EXCEPT !.pc = "cut"]]
    /\ IF LastOfUser(s)
       THEN /\ Publish(FALSE, OwnerOf(s))
            /\ online' = Hide(Reached(conn[s].inst), OwnerOf(s))
       ELSE UNCHANGED <<bus, online>>
    /\ UNCHANGED <<tabs, cutOff>>

(* an instance dies and starts again: nobody is announced offline *)
Restart(i) ==
    /\ conn' = [s \in Sockets |->
                  IF conn[s].pc # "free" /\ conn[s].inst = i THEN Free ELSE conn[s]]
    /\ LET lost == {t \in Tabs : using[t] \in Registered(i)}
       IN  /\ using' = [t \in Tabs |-> IF t \in lost THEN NoSocket ELSE using[t]]
           /\ asking' = asking \ lost
           /\ away' = away \union lost
    /\ bus' = [bus EXCEPT ![i] = <<>>]
    /\ UNCHANGED <<mounted, online, cutOff>>

(* handleRedisPresence *)
Deliver(i) ==
    /\ bus[i] # <<>>
    /\ LET e == Head(bus[i]) IN
         online' = IF e.online THEN Show(Reached(i), {e.user})
                               ELSE Hide(Reached(i), e.user)
    /\ bus' = [bus EXCEPT ![i] = Tail(@)]
    /\ UNCHANGED <<conn, tabs, cutOff>>
--------------------------------------------------------------------------------
(* The chat page *)

(* to the settings page: the socket stays, the page's state goes.  A list    *)
(* still under way would add nothing that the next request does not.         *)
LeaveChat(t) ==
    /\ t \in mounted
    /\ mounted' = mounted \ {t}
    /\ online' = [online EXCEPT ![t] = {}]
    /\ asking' = asking \ {t}
    /\ away' = away \ {t}
    /\ UNCHANGED <<server, using, cutOff>>

(* onPresenceChange: a connected page asks for the list *)
EnterChat(t) ==
    /\ t \in Tabs \ mounted
    /\ mounted' = mounted \union {t}
    /\ asking' = IF using[t] # NoSocket THEN asking \union {t} ELSE asking
    /\ away' = away \ {t}
    /\ UNCHANGED <<server, using, online, cutOff>>

(* request:online-users and its answer *)
AnswerOnlineUsers(t) ==
    /\ t \in asking
    /\ online' = Show({t}, OnlineUserIds(conn[using[t]].inst))
    /\ asking' = asking \ {t}
    /\ UNCHANGED <<server, using, mounted, away, cutOff>>

Next ==
    \/ \E t \in Tabs, s \in Sockets, i \in Instances : Connect(t, s, i)
    \/ \E s \in Sockets : Announce(s) \/ AnnounceClosed(s) \/ Disconnect(s)
    \/ \E i \in Instances : Restart(i) \/ Deliver(i)
    \/ \E t \in Tabs : \/ Lose(t) \/ LeaveChat(t) \/ EnterChat(t)
                       \/ AnswerOnlineUsers(t)

Spec == Init /\ [][Next]_vars
--------------------------------------------------------------------------------
(* Type invariant; a request under way belongs to a chat page whose socket    *)
(* an instance holds, so that handleRequestOnlineUsers has whom to answer.    *)
TypeOK ==
    /\ conn \in [Sockets -> Conn \union {Free}]
    /\ using \in [Tabs -> Sockets \union {NoSocket}]
    /\ mounted \subseteq Tabs
    /\ online \in [Tabs -> SUBSET Users]
    /\ asking \subseteq {t \in mounted : using[t] # NoSocket}
    /\ bus \in [Instances -> Seq(Event)]
    /\ away \subseteq Tabs
    /\ cutOff \subseteq Users
    /\ \A t \in Tabs : using[t] # NoSocket =>
         conn[using[t]].pc \in {"connecting", "open"} /\ conn[using[t]].tab = t

(* the instances know what the tabs know, and nothing is under way *)
Settled ==
    /\ \A s \in Sockets :
          conn[s].pc = "free" \/ (conn[s].pc = "open" /\ using[conn[s].tab] = s)
    /\ \A i \in Instances : bus[i] = <<>>
    /\ asking = {}

Connected == {OwnerOf(s) : s \in {r \in Sockets : conn[r].pc = "open"}}

Watching == {t \in mounted : using[t] # NoSocket}

(* "Send current online users to the newly connected client" and the          *)
(* broadcasts that follow: once nothing is under way, a connected chat page   *)
(* shows every user with a connection online, whatever old sockets of theirs  *)
(* closed late and in whatever order Redis and the direct emits arrived.      *)
OnlineShown == Settled => \A t \in Watching : Connected \subseteq online[t]

(* "Broadcast user offline status": nobody is shown online who is not, on a   *)
(* chat page that has stayed connected (nothing clears onlineUsers when the   *)
(* socket is lost) and for users whose sockets stayed open until announced    *)
(* (handleConnection does not look again after its await).                    *)
OfflineShown ==
    Settled => \A t \in Watching \ away : online[t] \subseteq Connected \union cutOff
================================================================================
