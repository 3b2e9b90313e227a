------------------------------ MODULE Conversations ------------------------------
(***************************************************************************)
(* The conversations of two users: how a chat page (pages/Chat.tsx) opens  *)
(* or creates the conversation of two devices, how the server finds or     *)
(* creates its row (conversations.controller.ts, conversations.service.ts) *)
(* and tells the other user, and how every page loads its list.            *)
(*                                                                         *)
(* A handler is a sequence of steps, one for each of its calls; the rows   *)
(* of users and devices change under it.                                   *)
(***************************************************************************)
EXTENDS Integers, Sequences, FiniteSets, FiniteSetsExt

CONSTANTS Users, Pages,
          UserOf, DeviceOf,  \* who a page belongs to, and the device of its session
          Devs, Owner,
          Devs0,             \* devices that exist at the beginning
          Current0,          \* the device each user logged in with last
          MaxRows,           \* bound: conversations created
          MaxLoads,          \* bound: loads a page has asked for and not got read
          MaxFaults,         \* bound: calls that fail
          MaxActs            \* bound: things the users do

NoDev == 0

ASSUME UsersAssumption == IsFiniteSet(Users) /\ Cardinality(Users) = 2
ASSUME DevsAssumption ==
    /\ Devs \subseteq Nat \ {NoDev} /\ Devs0 \subseteq Devs
    /\ Owner \in [Devs -> Users] /\ Current0 \in [Users -> Devs0]
ASSUME PagesAssumption ==
    /\ UserOf \in [Pages -> Users] /\ DeviceOf \in [Pages -> Devs0]
    /\ \A p \in Pages : Owner[DeviceOf[p]] = UserOf[p]
ASSUME BoundsAssumption ==
    /\ MaxRows \in Nat \ {0} /\ MaxLoads \in Nat \ {0}
    /\ MaxFaults \in Nat /\ MaxActs \in Nat

VARIABLES friends,    \* the two users are friends
          status,     \* of each device
          current,    \* currentDeviceId of each user
          default,    \* defaultDeviceId of each user
          rows,       \* conversations, in the order of creation
          news,       \* conversation:new on its way to these pages
          list,       \* conversations of each page
          open,       \* activeConversation of each page, NoRow when none
          known,      \* what the page knows of the friend's devices
          asked,      \* calls of loadConversations not answered yet
          answers,    \* and their answers on the way
          proc,       \* what each page's function, and its handler, is doing
          clock,      \* history: rows created and left
          seen, top,  \* history: what the page's list shows, and the newest it has shown
          faults, acts

devices == <<status, current, default>>
pages == <<list, open, known, asked, answers>>
history == <<clock, seen, top, faults, acts>>
vars == <<friends, devices, rows, news, pages, proc, history>>

NoRow == 0
Ids == 1..MaxRows
Dev == Devs \union {NoDev}
Clock == 0..(MaxRows + MaxActs)

(* "by" created it on the device "mine" for the device "theirs"; "after" and "left" *)
(* are history: the rows there were when the handler looked for one, and the pages  *)
(* it was deleted on when they were not waiting for it to be created                *)
Row == [by : Users, mine : Dev, theirs : Dev, members : SUBSET Users,
        after : 0..MaxRows, left : SUBSET Pages]

(* an entry that create answered has no participants *)
Entry == [id : Ids, mine : Dev, theirs : Dev, full : BOOLEAN]

Pcs == {"idle", "profile", "target", "friends", "find", "insert", "publish", "answer"}

(* "via" is the control that called; "entries" is the list its closure sees *)
Process == [pc : Pcs, via : {"none", "friend", "current", "default"}, entries : SUBSET Entry,
            theirs : Dev, id : 0..MaxRows, after : 0..MaxRows, clock : Clock]

Idle == [pc |-> "idle", via |-> "none", entries |-> {}, theirs |-> NoDev, id |-> NoRow,
         after |-> 0, clock |-> 0]

Init ==
    /\ friends = TRUE
    /\ status = [d \in Devs |-> IF d \in Devs0 THEN "active" ELSE "none"]
    /\ current = Current0 /\ default = Current0
    /\ rows = <<>> /\ news = {}
    /\ list = [p \in Pages |-> {}]
    /\ open = [p \in Pages |-> NoRow]
    /\ known = [p \in Pages |-> [current |-> NoDev, default |-> NoDev]]
    /\ asked = [p \in Pages |-> 0] /\ answers = [p \in Pages |-> {}]
    /\ proc = [p \in Pages |-> Idle]
    /\ clock = 0 /\ seen = [p \in Pages |-> 0] /\ top = seen
    /\ faults = 0 /\ acts = 0
--------------------------------------------------------------------------------
Friend(p) == CHOOSE u \in Users : u # UserOf[p]
Exists(d) == d # NoDev /\ status[d] \in {"active", "revoked"}

(* getUser hides a device that is revoked or gone *)
Shown(d) == IF d # NoDev /\ status[d] = "active" THEN d ELSE NoDev

Pair(mine, theirs) == {mine, theirs}
PairOf(r) == Pair(r.mine, r.theirs)
Complete(r) == r.members = Users

At(p, pc) == proc[p].pc = pc
Become(p, q) == proc' = [proc EXCEPT ![p] = q]
Goto(p, pc) == proc' = [proc EXCEPT ![p].pc = pc]

Act == acts < MaxActs /\ acts' = acts + 1
Fault == faults < MaxFaults /\ faults' = faults + 1

AskLoad(p) ==
    /\ asked[p] < MaxLoads
    /\ asked' = [asked EXCEPT ![p] = @ + 1]

(* history: the page's list now shows what was there at time n *)
Shows(p, n) ==
    /\ top' = [top EXCEPT ![p] = Max({@, n})]
    /\ seen' = [seen EXCEPT ![p] = IF @ = top[p] THEN Max({@, n}) ELSE @]
--------------------------------------------------------------------------------
(* loadConversations and its endpoint *)

EntryOf(c) == [id |-> c, mine |-> rows[c].mine, theirs |-> rows[c].theirs, full |-> TRUE]

(* mutated: the rows of the page's device, whoever is left in them *)
RowsOfDevice(p) == {c \in 1..Len(rows) : DeviceOf[p] \in PairOf(rows[c])}

(* findByUserId *)
RowsOf(p) == {c \in 1..Len(rows) : UserOf[p] \in rows[c].members}

LoadRead(p) ==
    /\ asked[p] > 0
    /\ asked' = [asked EXCEPT ![p] = @ - 1]
    /\ answers' = [answers EXCEPT ![p] = @ \union
                     {[n |-> clock, entries |-> {EntryOf(c) : c \in RowsOf(p)}]}]
    /\ UNCHANGED <<friends, devices, rows, news, list, open, known, proc, history>>

(* setConversations with whichever answer comes *)
LoadAnswer(p, answer) ==
    /\ answer \in answers[p]
    /\ answers' = [answers EXCEPT ![p] = @ \ {answer}]
    /\ list' = [list EXCEPT ![p] = answer.entries]
    /\ seen' = [seen EXCEPT ![p] = answer.n]
    /\ top' = [top EXCEPT ![p] = Max({@, answer.n})]
    /\ UNCHANGED <<friends, devices, rows, news, open, known, asked, proc, clock, faults, acts>>

LoadFails(p) ==
    /\ asked[p] > 0
    /\ Fault
    /\ asked' = [asked EXCEPT ![p] = @ - 1]
    /\ UNCHANGED <<friends, devices, rows, news, list, open, known, answers, proc, clock,
                   seen, top, acts>>

(* conversation:new *)
Notified(p) ==
    /\ p \in news
    /\ news' = news \ {p}
    /\ AskLoad(p)
    /\ UNCHANGED <<friends, devices, rows, list, open, known, answers, proc, history>>

(* loadFriendDevice, for the friend of an open conversation: the current device *)
(* only of one who is online, and the default one kept when there is none left  *)
LoadFriendDevice(p, online) ==
    LET d == Shown(default[Friend(p)])
        k == [current |-> IF online THEN Shown(current[Friend(p)]) ELSE NoDev,
              default |-> IF d = NoDev THEN known[p].default ELSE d]
    IN  /\ open[p] # NoRow /\ known[p] # k
        /\ known' = [known EXCEPT ![p] = k]
        /\ UNCHANGED <<friends, devices, rows, news, list, open, asked, answers, proc, history>>
--------------------------------------------------------------------------------
(* Opening the conversation with a device of the friend *)

(* in the list: an entry of the two devices, with participants unless it is the *)
(* button for the default device that looks for it                              *)
Listed(p, theirs, via) ==
    {e \in proc[p].entries : PairOf(e) = Pair(DeviceOf[p], theirs) /\ (e.full \/ via = "default")}

(* handleSelectFriend, switchToCurrentDeviceConversation (for a conversation with *)
(* another device than the friend's current one)                                  *)
Choose(p, via) ==
    /\ Act
    /\ At(p, "idle")
    /\ via = "current" =>
         \E e \in list[p] : /\ e.id = open[p] /\ known[p].current # NoDev
                            /\ known[p].current \notin PairOf(e)
    /\ Become(p, [Idle EXCEPT !.pc = "profile", !.via = via, !.entries = list[p]])
    /\ UNCHANGED <<friends, devices, rows, news, pages, clock, seen, top, faults>>

ForDevice(p, d) == [proc[p] EXCEPT !.pc = "target", !.theirs = d, !.entries = {}]

(* the friend's current device now; an entry found is opened, else the server asked *)
Profile(p) ==
    /\ At(p, "profile")
    /\ LET d == Shown(current[Friend(p)]) IN
         \/ \E e \in Listed(p, d, proc[p].via) :
               /\ d # NoDev
               /\ open' = [open EXCEPT ![p] = e.id]
               /\ Become(p, Idle)
         \/ /\ d = NoDev \/ Listed(p, d, proc[p].via) = {}
            /\ Become(p, IF d = NoDev /\ proc[p].via = "current" THEN Idle ELSE ForDevice(p, d))
            /\ UNCHANGED open
    /\ UNCHANGED <<friends, devices, rows, news, list, known, asked, answers, history>>

(* "Message Default Device", for a conversation with another device *)
ChooseDefault(p) ==
    /\ Act
    /\ At(p, "idle")
    /\ \E e \in list[p] :
          e.id = open[p] /\ (e.theirs = NoDev \/ known[p].default \notin PairOf(e))
    /\ LET d == known[p].default
           found == {e \in list[p] : PairOf(e) = Pair(DeviceOf[p], d)}
       IN  /\ d # NoDev
           /\ IF found # {}
              THEN open' = [open EXCEPT ![p] = (CHOOSE e \in found : TRUE).id] /\ UNCHANGED proc
              ELSE /\ Become(p, [Idle EXCEPT !.pc = "target", !.via = "default", !.theirs = d])
                   /\ UNCHANGED open
    /\ UNCHANGED <<friends, devices, rows, news, list, known, asked, answers, clock, seen, top,
                   faults>>
--------------------------------------------------------------------------------
(* createConversation *)

(* the target's current device, as its row says, when the page named none *)
FindTarget(p) ==
    /\ At(p, "target")
    /\ Become(p, [proc[p] EXCEPT !.pc = "friends",
                                 !.theirs = IF @ = NoDev THEN current[Friend(p)] ELSE @])
    /\ UNCHANGED <<friends, devices, rows, news, pages, history>>

CheckFriends(p) ==
    /\ At(p, "friends")
    /\ IF friends THEN Goto(p, "find") ELSE Become(p, Idle)
    /\ UNCHANGED <<friends, devices, rows, news, pages, history>>

(* mutated: the devices are compared in the order they are given only *)
SameDevicesOneWay(p, r) == r.mine = DeviceOf[p] /\ r.theirs = proc[p].theirs

SameDevices(p, r) == PairOf(r) = Pair(DeviceOf[p], proc[p].theirs)

(* findFirst: any row of the two devices, whoever is left in it: "every" holds of *)
(* one that nobody is left in too, until the last to leave has deleted it         *)
Candidates(p) == {c \in 1..Len(rows) : proc[p].theirs # NoDev /\ SameDevices(p, rows[c])}

(* mutated: the handler goes on without the row it found *)
WithRowForgotten(p, c) == [proc[p] EXCEPT !.pc = "publish", !.clock = clock]

WithRow(p, c) == [proc[p] EXCEPT !.pc = "publish", !.id = c, !.clock = clock]

(* it is good only if nobody has left it *)
FindExisting(p) ==
    /\ At(p, "find")
    /\ \/ \E c \in Candidates(p) :
             Become(p, IF Complete(rows[c])
                       THEN WithRow(p, c)
                       ELSE [proc[p] EXCEPT !.pc = "insert", !.after = Len(rows)])
       \/ /\ Candidates(p) = {}
          /\ Become(p, [proc[p] EXCEPT !.pc = "insert", !.after = Len(rows)])
    /\ UNCHANGED <<friends, devices, rows, news, pages, history>>

(* the foreign keys refuse a device that is gone *)
Insert(p) ==
    /\ At(p, "insert")
    /\ Len(rows) < MaxRows
    /\ IF Exists(DeviceOf[p]) /\ (proc[p].theirs # NoDev => Exists(proc[p].theirs))
       THEN /\ rows' = Append(rows, [by |-> UserOf[p], mine |-> DeviceOf[p],
                                     theirs |-> proc[p].theirs, members |-> Users,
                                     after |-> proc[p].after, left |-> {}])
            /\ clock' = clock + 1
            /\ Become(p, [proc[p] EXCEPT !.pc = "publish", !.id = Len(rows'), !.clock = clock',
                                         !.after = 0])
       ELSE Become(p, Idle) /\ UNCHANGED <<rows, clock>>
    /\ UNCHANGED <<friends, devices, news, pages, seen, top, faults, acts>>

(* mutated: only the page on the device the conversation names is told *)
ReceiversOnDevice(p) == {q \in Pages : UserOf[q] # UserOf[p] /\ DeviceOf[q] = proc[p].theirs}

(* handleRedisConversation: the participants but the creator, who is told nothing *)
(* on his other pages                                                             *)
Receivers(p) == {q \in Pages : UserOf[q] # UserOf[p]}

Publish(p) ==
    /\ At(p, "publish")
    /\ Receivers(p) \intersect news = {}
    /\ news' = news \union Receivers(p)
    /\ Goto(p, "answer")
    /\ UNCHANGED <<friends, devices, rows, pages, history>>

(* the page opens the conversation and has the list reloaded, except for a default *)
(* device; switchToCurrentDeviceConversation waits for the list instead of adding  *)
Answer(p) ==
    /\ At(p, "answer")
    /\ open' = [open EXCEPT ![p] = proc[p].id]
    /\ IF proc[p].via = "current" THEN UNCHANGED <<list, seen, top>>
       ELSE /\ list' = [list EXCEPT ![p] = @ \union {[EntryOf(proc[p].id) EXCEPT !.full = FALSE]}]
            /\ Shows(p, proc[p].clock)
    /\ IF proc[p].via = "default" THEN UNCHANGED asked ELSE AskLoad(p)
    /\ Become(p, Idle)
    /\ UNCHANGED <<friends, devices, rows, news, known, answers, clock, faults, acts>>

(* a call of the handler or the request fails, and the page shows an error; only *)
(* handleSelectFriend goes on without the device it asked for                    *)
Fails(p) ==
    /\ ~At(p, "idle")
    /\ Fault
    /\ Become(p, IF At(p, "profile") /\ proc[p].via = "friend" THEN ForDevice(p, NoDev) ELSE Idle)
    /\ UNCHANGED <<friends, devices, rows, news, pages, clock, seen, top, acts>>
--------------------------------------------------------------------------------
(* handleDeleteConversation: the user leaves the conversation, then the entry goes. *)
(* The handler's own steps are those of Messaging                                   *)
Leave(p, c) ==
    /\ Act
    /\ c \in 1..Len(rows) /\ UserOf[p] \in rows[c].members
    /\ \E e \in list[p] : e.id = c /\ e.full
    /\ rows' = [rows EXCEPT ![c].members = @ \ {UserOf[p]},
                             ![c].left = IF proc[p].id = c THEN @ ELSE @ \union {p}]
    /\ clock' = clock + 1
    /\ list' = [list EXCEPT ![p] = {e \in @ : e.id # c}]
    /\ Shows(p, clock')
    /\ open' = [open EXCEPT ![p] = IF @ = c THEN NoRow ELSE @]
    /\ UNCHANGED <<friends, devices, news, known, asked, answers, proc, faults>>

(* handleSelectConversation *)
SelectConversation(p, e) ==
    /\ Act
    /\ e \in list[p] /\ e.full /\ open[p] # e.id
    /\ open' = [open EXCEPT ![p] = e.id]
    /\ UNCHANGED <<friends, devices, rows, news, list, known, asked, answers, proc, clock,
                   seen, top, faults>>

(* the users' other browsers: a login there makes its device the current one; *)
(* a regeneration revokes the device; a device that is not current is deleted *)
(* and its conversations lose its id                                          *)
LogsIn(d) ==
    /\ Act
    /\ status[d] \in {"none", "active"} /\ current[Owner[d]] # d
    /\ status' = [status EXCEPT ![d] = "active"]
    /\ current' = [current EXCEPT ![Owner[d]] = d]
    /\ UNCHANGED <<friends, default, rows, news, pages, proc, clock, seen, top, faults>>

Revoked(d) ==
    /\ Act
    /\ status[d] = "active"
    /\ status' = [status EXCEPT ![d] = "revoked"]
    /\ UNCHANGED <<friends, current, default, rows, news, pages, proc, clock, seen, top, faults>>

Deleted(d) ==
    /\ Act
    /\ status[d] = "active" /\ current[Owner[d]] # d
    /\ status' = [status EXCEPT ![d] = "deleted"]
    /\ rows' = [c \in 1..Len(rows) |->
                  [rows[c] EXCEPT !.mine = IF @ = d THEN NoDev ELSE @,
                                  !.theirs = IF @ = d THEN NoDev ELSE @]]
    /\ UNCHANGED <<friends, current, default, news, pages, proc, clock, seen, top, faults>>

Unfriended ==
    /\ Act
    /\ friends
    /\ friends' = FALSE
    /\ UNCHANGED <<devices, rows, news, pages, proc, clock, seen, top, faults>>
--------------------------------------------------------------------------------
Loading(p) ==
    \/ LoadRead(p) \/ (\E answer \in answers[p] : LoadAnswer(p, answer)) \/ LoadFails(p)
    \/ Notified(p)
    \/ \E online \in BOOLEAN : LoadFriendDevice(p, online)

Choosing(p) ==
    \/ \E via \in {"friend", "current"} : Choose(p, via)
    \/ Profile(p) \/ ChooseDefault(p)
    \/ \E c \in Ids : Leave(p, c)
    \/ \E e \in list[p] : SelectConversation(p, e)

Creating(p) ==
    \/ FindTarget(p) \/ CheckFriends(p) \/ FindExisting(p) \/ Insert(p) \/ Publish(p)
    \/ Answer(p) \/ Fails(p)

Elsewhere == Unfriended \/ \E d \in Devs : LogsIn(d) \/ Revoked(d) \/ Deleted(d)

Next == (\E p \in Pages : Loading(p) \/ Choosing(p) \/ Creating(p)) \/ Elsewhere

Spec == Init /\ [][Next]_vars
--------------------------------------------------------------------------------
TypeOK ==
    /\ friends \in BOOLEAN
    /\ status \in [Devs -> {"none", "active", "revoked", "deleted"}]
    /\ current \in [Users -> Devs] /\ default \in [Users -> Devs]
    /\ rows \in Seq(Row) /\ Len(rows) <= MaxRows
    /\ news \subseteq Pages
    /\ list \in [Pages -> SUBSET Entry]
    /\ open \in [Pages -> 0..Len(rows)]
    /\ known \in [Pages -> [current : Dev, default : Dev]]
    /\ asked \in [Pages -> 0..MaxLoads]
    /\ \A p \in Pages : answers[p] \subseteq [n : Clock, entries : SUBSET Entry]
    /\ proc \in [Pages -> Process]
    /\ \A p \in Pages : proc[p].pc \in {"publish", "answer"} => proc[p].id # NoRow
    /\ clock \in Clock /\ seen \in [Pages -> Clock] /\ top \in [Pages -> Clock]
    /\ faults \in 0..MaxFaults /\ acts \in 0..MaxActs

(* "Checks for existing conversation with same device pair": two conversations of *)
(* one pair of devices come from requests that ran at once, unless somebody has   *)
(* left one of that pair.                                                         *)
OnePerPair ==
    \A i, j \in 1..Len(rows) :
        /\ i < j
        /\ PairOf(rows[i]) = PairOf(rows[j]) /\ NoDev \notin PairOf(rows[i])
        /\ \A k \in 1..Len(rows) : PairOf(rows[k]) = PairOf(rows[i]) => Complete(rows[k])
        => rows[j].after < i

(* nothing is under way that the page would hear of *)
Quiet(p) ==
    /\ faults = 0
    /\ asked[p] = 0 /\ answers[p] = {} /\ p \notin news
    /\ At(p, "idle") /\ \A q \in Pages : ~At(q, "publish")

(* In the end a page lists the conversations the friend has created and the one it *)
(* has open, unless an older answer has replaced a newer list.                     *)
ListComplete ==
    \A p \in Pages, c \in 1..Len(rows) :
        /\ Quiet(p) /\ seen[p] = top[p]
        /\ UserOf[p] \in rows[c].members
        /\ rows[c].by # UserOf[p] \/ open[p] = c
        => \E e \in list[p] : e.id = c

(* A conversation deleted on a page does not come back there, with the same        *)
(* exception, unless the page was waiting for its creation to be answered: that    *)
(* answer adds it again, and after "Message Default Device" no load takes it away. *)
NoneComesBack ==
    \A p \in Pages : seen[p] = top[p] => \A e \in list[p] : p \notin rows[e.id].left
================================================================================
