------------------------------- MODULE Decryption -------------------------------
(***************************************************************************)
(* The chat page of one browser (frontend/src/pages/Chat.tsx): the texts   *)
(* it shows for the messages of its conversations, the keys it derives     *)
(* (frontend/src/services/crypto.ts) and the asynchronous functions that   *)
(* load, decrypt, retry and send.  Everything else - friends' browsers,    *)
(* the user's other tabs and devices - adds messages, devices and keys.    *)
(*                                                                         *)
(* A shared key is the pair of the private keys it comes from; a message   *)
(* opens with the key it was sealed with and no other.  The lookups of one *)
(* decryption are one action, and so is one sending.                       *)
(***************************************************************************)
EXTENDS Integers, Sequences, FiniteSets, FiniteSetsExt

CONSTANTS Friends, Convs,
          With,         \* the friend each conversation is with
          Devs,         \* ids of the friends' devices, in the order of createdAt
          Owner,        \* the friend each device belongs to
          Rows0,        \* devices that exist at the beginning
          Pairs0,       \* what the conversations may be at the beginning
          Slots,        \* bound: loads and decryptions under way
          MaxMessages,  \* bound: messages ever written
          MaxKey,       \* bound: key regenerations
          MaxFaults,    \* bound: requests that fail
          MaxTries,     \* bound: attempts that the history counts
          MaxActs,      \* bound: things the user and the others do
          None

ASSUME DevsAssumption == Devs \subseteq Nat \ {0} /\ IsFiniteSet(Devs)
ASSUME WithAssumption == With \in [Convs -> Friends] /\ Owner \in [Devs -> Friends]
ASSUME NoneAssumption == None \notin Friends \union Convs
ASSUME BoundsAssumption ==
    /\ Slots \in Nat \ {0} /\ MaxMessages \in Nat /\ MaxKey \in Nat
    /\ MaxFaults \in Nat /\ MaxTries \in Nat /\ MaxActs \in Nat

NoDev == 0
Elsewhere == -1                     \* the private key of another device of the user
Key == [mine : Elsewhere .. MaxKey, theirs : Devs]

(* the two devices of a conversation, as this browser sees them *)
Pair == [mine : {"this", "other", "none"}, theirs : Devs \union {NoDev}, byMe : BOOLEAN]

(* the device a conversation names is one of the friend's *)
ASSUME StartAssumption ==
    /\ Rows0 \subseteq Devs
    /\ Pairs0 \subseteq [Convs -> Pair \union {None}]
    /\ \A p \in Pairs0, c \in Convs :
          p[c] # None => p[c].theirs \in {NoDev} \union {d \in Rows0 : Owner[d] = With[c]}
ASSUME NoneIsNoPair == None \notin Pair

VARIABLES rows,    \* the friends' devices rows
          pair,    \* createdByDeviceId and targetDeviceId; None before the row exists
          sent,    \* messages rows, oldest first
          myKey,   \* the private key in this browser's storage
          list,    \* conversations: what the page knows of each
          active,  \* activeConversation
          sel,     \* selectedFriend
          mapped,  \* conversationFriends
          text,    \* decryptedText of each message in the store
          keys,    \* sharedKeys
          reload,  \* what calls of loadConversations have yet to be answered
          pick,    \* the friend a handleSelectFriend under way is about
          job,     \* loads and decryptions under way
          effect,  \* the retry effect is due
          timers,  \* retries waiting for their timeout
          read,    \* messages this browser has marked read
          unseen,  \* history: messages the page stored or left without trying a key
          tries,   \* history: failed attempts since a message was last stored
          faults,  \* history: requests that have failed
          acts     \* history: things the user and the others have done

server == <<rows, pair, sent, myKey>>
page == <<list, active, sel, mapped>>
history == <<unseen, tries, faults>>
vars == <<server, page, text, keys, reload, pick, job, effect, timers, read, history, acts>>

Ids == 1..MaxMessages
Texts == {"absent", "decrypting", "plain", "unavailable", "redacted", "no recipient"}
Message == [conv : Convs, own : BOOLEAN, dev : Devs \union {NoDev}, key : Key]

Idle == [pc |-> "idle"]

(* a load of a conversation, then the decryption of messages one by one; "fresh" *)
(* when its closure is of the first render and sees no key derived since         *)
Busy == [pc : {"get", "decrypt"}, conv : Convs, todo : SUBSET Ids, fresh : BOOLEAN,
         friend : Friends \union {None}, dev : Devs \union {NoDev}, access : BOOLEAN]

Timer == [msg : Ids, friend : Friends, dev : Devs \union {NoDev}, fresh : BOOLEAN,
          attempt : {1, 2}]

NoKeys == [user |-> [f \in Friends |-> {}], device |-> [d \in Devs |-> {}]]

(* the page, once it has loaded its list *)
Init ==
    /\ rows = Rows0
    /\ pair \in Pairs0
    /\ sent = <<>>
    /\ myKey = 0
    /\ list = pair
    /\ active = None
    /\ sel = None
    /\ mapped = [c \in Convs |-> IF pair[c] = None THEN None ELSE With[c]]
    /\ text = [m \in Ids |-> "absent"]
    /\ keys = NoKeys
    /\ reload = [list |-> FALSE, due |-> {}]
    /\ pick = None
    /\ job = [s \in 1..Slots |-> Idle]
    /\ effect = FALSE
    /\ timers = {}
    /\ read = {}
    /\ unseen = {}
    /\ tries = [m \in Ids |-> 0]
    /\ faults = 0
    /\ acts = 0
--------------------------------------------------------------------------------
(* The page's state *)

Created == {c \in Convs : pair[c] # None}
Of(c) == {m \in 1..Len(sent) : sent[m].conv = c}
DevicesOf(f) == {d \in rows : Owner[d] = f}

(* canAccessConversation: this device takes part, or no device is recorded *)
CanAccess(p) == p.mine = "this" \/ (p.mine = "none" /\ p.theirs = NoDev)

(* isLocked, which also lets in when only the creator's device is recorded *)
Locked(p) ==
    /\ ~CanAccess(p)
    /\ ~IF p.byMe THEN p.theirs = NoDev ELSE p.mine = "none"

Listed(c) == c # None /\ list[c] # None
ListedDev(l, c) == IF l[c] = None THEN NoDev ELSE l[c].theirs

FreeSlots == {s \in 1..Slots : job[s].pc = "idle"}

(* functions started in the same turn; the slots are all alike *)
Starts(js) ==
    /\ Cardinality(FreeSlots) >= Len(js)
    /\ job' = [s \in 1..Slots |->
                 LET i == Cardinality({r \in FreeSlots : r <= s})
                 IN  IF s \in FreeSlots /\ i <= Len(js) THEN js[i] ELSE job[s]]

Finish(s) == job' = [job EXCEPT ![s] = Idle]

(* mutated: the loop does not end with the last message *)
NextMessageForever(s) == job' = [job EXCEPT ![s].todo = @ \ {Min(@)}]

(* the next message, or the end *)
NextMessage(s) ==
    LET rest == job[s].todo \ {Min(job[s].todo)}
    IN  job' = [job EXCEPT ![s] = IF rest = {} THEN Idle ELSE [@ EXCEPT !.todo = rest]]

FailedIn(c, t) == {m \in 1..Len(sent) : sent[m].conv = c /\ t[m] = "unavailable"}

(* mutated: the retry effect depends on the selection only *)
EffectDueOnSelect(c, t) == effect' = (effect \/ (c # active /\ FailedIn(c, t) # {}))

(* the effect on messages and selection is due again, with c open; it finds *)
(* nothing to do when no message of c has failed                            *)
EffectDue(c, t) == effect' = (FailedIn(c, t) # {})

(* updateDecryptedMessage *)
Update(m, t) == text' = [text EXCEPT ![m] = IF @ = "absent" THEN @ ELSE t]

Request(ok) ==
    /\ ok \/ faults < MaxFaults
    /\ faults' = IF ok THEN faults ELSE faults + 1
--------------------------------------------------------------------------------
(* loadConversations *)

ReloadDue == reload' = [reload EXCEPT !.list = TRUE]

(* the list, from which an effect rebuilds conversationFriends unless it is empty *)
ReloadList(ok) ==
    /\ reload.list
    /\ Request(ok)
    /\ reload' = [list |-> FALSE, due |-> reload.due \union IF ok THEN Created ELSE {}]
    /\ list' = IF ok THEN pair ELSE list
    /\ mapped' = IF ok /\ Created # {}
                 THEN [c \in Convs |-> IF c \in Created THEN With[c] ELSE None] ELSE mapped
    /\ UNCHANGED <<server, active, sel, text, keys, pick, job, effect, timers, read,
                   unseen, tries, acts>>

(* setMessages for one conversation of the list after the other, each answered or *)
(* not; the rows carry no decryptedText, and nothing decrypts them                *)
ReloadMessages(c, ok) ==
    /\ c \in reload.due
    /\ Request(ok)
    /\ LET ms == IF ok THEN Of(c) ELSE {} IN
         /\ text' = [m \in Ids |-> IF m \in ms THEN "decrypting" ELSE text[m]]
         /\ unseen' = unseen \union ms
         /\ tries' = [m \in Ids |-> IF m \in ms THEN 0 ELSE tries[m]]
    /\ reload' = [reload EXCEPT !.due = @ \ {c}]
    /\ EffectDue(active, text')
    /\ UNCHANGED <<server, page, keys, pick, job, timers, read, acts>>
--------------------------------------------------------------------------------
(* loadMessages *)

(* called with the list and the mapping of the render that calls it *)
Load(c, l, friend) ==
    [pc |-> "get", conv |-> c, todo |-> {}, fresh |-> FALSE, friend |-> friend,
     dev |-> ListedDev(l, c), access |-> l[c] # None /\ CanAccess(l[c])]

(* mutated: marked read whether or not this device has access *)
ReadsAll(s, ms) == {m \in ms : ~sent[m].own}

(* the access of the conversation decides what is marked read *)
Reads(s, ms) == IF job[s].access THEN {m \in ms : ~sent[m].own} ELSE {}

(* the answer: stored, marked read and decrypted, or shown redacted *)
LoadAnswer(s, ok) ==
    /\ job[s].pc = "get"
    /\ Request(ok)
    /\ LET ms == Of(job[s].conv) IN
       IF ~ok \/ ms = {}
       THEN Finish(s) /\ UNCHANGED <<text, unseen, tries, read, effect>>
       ELSE /\ text' = [m \in Ids |-> IF m \notin ms THEN text[m]
                                      ELSE IF job[s].access THEN "decrypting" ELSE "redacted"]
            /\ unseen' = IF job[s].access THEN unseen \ ms ELSE unseen \union ms
            /\ tries' = [m \in Ids |-> IF m \in ms THEN 0 ELSE tries[m]]
            /\ read' = read \union Reads(s, ms)
            /\ job' = [job EXCEPT ![s] = IF job[s].access
                                         THEN [@ EXCEPT !.pc = "decrypt", !.todo = ms]
                                         ELSE Idle]
            /\ EffectDue(active, text')
    /\ UNCHANGED <<server, page, keys, reload, pick, timers, acts>>
--------------------------------------------------------------------------------
(* getOrDeriveSharedKey *)

MyKey(d) == [mine |-> myKey, theirs |-> d]

(* for a user without a device: the key cached, else of the newest row *)
UserKey(cache, f) ==
    IF cache.user[f] # {} THEN cache.user[f]
    ELSE IF DevicesOf(f) = {} THEN {} ELSE {MyKey(Max(DevicesOf(f)))}

(* for a device: the key cached, else of its row *)
DeviceKey(cache, f, d) ==
    IF d # NoDev /\ cache.device[d] # {} THEN cache.device[d]
    ELSE IF d \in DevicesOf(f) THEN {MyKey(d)} ELSE {}

(* setSharedKeys *)
CacheUser(cache, f, k) == IF k = {} THEN cache ELSE [cache EXCEPT !.user[f] = k]
CacheDevices(cache, ks) ==
    [cache EXCEPT !.device = [d \in Devs |->
        LET k == {x \in ks : x.theirs = d} IN IF k = {} THEN cache.device[d] ELSE k]]

SharedKeys(fresh) == IF fresh THEN NoKeys ELSE keys
--------------------------------------------------------------------------------
(* decryptMessage *)

(* whose key: for an own message the friend of the conversation and its device *)
(* there, else the sender and the device it names                              *)
KeyUser(s, m) == IF sent[m].own THEN job[s].friend ELSE With[sent[m].conv]
KeyDev(s, m) == IF sent[m].own THEN job[s].dev ELSE sent[m].dev

(* CryptoService.decryptMessage fails under any other key *)
Opens(ks, m) == sent[m].key \in ks

(* mutated: the newest device is the only one tried *)
AllTriedNewestOnly(cache, f, m) == UserKey(cache, f)

(* every device of the user, newest first, until one opens the message *)
AllTried(cache, f, m) ==
    LET ks == UNION {DeviceKey(cache, f, d) : d \in DevicesOf(f)}
    IN  {k \in ks : Opens(ks, m) => k.theirs >= sent[m].key.theirs}

NoRecipient(s) ==
    /\ job[s].pc = "decrypt"
    /\ LET m == Min(job[s].todo) IN
         /\ KeyUser(s, m) = None
         /\ Update(m, "no recipient")
         /\ unseen' = unseen \union {m}
    /\ NextMessage(s)
    /\ EffectDue(active, text')
    /\ UNCHANGED <<server, page, keys, reload, pick, timers, read, tries, faults, acts>>

(* the key of the user, then of the device, then of all devices; when none opens *)
(* the message that is shown, and a retry set up                                 *)
Decrypt(s, ok) ==
    /\ job[s].pc = "decrypt"
    /\ Request(ok)
    /\ LET m == Min(job[s].todo)
           f == KeyUser(s, m)
           cache == SharedKeys(job[s].fresh)
           user == IF ok THEN UserKey(cache, f) ELSE cache.user[f]
           device == IF Opens(user, m) THEN {}
                     ELSE IF ok THEN DeviceKey(cache, f, KeyDev(s, m))
                     ELSE IF KeyDev(s, m) = NoDev THEN {} ELSE cache.device[KeyDev(s, m)]
           all == IF Opens(user \union device, m) \/ ~ok THEN {} ELSE AllTried(cache, f, m)
       IN  /\ f # None
           /\ keys' = CacheDevices(CacheUser(keys, f, user), device \union all)
           /\ IF Opens(user \union device \union all, m)
              THEN Update(m, "plain") /\ UNCHANGED <<timers, tries>>
              ELSE /\ Update(m, "unavailable")
                   /\ timers' = timers \union
                        {[msg |-> m, friend |-> f, dev |-> KeyDev(s, m),
                          fresh |-> job[s].fresh, attempt |-> 1]}
                   /\ tries' = [tries EXCEPT ![m] = Min({@ + 1, MaxTries})]
    /\ NextMessage(s)
    /\ EffectDue(active, text')
    /\ UNCHANGED <<server, page, reload, pick, read, unseen, acts>>

(* the timeout of a retry, 2 and then 3 seconds later *)
RetryFires(t, ok) ==
    /\ t \in timers
    /\ IF text[t.msg] # "unavailable"
       THEN /\ timers' = timers \ {t}
            /\ UNCHANGED <<text, keys, effect, read, tries, faults>>
       ELSE LET cache == SharedKeys(t.fresh)
                device == IF ok THEN DeviceKey(cache, t.friend, t.dev) ELSE {}
                all == IF ok /\ ~Opens(device, t.msg) THEN AllTried(cache, t.friend, t.msg) ELSE {}
            IN  /\ Request(ok)
                /\ keys' = CacheDevices(keys, device \union all)
                /\ IF Opens(device \union all, t.msg)
                   THEN /\ Update(t.msg, "plain")
                        /\ read' = IF Opens(all, t.msg) /\ sent[t.msg].conv = active
                                                        /\ ~sent[t.msg].own
                                   THEN read \union {t.msg} ELSE read
                        /\ timers' = timers \ {t}
                        /\ EffectDue(active, text')
                        /\ UNCHANGED tries
                   ELSE /\ timers' = (timers \ {t}) \union
                             IF ok /\ t.attempt = 1 THEN {[t EXCEPT !.attempt = 2]} ELSE {}
                        /\ tries' = [tries EXCEPT ![t.msg] = Min({@ + 1, MaxTries})]
                        /\ UNCHANGED <<text, read, effect>>
    /\ UNCHANGED <<server, page, reload, pick, job, unseen, acts>>

(* the effect on messages, selection and mapping: the failed messages of the open *)
(* conversation are decrypted again                                               *)
RetryFailed ==
    /\ effect
    /\ Starts(<<[Load(active, list, mapped[active]) EXCEPT
                   !.pc = "decrypt", !.todo = FailedIn(active, text)]>>)
    /\ effect' = FALSE
    /\ UNCHANGED <<server, page, text, keys, reload, pick, timers, read, history, acts>>
--------------------------------------------------------------------------------
(* What comes from elsewhere *)

Act == acts < MaxActs /\ acts' = acts + 1

(* the onMessage callback, made by the first render: it knows no conversation, so *)
(* it marks nothing read, and reloads the list when neither the selection nor the *)
(* mapping names a friend                                                         *)
Receive(m) ==
    LET id == Len(sent) + 1
        friend == IF m.conv = active THEN sel ELSE mapped[m.conv]
        lost == friend = None /\ m.own
    IN  /\ Len(sent) < MaxMessages
        /\ sent' = Append(sent, m)
        /\ text' = [text EXCEPT ![id] = IF lost THEN "no recipient" ELSE "decrypting"]
        /\ unseen' = IF lost THEN unseen \union {id} ELSE unseen
        /\ Starts(IF lost THEN <<>>
                  ELSE <<[pc |-> "decrypt", conv |-> m.conv, todo |-> {id}, fresh |-> TRUE,
                          friend |-> friend, dev |-> NoDev, access |-> FALSE]>>)
        /\ IF friend = None THEN ReloadDue ELSE UNCHANGED reload
        /\ EffectDue(active, text')

(* what a browser of the user's, or of the friend for it, seals a message of c   *)
(* with: the key registered for the user's device there, or any when it names    *)
(* none                                                                          *)
MineIn(c, this) == CASE pair[c].mine = "this"  -> {this}
                     [] pair[c].mine = "other" -> {Elsewhere}
                     [] OTHER                  -> {Elsewhere, myKey}

(* a friend seals for the key this browser had when its device was registered;   *)
(* after a regeneration of its own, the device it names is not that of the key   *)
FriendSends(c, d, k) ==
    /\ Act
    /\ c \in Created
    /\ {d, k.theirs} \subseteq DevicesOf(With[c]) /\ d <= k.theirs
    /\ k.mine \in MineIn(c, 0)
    /\ Receive([conv |-> c, own |-> FALSE, dev |-> d, key |-> k])
    /\ UNCHANGED <<rows, pair, myKey, page, keys, pick, timers, read, tries, faults>>

(* the user writes in another tab, or on another device *)
OtherPageSends(c, k) ==
    /\ Act
    /\ c \in Created
    /\ k.theirs \in DevicesOf(With[c])
    /\ pair[c].theirs # NoDev => k.theirs = pair[c].theirs
    /\ k.mine \in MineIn(c, myKey)
    /\ Receive([conv |-> c, own |-> TRUE, dev |-> NoDev, key |-> k])
    /\ UNCHANGED <<rows, pair, myKey, page, keys, pick, timers, read, tries, faults>>

(* friend:accepted *)
Notified ==
    /\ Act
    /\ ReloadDue
    /\ UNCHANGED <<server, page, text, keys, pick, job, effect, timers, read, history>>

(* a friend opens a conversation with this device: conversation:new *)
FriendCreates(c, d) ==
    /\ Act
    /\ pair[c] = None
    /\ d \in DevicesOf(With[c])
    /\ pair' = [pair EXCEPT ![c] = [mine |-> "this", theirs |-> d, byMe |-> FALSE]]
    /\ ReloadDue
    /\ UNCHANGED <<rows, sent, myKey, page, text, keys, pick, job, effect, timers, read,
                   history>>

(* a friend logs in on a device, or regenerates the key of one *)
FriendRegisters(d) ==
    /\ Act
    /\ d \notin Rows0 \union rows
    /\ \A e \in rows : e < d
    /\ rows' = rows \union {d}
    /\ UNCHANGED <<pair, sent, myKey, page, text, keys, reload, pick, job, effect, timers,
                   read, history>>

(* a friend deletes a device no message came from; conversations lose its id *)
FriendDeletes(d) ==
    /\ Act
    /\ d \in rows \intersect Rows0
    /\ \A m \in 1..Len(sent) : sent[m].dev # d
    /\ rows' = rows \ {d}
    /\ pair' = [c \in Convs |-> IF pair[c] # None /\ pair[c].theirs = d
                                THEN [pair[c] EXCEPT !.theirs = NoDev] ELSE pair[c]]
    /\ UNCHANGED <<sent, myKey, page, text, keys, reload, pick, job, effect, timers, read,
                   history>>

(* another tab regenerates the key of this browser *)
Regenerate ==
    /\ Act
    /\ myKey < MaxKey
    /\ myKey' = myKey + 1
    /\ UNCHANGED <<rows, pair, sent, page, text, keys, reload, pick, job, effect, timers,
                   read, history>>
--------------------------------------------------------------------------------
(* What the user does *)

(* opening a conversation loads it from the handler, which sees the page as it *)
(* was, and from the effect of its becoming the open one                       *)
Open(c, l, friend) ==
    /\ active' = c
    /\ Starts(<<Load(c, list, mapped[c])>> \o
              IF c = active THEN <<>> ELSE <<Load(c, l, friend)>>)
    /\ EffectDue(c, text)

(* handleSelectConversation *)
SelectConversation(c) ==
    /\ Act
    /\ Listed(c)
    /\ sel' = With[c]
    /\ mapped' = [mapped EXCEPT ![c] = With[c]]
    /\ Open(c, list, With[c])
    /\ UNCHANGED <<server, list, text, keys, reload, pick, timers, read, history>>

(* handleSelectFriend: the friend is selected before anything is known of the *)
(* conversation to open                                                       *)
SelectFriend(f) ==
    /\ Act
    /\ pick = None
    /\ sel' = f
    /\ pick' = f
    /\ UNCHANGED <<server, list, active, mapped, text, keys, reload, job, effect, timers,
                   read, history>>

(* the conversation of the two current devices is in the list *)
FriendOpens(c) ==
    /\ With[c] = pick
    /\ Listed(c) /\ list[c].mine = "this"
    /\ pick' = None
    /\ mapped' = [mapped EXCEPT ![c] = pick]
    /\ Open(c, list, pick)
    /\ UNCHANGED <<server, list, sel, text, keys, reload, timers, read, history, acts>>

(* or it comes from the server, found or new; its answer has no participants, so *)
(* the mapping lacks it until the reload 100 ms later                            *)
FriendCreated(c, d) ==
    /\ With[c] = pick
    /\ ~Listed(c)
    /\ d \in DevicesOf(pick)
    /\ IF pair[c] = None
       THEN pair' = [pair EXCEPT ![c] = [mine |-> "this", theirs |-> d, byMe |-> TRUE]]
       ELSE pair[c].mine = "this" /\ pair[c].theirs = d /\ UNCHANGED pair
    /\ pick' = None
    /\ list' = [list EXCEPT ![c] = pair'[c]]
    /\ Open(c, list', mapped[c])
    /\ ReloadDue
    /\ UNCHANGED <<rows, sent, myKey, sel, mapped, text, keys, timers, read, history, acts>>

(* not friends any more, or the request fails: the friend stays selected *)
FriendFails ==
    /\ pick # None
    /\ pick' = None
    /\ UNCHANGED <<server, page, text, keys, reload, job, effect, timers, read, history, acts>>

(* mutated: sealed for the user whatever the conversation names *)
SendKeyOfUser(dev) == UserKey(keys, sel)

(* handleSendMessage: maps the open conversation to the friend selected, seals   *)
(* for the device the conversation names or else for the user; without a key, or *)
(* a device row, an error is shown                                               *)
SendKey(dev) == IF dev # NoDev THEN DeviceKey(keys, sel, dev) ELSE UserKey(keys, sel)

Send(k) ==
    /\ Act
    /\ active # None /\ sel # None
    /\ Listed(active) => ~Locked(list[active])
    /\ mapped' = [mapped EXCEPT ![active] = sel]
    /\ k \in SendKey(ListedDev(list, active))
    /\ keys' = IF ListedDev(list, active) # NoDev THEN CacheDevices(keys, {k})
                                                  ELSE CacheUser(keys, sel, {k})
    /\ Receive([conv |-> active, own |-> TRUE, dev |-> NoDev, key |-> k])
    /\ UNCHANGED <<rows, pair, myKey, list, active, sel, pick, timers, read, tries, faults>>

SendFails ==
    /\ Act
    /\ active # None /\ sel # None
    /\ Listed(active) => ~Locked(list[active])
    /\ mapped' = [mapped EXCEPT ![active] = sel]
    /\ UNCHANGED <<server, list, active, sel, text, keys, reload, pick, job, effect, timers,
                   read, history>>
--------------------------------------------------------------------------------
Reloading == \E ok \in BOOLEAN : ReloadList(ok) \/ \E c \in Convs : ReloadMessages(c, ok)

Step(s) ==
    \/ \E ok \in BOOLEAN : LoadAnswer(s, ok) \/ Decrypt(s, ok)
    \/ NoRecipient(s)

Picking ==
    \/ \E c \in Convs : FriendOpens(c) \/ \E d \in Devs : FriendCreated(c, d)
    \/ FriendFails

User ==
    \/ \E c \in Convs : SelectConversation(c)
    \/ \E f \in Friends : SelectFriend(f)
    \/ \E k \in Key : Send(k)
    \/ SendFails

Others ==
    \/ \E c \in Convs, k \in Key :
          OtherPageSends(c, k) \/ \E d \in Devs : FriendSends(c, d, k)
    \/ \E c \in Convs, d \in Devs : FriendCreates(c, d)
    \/ \E d \in Devs : FriendRegisters(d) \/ FriendDeletes(d)
    \/ Notified
    \/ Regenerate

Next ==
    \/ Reloading
    \/ \E s \in 1..Slots : Step(s)
    \/ RetryFailed
    \/ \E t \in timers, ok \in BOOLEAN : RetryFires(t, ok)
    \/ Picking
    \/ User
    \/ Others

(* Every request is answered or fails, and effects run after every render. *)
Spec ==
    /\ Init /\ [][Next]_vars
    /\ WF_vars(Reloading) /\ WF_vars(Picking)
    /\ \A s \in 1..Slots : WF_vars(Step(s))
    /\ WF_vars(RetryFailed)
--------------------------------------------------------------------------------
TypeOK ==
    /\ rows \subseteq Devs
    /\ pair \in [Convs -> Pair \union {None}]
    /\ sent \in Seq(Message) /\ Len(sent) <= MaxMessages
    /\ myKey \in 0..MaxKey
    /\ list \in [Convs -> Pair \union {None}]
    /\ active \in Convs \union {None}
    /\ sel \in Friends \union {None}
    /\ mapped \in [Convs -> Friends \union {None}]
    /\ text \in [Ids -> Texts]
    /\ keys \in [user : [Friends -> SUBSET Key], device : [Devs -> SUBSET Key]]
    /\ reload \in [list : BOOLEAN, due : SUBSET Convs]
    /\ pick \in Friends \union {None}
    /\ job \in [1..Slots -> Busy \union {Idle}]
    /\ \A s \in 1..Slots : job[s].pc = "decrypt" => job[s].todo # {}
    /\ effect \in BOOLEAN
    /\ timers \subseteq Timer
    /\ read \subseteq Ids
    /\ unseen \subseteq Ids
    /\ tries \in [Ids -> 0..MaxTries]
    /\ faults \in 0..MaxFaults
    /\ acts \in 0..MaxActs

Quiet == ~effect /\ \A s \in 1..Slots : job[s].pc = "idle"

(* When nothing is under way, a message of the open conversation reads in plain *)
(* unless a reload of the list, or a load that did not know the conversation,   *)
(* has put it in the store since.                                               *)
NothingStuck ==
    Quiet /\ Listed(active) /\ CanAccess(list[active]) =>
        \A m \in Of(active) : text[m] = "plain" \/ m \in unseen

(* A message is only sealed for somebody else than the friend it is written to *)
(* when the conversation names no device.                                      *)
SealedForFriend ==
    \A m \in 1..Len(sent) :
        sent[m].own => \/ Owner[sent[m].key.theirs] = With[sent[m].conv]
                       \/ pair[sent[m].conv].theirs = NoDev

(* "Only mark messages as read if we can actually decrypt them": what is marked *)
(* read in a conversation of other devices was sealed for this browser.         *)
ReadOnlyHere ==
    \A m \in read : Locked(pair[sent[m].conv]) => sent[m].key.mine # Elsewhere

(* "Retry after 2 seconds, then again after 5 seconds if still failing". *)
RetriesEnd == \A m \in Ids : tries[m] <= 3

(* a message of the open conversation that this browser's key and the rows open *)
Openable(m) ==
    /\ m <= Len(sent)
    /\ sent[m].conv = active
    /\ Listed(active) /\ CanAccess(list[active])
    /\ mapped[active] = With[active]
    /\ sent[m].key.mine = myKey /\ sent[m].key.theirs \in rows
    /\ m \notin unseen

(* Such a message is read in plain in the end, whichever requests fail. *)
EventuallyPlain ==
    \A m \in Ids : <>[]Openable(m) => []<>(m <= Len(sent) /\ text[m] = "plain")
================================================================================
