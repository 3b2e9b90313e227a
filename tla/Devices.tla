--------------------------------- MODULE Devices ---------------------------------
(***************************************************************************)
(* One user's devices: the key pair each browser stores                    *)
(* (frontend/src/services/crypto.ts), the login and settings pages that    *)
(* create and replace it (Login.tsx, Settings.tsx), and the rows, default  *)
(* and current device the server keeps (auth.service.ts,                   *)
(* devices.service.ts, users.controller.ts).                               *)
(*                                                                         *)
(* The two halves of a pair are numbered alike; a browser's tabs share its *)
(* storage.  A page's function and the handlers of its requests are one    *)
(* process, a step between two of their writes.                            *)
(***************************************************************************)
EXTENDS Integers, Sequences, FiniteSets

CONSTANTS Tabs, Browsers,
          In,          \* the browser of each tab
          Legacy,      \* browsers whose private key is still in localStorage
          Known,       \* a browser, not one of these, that may have logged in already
          MaxKeys,     \* bound: pairs generated
          MaxDevices,  \* bound: device rows
          MaxFaults,   \* bound: steps that fail
          MaxActs      \* bound: things the user does

ASSUME InAssumption == In \in [Tabs -> Browsers] /\ IsFiniteSet(Tabs)
ASSUME StartAssumption ==
    Legacy \subseteq Browsers /\ IsFiniteSet(Legacy) /\ Known \in Browsers \ Legacy
ASSUME BoundsAssumption ==
    /\ MaxKeys \in Nat /\ MaxKeys > Cardinality(Legacy)
    /\ MaxDevices \in Nat \ {0} /\ MaxFaults \in Nat /\ MaxActs \in Nat

VARIABLES rows,     \* devices, in the order of creation
          default,  \* defaultDeviceId
          current,  \* currentDeviceId
          sent,     \* messages: the device they name and the key they are sealed with
          keys,     \* pairs generated so far
          pub,      \* device-public-key in localStorage
          priv,     \* private-key in IndexedDB
          old,      \* device-private-key in localStorage, of earlier versions
          device,   \* auth.device of each tab, NoDev when logged out
          saved,    \* auth-storage in localStorage
          proc,     \* what each tab is doing
          mixed,    \* history: browsers that stored a pair while another was in use
          torn,     \* history: browsers that may have halves of two pairs, since two
                    \* functions stored at once, a page was left while it replaced a
                    \* pair, or a migration failed; until a pair is stored whole
          faults,   \* history: steps that have failed
          acts      \* history: things the user has done

server == <<rows, default, current, sent>>
storage == <<keys, pub, priv, old>>
session == <<device, saved>>
marks == <<mixed, torn>>
vars == <<server, storage, session, proc, marks, faults, acts>>

NoDev == 0
NoKey == 0
Ids == 1..MaxDevices
Key == 0..MaxKeys

(* "after": history, the rows there were when the handler looked for the key *)
Row == [key : Key, status : {"active", "revoked", "deleted"}, after : 0..MaxDevices]

Pcs == {"idle", "load", "put", "set", "check", "naming", "find", "register", "count",
        "create", "default", "seen", "current", "answer", "revoke", "delete", "remove",
        "choose", "chosen"}

(* "for" is the function, or the form of the login page, the process belongs to *)
Process == [pc : Pcs, for : {"none", "migrate", "login", "naming", "regenerate", "settings"},
            pub : Key, priv : Key, dev : 0..MaxDevices, first : BOOLEAN, after : 0..MaxDevices]

Idle == [pc |-> "idle", for |-> "none", pub |-> NoKey, priv |-> NoKey, dev |-> NoDev,
         first |-> FALSE, after |-> 0]

(* nobody has logged in yet, or the known browser has, in all its tabs; each legacy *)
(* browser has a pair of its own, stored the old way                              *)
Start(loggedIn, had) ==
    LET n == Cardinality(loggedIn)
        One(b) == IF b \in loggedIn THEN 1 ELSE 0
    IN
    /\ rows = IF n = 0 THEN <<>> ELSE <<[key |-> 1, status |-> "active", after |-> 0]>>
    /\ default = n /\ current = n /\ sent = {}
    /\ keys = n + Cardinality(Legacy)
    /\ pub = [b \in Browsers |-> IF b \in Legacy THEN had[b] ELSE One(b)]
    /\ priv = [b \in Browsers |-> One(b)]
    /\ old = [b \in Browsers |-> IF b \in Legacy THEN had[b] ELSE NoKey]
    /\ device = [t \in Tabs |-> One(In[t])]
    /\ saved = [b \in Browsers |-> One(b)]
    /\ proc = [t \in Tabs |-> Idle]
    /\ mixed = {} /\ torn = {}
    /\ faults = 0 /\ acts = 0

Pairs(n) == {had \in [Legacy -> (n + 1)..(n + Cardinality(Legacy))] :
                \A b, c \in Legacy : had[b] = had[c] => b = c}

Init == \E loggedIn \in SUBSET {Known} :
            \E had \in Pairs(Cardinality(loggedIn)) : Start(loggedIn, had)
--------------------------------------------------------------------------------
Exists(d) == d \in 1..Len(rows) /\ rows[d].status # "deleted"
Active(d) == d \in 1..Len(rows) /\ rows[d].status = "active"
WithKey(k) == {d \in 1..Len(rows) : Exists(d) /\ rows[d].key = k}

Others(t) == {u \in Tabs \ {t} : In[u] = In[t]}
Storing(t) == proc[t].pc \in {"put", "set"}

Function(pc, for) == [Idle EXCEPT !.pc = pc, !.for = for]
Moved(p, pc) == [p EXCEPT !.pc = pc]
WithPair(p, k, l) == [p EXCEPT !.pub = k, !.priv = l]
WithDevice(p, d) == [p EXCEPT !.dev = d]

At(t, pc) == proc[t].pc = pc
Become(t, p) == proc' = [proc EXCEPT ![t] = p]
Goto(t, pc) == Become(t, Moved(proc[t], pc))

(* mutated: the function ends with its locals kept *)
EndKeepsLocals(t) == Goto(t, "idle")

(* the end of a function; the form that asks for a name stays open when the login *)
(* it sent fails                                                                  *)
End(t) == Become(t, Idle)
Failed(t) ==
    IF proc[t].for = "naming" THEN Become(t, Function("naming", "naming")) ELSE End(t)

Act == acts < MaxActs /\ acts' = acts + 1
Fault == faults < MaxFaults /\ faults' = faults + 1

(* another tab is logged in, will be when it reloads, or is busy with its keys *)
InUse(t) ==
    \/ saved[In[t]] # NoDev
    \/ device[t] # NoDev
    \/ \E u \in Others(t) : device[u] # NoDev \/ proc[u].pc # "idle"
--------------------------------------------------------------------------------
(* storeDeviceKeypair: the private key to IndexedDB, then the public to localStorage *)

Put(t) ==
    /\ At(t, "put")
    /\ priv' = [priv EXCEPT ![In[t]] = proc[t].priv]
    /\ mixed' = IF InUse(t) THEN mixed \union {In[t]} ELSE mixed
    /\ torn' = IF \E u \in Others(t) : At(u, "set") THEN torn \union {In[t]} ELSE torn
    /\ Goto(t, "set")
    /\ UNCHANGED <<server, keys, pub, old, session, faults, acts>>

(* mutated: a public key already there is kept *)
PublicKeyKept(t) == IF pub[In[t]] = NoKey THEN proc[t].pub ELSE pub[In[t]]

PublicKey(t) == proc[t].pub

(* both halves are t's, and nobody is about to store another *)
StoredWhole(t) ==
    /\ pub'[In[t]] = priv[In[t]] /\ old'[In[t]] = NoKey
    /\ \A u \in Others(t) : ~Storing(u)

(* what storing the pair was for goes on; a migration drops the old private key *)
SetItem(t) ==
    /\ At(t, "set")
    /\ pub' = [pub EXCEPT ![In[t]] = PublicKey(t)]
    /\ old' = IF proc[t].for = "migrate" THEN [old EXCEPT ![In[t]] = NoKey] ELSE old
    /\ mixed' = IF InUse(t) THEN mixed \union {In[t]} ELSE mixed
    /\ torn' = IF StoredWhole(t) THEN torn \ {In[t]} ELSE torn
    /\ \/ /\ proc[t].for = "migrate"
          /\ Become(t, Function("load", "login"))
       \/ /\ proc[t].for = "login"
          /\ Become(t, WithPair(Moved(proc[t], "check"), proc[t].pub, NoKey))
       \/ /\ proc[t].for = "regenerate"
          /\ Become(t, WithPair(Moved(proc[t], "register"), proc[t].pub, NoKey))
    /\ UNCHANGED <<server, keys, priv, session, faults, acts>>

(* IndexedDB fails: a migration is given up and the login goes on without; the *)
(* old private key stays, to be migrated next time                             *)
PutFails(t) ==
    /\ At(t, "put")
    /\ Fault
    /\ IF proc[t].for = "migrate"
       THEN /\ Become(t, Function("load", "login"))
            /\ mixed' = mixed \union {In[t]} /\ torn' = torn \union {In[t]}
       ELSE End(t) /\ UNCHANGED marks
    /\ UNCHANGED <<server, storage, session, acts>>

(* the pair of a function is generated before it is stored *)
Generate(t, for) ==
    /\ keys < MaxKeys
    /\ keys' = keys + 1
    /\ Become(t, WithPair(Function("put", for), keys + 1, keys + 1))
--------------------------------------------------------------------------------
(* Login.tsx *)

(* handleSubmit, with migrateFromLocalStorage; from here on a pair stored is the *)
(* only one in use, if no other tab uses the browser's; one that another tab has *)
(* stored half of is in use before it is whole                                   *)
Submit(t) ==
    /\ Act
    /\ At(t, "idle") /\ device[t] = NoDev
    /\ LET home == In[t] IN
         /\ Become(t, IF old[home] # NoKey /\ pub[home] # NoKey
                      THEN WithPair(Function("put", "migrate"), pub[home], old[home])
                      ELSE Function("load", "login"))
         /\ mixed' = IF ~InUse(t) /\ pub[home] = priv[home] /\ old[home] = NoKey
                     THEN mixed \ {home}
                     ELSE IF \E u \in Others(t) : At(u, "set") THEN mixed \union {home}
                     ELSE mixed
    /\ UNCHANGED <<server, storage, session, torn, faults>>

(* loadDeviceKeypair needs both halves *)
Stored(b) == pub[b] # NoKey /\ priv[b] # NoKey

LoadPair(t) ==
    /\ At(t, "load")
    /\ IF Stored(In[t])
       THEN /\ Become(t, WithPair(Moved(proc[t], "check"), pub[In[t]], NoKey))
            /\ UNCHANGED keys
       ELSE Generate(t, "login")
    /\ UNCHANGED <<server, pub, priv, old, session, marks, faults, acts>>

(* the private key does not open any more, which the password made of the      *)
(* browser's version, language, screen and time zone makes happen: a new pair  *)
LoadFails(t) ==
    /\ At(t, "load")
    /\ Fault
    /\ Generate(t, "login")
    /\ UNCHANGED <<server, pub, priv, old, session, marks, acts>>

(* checkDevice; a new device is asked for its name *)
CheckDevice(t) ==
    /\ At(t, "check")
    /\ \/ /\ WithKey(proc[t].pub) = {}
          /\ Become(t, Function("naming", "naming"))
       \/ \E d \in WithKey(proc[t].pub) :
             IF Active(d) THEN Goto(t, "find")
             ELSE Become(t, Function("naming", "naming"))
    /\ UNCHANGED <<server, storage, session, marks, faults, acts>>

(* handleDeviceNameSubmit, which loads the pair again *)
NameDevice(t) ==
    /\ At(t, "naming")
    /\ Stored(In[t])
    /\ Become(t, WithPair(Moved(proc[t], "find"), pub[In[t]], NoKey))
    /\ UNCHANGED <<server, storage, session, marks, faults, acts>>

(* login: a key that only a revoked device has is answered without a device *)
FindDevice(t) ==
    /\ At(t, "find")
    /\ \/ WithKey(proc[t].pub) = {} /\ Goto(t, "register")
       \/ \E d \in WithKey(proc[t].pub) :
             IF Active(d) THEN Goto(t, "register")
             ELSE Become(t, Function("answer", proc[t].for))
    /\ UNCHANGED <<server, storage, session, marks, faults, acts>>

(* updateLastSeen, when the device was there; one deleted since makes it throw *)
UpdateLastSeen(t) ==
    /\ At(t, "seen")
    /\ IF Exists(proc[t].dev) THEN Goto(t, "current") ELSE Failed(t)
    /\ UNCHANGED <<server, storage, session, marks, faults, acts>>

(* no foreign key ties currentDeviceId to a device *)
SetCurrent(t) ==
    /\ At(t, "current")
    /\ current' = proc[t].dev
    /\ Goto(t, "answer")
    /\ UNCHANGED <<rows, default, sent, storage, session, marks, faults, acts>>

(* the session is created and the login page stores it; without a device it fails *)
Answer(t) ==
    /\ At(t, "answer")
    /\ IF proc[t].dev = NoDev THEN Failed(t) /\ UNCHANGED session
       ELSE /\ device' = [device EXCEPT ![t] = proc[t].dev]
            /\ saved' = [saved EXCEPT ![In[t]] = proc[t].dev]
            /\ End(t)
    /\ UNCHANGED <<server, storage, marks, faults, acts>>
--------------------------------------------------------------------------------
(* registerDevice, for a login or after a regeneration *)

Registered(t, d, pc) ==
    LET next == IF proc[t].for = "regenerate" THEN "revoke" ELSE pc
    IN  Become(t, WithDevice(Function(next, proc[t].for), d))

(* mutated: the device is looked for among the current and default ones *)
SameKeyInUse(t) == {d \in WithKey(proc[t].pub) : Active(d) /\ d \in {current, default}}

SameKey(t) == {d \in WithKey(proc[t].pub) : Active(d)}

(* findFirst; one that is there may have its name updated *)
FindSameKey(t) ==
    /\ At(t, "register")
    /\ \/ /\ SameKey(t) = {}
          /\ Become(t, [Moved(proc[t], "count") EXCEPT !.after = Len(rows)])
       \/ \E d \in SameKey(t) : Registered(t, d, "seen")
    /\ UNCHANGED <<server, storage, session, marks, faults, acts>>

(* mutated: counted as if the new device were there already *)
FirstIfOne(n) == n = 1

IsFirst(n) == n = 0

CountDevices(t) ==
    /\ At(t, "count")
    /\ LET n == Cardinality({d \in 1..Len(rows) : Active(d)})
       IN  Become(t, [Moved(proc[t], "create") EXCEPT !.first = IsFirst(n)])
    /\ UNCHANGED <<server, storage, session, marks, faults, acts>>

CreateDevice(t) ==
    /\ At(t, "create")
    /\ Len(rows) < MaxDevices
    /\ rows' = Append(rows, [key |-> proc[t].pub, status |-> "active", after |-> proc[t].after])
    /\ IF proc[t].first THEN Become(t, WithDevice(Moved(proc[t], "default"), Len(rows')))
       ELSE Registered(t, Len(rows'), "current")
    /\ UNCHANGED <<default, current, sent, storage, session, marks, faults, acts>>

SetFirstDefault(t) ==
    /\ At(t, "default")
    /\ default' = proc[t].dev
    /\ Registered(t, proc[t].dev, "current")
    /\ UNCHANGED <<rows, current, sent, storage, session, marks, faults, acts>>
--------------------------------------------------------------------------------
(* Settings.tsx *)

(* confirmRegenerateKeysAction: a new pair is stored, then registered, then the *)
(* device of the session revoked; the session stays on that device              *)
Regenerate(t) ==
    /\ Act
    /\ At(t, "idle") /\ device[t] # NoDev
    /\ Generate(t, "regenerate")
    /\ UNCHANGED <<server, pub, priv, old, session, marks, faults>>

(* mutated: the device that was just registered is revoked *)
DeviceRegistered(t) == proc[t].dev

DeviceToRevoke(t) == device[t]

Revoke(t) ==
    /\ At(t, "revoke")
    /\ LET d == DeviceToRevoke(t) IN
         rows' = IF Exists(d) THEN [rows EXCEPT ![d].status = "revoked"] ELSE rows
    /\ End(t)
    /\ UNCHANGED <<default, current, sent, storage, session, marks, faults, acts>>

(* a device of the list, which may be old, is chosen to be deleted or to be the *)
(* default one                                                                  *)
ChooseDevice(t, d, pc) ==
    /\ Act
    /\ At(t, "idle") /\ device[t] # NoDev
    /\ d \in 1..Len(rows)
    /\ Become(t, WithDevice(Function(pc, "settings"), d))
    /\ UNCHANGED <<server, storage, session, marks, faults>>

(* deleteDevice of users.controller.ts refuses the current device ... *)
CheckCurrent(t) ==
    /\ At(t, "delete")
    /\ IF current # proc[t].dev /\ Exists(proc[t].dev) THEN Goto(t, "remove") ELSE End(t)
    /\ UNCHANGED <<server, storage, session, marks, faults, acts>>

(* mutated: a device's messages do not keep it *)
RemovableAny(d) == Exists(d)

(* messages name their sender's device, which the database keeps for them *)
Removable(d) == Exists(d) /\ \A m \in sent : m.dev # d

(* ... and the row is deleted; the page reports success either way *)
Remove(t) ==
    /\ At(t, "remove")
    /\ rows' = IF Removable(proc[t].dev) THEN [rows EXCEPT ![proc[t].dev].status = "deleted"]
                                         ELSE rows
    /\ End(t)
    /\ UNCHANGED <<default, current, sent, storage, session, marks, faults, acts>>

(* setDefaultDevice: a revoked device will do *)
FindChosen(t) ==
    /\ At(t, "choose")
    /\ IF Exists(proc[t].dev) THEN Goto(t, "chosen") ELSE End(t)
    /\ UNCHANGED <<server, storage, session, marks, faults, acts>>

SetDefault(t) ==
    /\ At(t, "chosen")
    /\ default' = proc[t].dev
    /\ End(t)
    /\ UNCHANGED <<rows, current, sent, storage, session, marks, faults, acts>>
--------------------------------------------------------------------------------
(* A request or an IndexedDB read fails, the server stops in a handler, or the *)
(* answer is lost: the page shows an error                                     *)
Fails(t) ==
    /\ proc[t].pc \notin {"idle", "load", "put", "set"}
    /\ Fault
    /\ Failed(t)
    /\ UNCHANGED <<server, storage, session, marks, acts>>

(* t has stored a private key over the one of another pair *)
Replacing(t) == At(t, "set") /\ pub[In[t]] \notin {NoKey, proc[t].pub}

(* the page is reloaded in a function of its own, and reads the session stored *)
Reload(t) ==
    /\ Act
    /\ proc[t].pc \in {"idle", "load", "put", "set", "naming"}
    /\ ~At(t, "idle") \/ device[t] # saved[In[t]]
    /\ device' = [device EXCEPT ![t] = saved[In[t]]]
    /\ mixed' = IF At(t, "set") THEN mixed \union {In[t]} ELSE mixed
    /\ torn' = IF Replacing(t) THEN torn \union {In[t]} ELSE torn
    /\ End(t)
    /\ UNCHANGED <<server, storage, saved, faults>>

(* a change in the store of any tab stores its session *)
SaveAuthState(t) ==
    /\ saved[In[t]] # device[t]
    /\ saved' = [saved EXCEPT ![In[t]] = device[t]]
    /\ UNCHANGED <<server, storage, device, proc, marks, faults, acts>>

(* of the chat or the settings page; keys stay in storage *)
Logout(t) ==
    /\ Act
    /\ At(t, "idle") /\ device[t] # NoDev
    /\ device' = [device EXCEPT ![t] = NoDev]
    /\ saved' = [saved EXCEPT ![In[t]] = NoDev]
    /\ UNCHANGED <<server, storage, proc, marks, faults>>

(* the private key in storage, and the device of the session *)
Send(t) ==
    /\ Act
    /\ At(t, "idle")
    /\ Exists(device[t])
    /\ Stored(In[t])
    /\ sent' = sent \union {[dev |-> device[t], key |-> priv[In[t]], mixed |-> In[t] \in mixed]}
    /\ UNCHANGED <<rows, default, current, storage, session, proc, marks, faults>>
--------------------------------------------------------------------------------
Storage(t) == Put(t) \/ SetItem(t) \/ PutFails(t) \/ LoadPair(t) \/ LoadFails(t)

Login(t) ==
    \/ Submit(t) \/ CheckDevice(t) \/ NameDevice(t)
    \/ FindDevice(t) \/ UpdateLastSeen(t) \/ SetCurrent(t) \/ Answer(t)

RegisterDevice(t) ==
    FindSameKey(t) \/ CountDevices(t) \/ CreateDevice(t) \/ SetFirstDefault(t)

Settings(t) ==
    \/ Regenerate(t) \/ Revoke(t)
    \/ \E d \in Ids : ChooseDevice(t, d, "delete") \/ ChooseDevice(t, d, "choose")
    \/ CheckCurrent(t) \/ Remove(t) \/ FindChosen(t) \/ SetDefault(t)

Page(t) == Fails(t) \/ Reload(t) \/ SaveAuthState(t) \/ Logout(t) \/ Send(t)

Next == \E t \in Tabs : Storage(t) \/ Login(t) \/ RegisterDevice(t) \/ Settings(t) \/ Page(t)

Spec == Init /\ [][Next]_vars
--------------------------------------------------------------------------------
TypeOK ==
    /\ rows \in Seq(Row) /\ Len(rows) <= MaxDevices
    /\ default \in 0..Len(rows) /\ current \in 0..Len(rows)
    /\ sent \subseteq [dev : 1..Len(rows), key : Key \ {NoKey}, mixed : BOOLEAN]
    /\ keys \in Key
    /\ pub \in [Browsers -> 0..keys] /\ priv \in [Browsers -> 0..keys]
    /\ old \in [Browsers -> 0..keys]
    /\ device \in [Tabs -> 0..Len(rows)] /\ saved \in [Browsers -> 0..Len(rows)]
    /\ proc \in [Tabs -> Process]
    /\ \A t \in Tabs : At(t, "idle") => proc[t] = Idle
    /\ mixed \subseteq Browsers /\ torn \subseteq Browsers
    /\ faults \in 0..MaxFaults /\ acts \in 0..MaxActs

(* The halves a browser stores are of one pair, whenever no function is between   *)
(* its two writes: across regenerations, logins and migrations, and pages left    *)
(* before they have replaced anything.  Three things can store halves of two      *)
(* pairs, and only until a pair is stored whole: functions of two tabs storing at *)
(* once, a page left after it wrote the private key over another pair's, and a    *)
(* migration that failed.                                                         *)
PairWhole ==
    \A b \in Browsers \ torn :
        /\ pub[b] # NoKey /\ priv[b] # NoKey
        /\ \A t \in Tabs : In[t] = b => ~At(t, "set")
        => pub[b] = priv[b]

(* A message opens with the key of the device it names, unless the browser that *)
(* sent it replaced its pair under a session.                                   *)
MessagesOpen ==
    \A m \in sent : ~m.mixed => Exists(m.dev) /\ rows[m.dev].key = m.key

(* "If this is the first device, set it as default": once no write of it is due a *)
(* user with a device has a default one, if no request has failed.               *)
DefaultSet ==
    faults = 0 /\ rows # <<>> /\ (\A t \in Tabs : ~At(t, "default")) => default # NoDev

(* No device with the key a browser stores is ever revoked: its logins would be *)
(* answered without a device for ever.                                          *)
NotLockedOut ==
    \A b \in Browsers, d \in 1..Len(rows) :
        rows[d].status = "revoked" => rows[d].key # pub[b]

(* "If device with publicKey exists and active": two devices with one key come *)
(* from requests that ran at once.                                             *)
TwinsOnlyAtOnce ==
    \A i, j \in 1..Len(rows) :
        i < j /\ rows[i].key = rows[j].key /\ Active(i) => rows[j].after < i
================================================================================
