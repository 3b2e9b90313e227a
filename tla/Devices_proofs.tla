----------------------------- MODULE Devices_proofs -----------------------------
(***************************************************************************)
(* Theorems about Devices, checked by TLAPS.                               *)
(***************************************************************************)
EXTENDS Devices, FiniteSetTheorems, TLAPS

USE DEF marks

--------------------------------------------------------------------------------
(* The locals of a function *)

Fors == {"none", "migrate", "login", "naming", "regenerate", "settings"}

LEMMA IdleFields ==
    /\ Idle \in Process
    /\ Idle.pc = "idle" /\ Idle.for = "none" /\ Idle.pub = 0 /\ Idle.priv = 0
    /\ Idle.dev = 0 /\ Idle.after = 0
BY BoundsAssumption DEF Idle, Process, Pcs, Key, NoKey, NoDev

LEMMA SetPc ==
    ASSUME NEW p \in Process, NEW pc \in Pcs
    PROVE  LET q == Moved(p, pc)
           IN  /\ q \in Process
               /\ q.pc = pc /\ q.for = p.for /\ q.pub = p.pub /\ q.priv = p.priv
               /\ q.dev = p.dev /\ q.after = p.after
BY DEF Moved, Process

LEMMA SetFor ==
    ASSUME NEW p \in Process, NEW for \in Fors
    PROVE  LET q == [p EXCEPT !.for = for]
           IN  /\ q \in Process
               /\ q.pc = p.pc /\ q.for = for /\ q.pub = p.pub /\ q.priv = p.priv
               /\ q.dev = p.dev /\ q.after = p.after
BY DEF Process, Fors

LEMMA NewFunction ==
    ASSUME NEW pc \in Pcs, NEW for \in Fors
    PROVE  LET q == Function(pc, for)
           IN  /\ q \in Process
               /\ q.pc = pc /\ q.for = for /\ q.pub = 0 /\ q.priv = 0
               /\ q.dev = 0 /\ q.after = 0
<1> DEFINE p == Moved(Idle, pc)
<1>1. p \in Process /\ p.pc = pc /\ p.pub = 0 /\ p.priv = 0 /\ p.dev = 0
      /\ p.after = 0
  BY SetPc, IdleFields
<1>2. Function(pc, for) = [p EXCEPT !.for = for]
  BY DEF Function, Moved
<1> HIDE DEF p
<1> QED
  BY <1>1, <1>2, SetFor

LEMMA SetPub ==
    ASSUME NEW p \in Process, NEW k \in Key
    PROVE  LET q == [p EXCEPT !.pub = k]
           IN  /\ q \in Process
               /\ q.pc = p.pc /\ q.for = p.for /\ q.pub = k /\ q.priv = p.priv
               /\ q.dev = p.dev /\ q.after = p.after
BY DEF Process

LEMMA SetPair ==
    ASSUME NEW p \in Process, NEW k \in Key, NEW l \in Key
    PROVE  LET q == WithPair(p, k, l)
           IN  /\ q \in Process
               /\ q.pc = p.pc /\ q.for = p.for /\ q.pub = k /\ q.priv = l
               /\ q.dev = p.dev /\ q.after = p.after
<1> DEFINE r == [p EXCEPT !.pub = k]
<1>1. /\ r \in Process /\ r.pc = p.pc /\ r.for = p.for /\ r.pub = k
      /\ r.dev = p.dev /\ r.after = p.after
  BY SetPub
<1>2. WithPair(p, k, l) = [r EXCEPT !.priv = l]
  BY DEF WithPair
<1> HIDE DEF r
<1> QED
  BY <1>1, <1>2 DEF Process

LEMMA SetDevice ==
    ASSUME NEW p \in Process, NEW d \in 0..MaxDevices
    PROVE  LET q == WithDevice(p, d)
           IN  /\ q \in Process
               /\ q.pc = p.pc /\ q.for = p.for /\ q.pub = p.pub /\ q.priv = p.priv
               /\ q.dev = d /\ q.after = p.after
BY DEF WithDevice, Process

LEMMA SetAfter ==
    ASSUME NEW p \in Process, NEW n \in 0..MaxDevices
    PROVE  LET q == [p EXCEPT !.after = n]
           IN  /\ q \in Process
               /\ q.pc = p.pc /\ q.for = p.for /\ q.pub = p.pub /\ q.priv = p.priv
               /\ q.dev = p.dev /\ q.after = n
BY DEF Process

LEMMA SetFirst ==
    ASSUME NEW p \in Process, NEW f \in BOOLEAN
    PROVE  LET q == [p EXCEPT !.first = f]
           IN  /\ q \in Process
               /\ q.pc = p.pc /\ q.for = p.for /\ q.pub = p.pub /\ q.priv = p.priv
               /\ q.dev = p.dev /\ q.first = f /\ q.after = p.after
BY DEF Process

--------------------------------------------------------------------------------
(* What the actions make of the functions *)

Now(t, pc, for, k, l, d, n) ==
    /\ proc' \in [Tabs -> Process]
    /\ proc'[t].pc = pc /\ proc'[t].for = for /\ proc'[t].pub = k /\ proc'[t].priv = l
    /\ proc'[t].dev = d /\ proc'[t].after = n
    /\ \A u \in Tabs \ {t} : proc'[u] = proc[u]

NowIdle(t) == Now(t, "idle", "none", 0, 0, 0, 0) /\ proc'[t] = Idle

NowAt(t, pc) ==
    Now(t, pc, proc[t].for, proc[t].pub, proc[t].priv, proc[t].dev, proc[t].after)

NowFailed(t) ==
    IF proc[t].for = "naming" THEN Now(t, "naming", "naming", 0, 0, 0, 0) ELSE NowIdle(t)

NowWithPair(t, pc, k) ==
    Now(t, pc, proc[t].for, k, NoKey, proc[t].dev, proc[t].after)

NowRegistered(t, d, pc) ==
    Now(t, IF proc[t].for = "regenerate" THEN "revoke" ELSE pc, proc[t].for, 0, 0, d, 0)

LEMMA Becomes ==
    ASSUME proc \in [Tabs -> Process], NEW t \in Tabs, NEW p \in Process, Become(t, p)
    PROVE  /\ proc' \in [Tabs -> Process] /\ proc'[t] = p
           /\ \A u \in Tabs \ {t} : proc'[u] = proc[u]
BY DEF Become

LEMMA EndNow ==
    ASSUME proc \in [Tabs -> Process], NEW t \in Tabs, End(t)
    PROVE  NowIdle(t)
BY Becomes, IdleFields DEF End, NowIdle, Now

LEMMA GotoNow ==
    ASSUME proc \in [Tabs -> Process], NEW t \in Tabs, NEW pc \in Pcs, Goto(t, pc)
    PROVE  NowAt(t, pc)
<1>1. Moved(proc[t], pc) \in Process
  BY SetPc
<1> QED
  BY <1>1, Becomes, SetPc DEF Goto, NowAt, Now

LEMMA StartNow ==
    ASSUME proc \in [Tabs -> Process], NEW t \in Tabs, NEW pc \in Pcs, NEW for \in Fors,
           Become(t, Function(pc, for))
    PROVE  Now(t, pc, for, 0, 0, 0, 0)
<1>1. Function(pc, for) \in Process
  BY NewFunction
<1> QED
  BY <1>1, Becomes, NewFunction DEF Now

LEMMA FailedNow ==
    ASSUME proc \in [Tabs -> Process], NEW t \in Tabs, Failed(t)
    PROVE  NowFailed(t)
<1>1. "naming" \in Pcs /\ "naming" \in Fors
  BY DEF Pcs, Fors
<1> QED
  BY <1>1, StartNow, EndNow DEF Failed, NowFailed

LEMMA StartPairNow ==
    ASSUME proc \in [Tabs -> Process], NEW t \in Tabs, NEW pc \in Pcs, NEW for \in Fors,
           NEW k \in Key, NEW l \in Key, Become(t, WithPair(Function(pc, for), k, l))
    PROVE  Now(t, pc, for, k, l, 0, 0)
<1> DEFINE f == Function(pc, for)
           q == WithPair(f, k, l)
<1>1. /\ f \in Process /\ f.pc = pc /\ f.for = for
      /\ f.dev = 0 /\ f.after = 0
  BY NewFunction
<1> HIDE DEF f
<1>2. /\ q \in Process /\ q.pc = pc /\ q.for = for /\ q.pub = k /\ q.priv = l
      /\ q.dev = 0 /\ q.after = 0
  BY <1>1, SetPair
<1>3. Become(t, q)
  BY DEF f
<1> HIDE DEF q
<1> QED
  BY <1>2, <1>3, Becomes DEF Now

LEMMA GoPairNow ==
    ASSUME proc \in [Tabs -> Process], NEW t \in Tabs, NEW pc \in Pcs, NEW k \in Key,
           Become(t, WithPair(Moved(proc[t], pc), k, NoKey))
    PROVE  NowWithPair(t, pc, k)
<1> DEFINE m == Moved(proc[t], pc)
           q == WithPair(m, k, NoKey)
<1>1. /\ m \in Process /\ m.pc = pc /\ m.for = proc[t].for
      /\ m.dev = proc[t].dev /\ m.after = proc[t].after /\ NoKey \in Key
  BY SetPc, BoundsAssumption DEF NoKey, Key
<1> HIDE DEF m
<1>2. /\ q \in Process /\ q.pc = pc /\ q.for = proc[t].for /\ q.pub = k /\ q.priv = NoKey
      /\ q.dev = proc[t].dev /\ q.after = proc[t].after
  BY <1>1, SetPair
<1>3. Become(t, q)
  BY DEF m
<1> HIDE DEF q
<1> QED
  BY <1>2, <1>3, Becomes DEF NowWithPair, Now

LEMMA StartDeviceNow ==
    ASSUME proc \in [Tabs -> Process], NEW t \in Tabs, NEW pc \in Pcs, NEW for \in Fors,
           NEW d \in 0..MaxDevices, Become(t, WithDevice(Function(pc, for), d))
    PROVE  Now(t, pc, for, 0, 0, d, 0)
<1> DEFINE f == Function(pc, for)
           q == WithDevice(f, d)
<1>1. /\ f \in Process /\ f.pc = pc /\ f.for = for /\ f.pub = 0 /\ f.priv = 0
      /\ f.after = 0
  BY NewFunction
<1> HIDE DEF f
<1>2. /\ q \in Process /\ q.pc = pc /\ q.for = for /\ q.pub = 0 /\ q.priv = 0
      /\ q.dev = d /\ q.after = 0
  BY <1>1, SetDevice
<1>3. Become(t, q)
  BY DEF f
<1> HIDE DEF q
<1> QED
  BY <1>2, <1>3, Becomes DEF Now

LEMMA RegisteredNow ==
    ASSUME proc \in [Tabs -> Process], NEW t \in Tabs, NEW pc \in Pcs,
           NEW d \in 0..MaxDevices, Registered(t, d, pc)
    PROVE  NowRegistered(t, d, pc)
<1> DEFINE next == IF proc[t].for = "regenerate" THEN "revoke" ELSE pc
<1>1. next \in Pcs /\ proc[t].for \in Fors
  BY DEF Pcs, Fors, Process
<1>2. Become(t, WithDevice(Function(next, proc[t].for), d))
  BY DEF Registered
<1> HIDE DEF next
<1>3. Now(t, next, proc[t].for, 0, 0, d, 0)
  BY <1>1, <1>2, StartDeviceNow
<1> QED
  BY <1>3 DEF NowRegistered, next

--------------------------------------------------------------------------------
(* Type correctness *)

(* where a function has a public key at hand, and where it has a device *)
WithPub(pc) == pc \in {"put", "set", "check", "find", "register", "count", "create"}
WithDev(pc) == pc \in {"default", "seen", "delete", "remove", "choose", "chosen"}

(* a function with k keys generated and n rows there *)
GoodProc(p, k, n) ==
    /\ p \in Process /\ (p.pc = "idle" => p = Idle)
    /\ p.pub \in 0..k /\ p.priv \in 0..k /\ p.dev \in 0..n /\ p.after \in 0..n
    /\ WithPub(p.pc) => p.pub # NoKey
    /\ WithDev(p.pc) => p.dev # NoDev
    /\ p.pc \in {"put", "set"} => p.priv # NoKey /\ p.for \in {"migrate", "login", "regenerate"}

(* the inductive form of TypeOK *)
TInv ==
    /\ TypeOK
    /\ \A d \in 1..Len(rows) : rows[d].key \in 1..keys
    /\ \A t \in Tabs : GoodProc(proc[t], keys, Len(rows))

--------------------------------------------------------------------------------
(* What each action makes of the function it is a step of *)

LEMMA ProcType ==
    ASSUME TInv, NEW t \in Tabs
    PROVE  /\ proc \in [Tabs -> Process] /\ proc[t] \in Process
           /\ proc[t].pc \in Pcs /\ proc[t].for \in Fors
           /\ proc[t].pub \in Key /\ proc[t].priv \in Key
           /\ proc[t].dev \in 0..MaxDevices /\ proc[t].after \in 0..MaxDevices
           /\ 0 \in Key
BY BoundsAssumption DEF TInv, TypeOK, Process, Fors, Key

LEMMA StateType ==
    ASSUME TInv
    PROVE  /\ rows \in Seq(Row) /\ Len(rows) \in Nat /\ Len(rows) <= MaxDevices
           /\ keys \in Nat /\ keys <= MaxKeys
           /\ \A d \in 1..Len(rows) : rows[d] \in Row /\ rows[d].key \in 1..keys
           /\ \A t \in Tabs : In[t] \in Browsers
           /\ \A b \in Browsers : pub[b] \in 0..keys /\ priv[b] \in 0..keys /\ old[b] \in 0..keys
           /\ \A k \in 0..keys : k \in Key
           /\ \A d \in 0..Len(rows) : d \in 0..MaxDevices
BY BoundsAssumption, InAssumption DEF TInv, TypeOK, Key

LEMMA PutNow ==
    ASSUME TInv, NEW t \in Tabs, Put(t)
    PROVE  NowAt(t, "set")
BY ProcType, GotoNow DEF Put, Pcs

LEMMA SetItemNow ==
    ASSUME TInv, NEW t \in Tabs, SetItem(t)
    PROVE  \/ proc[t].for = "migrate" /\ Now(t, "load", "login", 0, 0, 0, 0)
           \/ proc[t].for = "login" /\ NowWithPair(t, "check", proc[t].pub)
           \/ proc[t].for = "regenerate" /\ NowWithPair(t, "register", proc[t].pub)
<1>1. /\ "load" \in Pcs /\ "check" \in Pcs /\ "register" \in Pcs /\ "login" \in Fors
  BY DEF Pcs, Fors
<1> QED
  BY <1>1, ProcType, StartNow, GoPairNow DEF SetItem

LEMMA PutFailsNow ==
    ASSUME TInv, NEW t \in Tabs, PutFails(t)
    PROVE  IF proc[t].for = "migrate" THEN Now(t, "load", "login", 0, 0, 0, 0) ELSE NowIdle(t)
<1>1. "load" \in Pcs /\ "login" \in Fors
  BY DEF Pcs, Fors
<1> QED
  BY <1>1, ProcType, StartNow, EndNow DEF PutFails

LEMMA GenerateNow ==
    ASSUME TInv, NEW t \in Tabs, NEW for \in Fors, Generate(t, for)
    PROVE  /\ Now(t, "put", for, keys + 1, keys + 1, 0, 0)
           /\ keys' = keys + 1 /\ keys + 1 <= MaxKeys
<1>1. "put" \in Pcs
  BY DEF Pcs
<1>2. keys' = keys + 1 /\ keys + 1 <= MaxKeys /\ keys + 1 \in Key
  BY StateType, BoundsAssumption DEF Generate, Key
<1> QED
  BY <1>1, <1>2, ProcType, StartPairNow DEF Generate

LEMMA LoadPairNow ==
    ASSUME TInv, NEW t \in Tabs, LoadPair(t)
    PROVE  \/ Stored(In[t]) /\ NowWithPair(t, "check", pub[In[t]]) /\ keys' = keys
           \/ Now(t, "put", "login", keys + 1, keys + 1, 0, 0) /\ keys' = keys + 1
<1>1. "check" \in Pcs /\ "login" \in Fors
  BY DEF Pcs, Fors
<1>2. pub[In[t]] \in Key
  BY StateType
<1> QED
  BY <1>1, <1>2, ProcType, GoPairNow, GenerateNow DEF LoadPair

LEMMA LoadFailsNow ==
    ASSUME TInv, NEW t \in Tabs, LoadFails(t)
    PROVE  Now(t, "put", "login", keys + 1, keys + 1, 0, 0) /\ keys' = keys + 1
BY GenerateNow DEF LoadFails, Fors

LEMMA SubmitNow ==
    ASSUME TInv, NEW t \in Tabs, Submit(t)
    PROVE  IF old[In[t]] # NoKey /\ pub[In[t]] # NoKey
           THEN Now(t, "put", "migrate", pub[In[t]], old[In[t]], 0, 0)
           ELSE Now(t, "load", "login", 0, 0, 0, 0)
<1>1. "put" \in Pcs /\ "load" \in Pcs /\ "migrate" \in Fors /\ "login" \in Fors
  BY DEF Pcs, Fors
<1>2. pub[In[t]] \in Key /\ old[In[t]] \in Key
  BY StateType
<1> QED
  BY <1>1, <1>2, ProcType, StartNow, StartPairNow DEF Submit

LEMMA CheckDeviceNow ==
    ASSUME TInv, NEW t \in Tabs, CheckDevice(t)
    PROVE  Now(t, "naming", "naming", 0, 0, 0, 0) \/ NowAt(t, "find")
<1>1. "naming" \in Pcs /\ "find" \in Pcs /\ "naming" \in Fors
  BY DEF Pcs, Fors
<1> QED
  BY <1>1, ProcType, StartNow, GotoNow DEF CheckDevice

LEMMA NameDeviceNow ==
    ASSUME TInv, NEW t \in Tabs, NameDevice(t)
    PROVE  Stored(In[t]) /\ NowWithPair(t, "find", pub[In[t]])
<1>1. "find" \in Pcs /\ pub[In[t]] \in Key
  BY StateType DEF Pcs
<1> QED
  BY <1>1, ProcType, GoPairNow DEF NameDevice

LEMMA FindDeviceNow ==
    ASSUME TInv, NEW t \in Tabs, FindDevice(t)
    PROVE  NowAt(t, "register") \/ Now(t, "answer", proc[t].for, 0, 0, 0, 0)
<1>1. "register" \in Pcs /\ "answer" \in Pcs
  BY DEF Pcs
<1> QED
  BY <1>1, ProcType, StartNow, GotoNow DEF FindDevice

LEMMA UpdateLastSeenNow ==
    ASSUME TInv, NEW t \in Tabs, UpdateLastSeen(t)
    PROVE  NowAt(t, "current") \/ NowFailed(t)
BY ProcType, GotoNow, FailedNow DEF UpdateLastSeen, Pcs

LEMMA SetCurrentNow ==
    ASSUME TInv, NEW t \in Tabs, SetCurrent(t)
    PROVE  NowAt(t, "answer")
BY ProcType, GotoNow DEF SetCurrent, Pcs

LEMMA AnswerNow ==
    ASSUME TInv, NEW t \in Tabs, Answer(t)
    PROVE  IF proc[t].dev = NoDev THEN NowFailed(t) ELSE NowIdle(t)
BY ProcType, FailedNow, EndNow DEF Answer

LEMMA FindSameKeyNow ==
    ASSUME TInv, NEW t \in Tabs, FindSameKey(t)
    PROVE  \/ /\ SameKey(t) = {}
              /\ Now(t, "count", proc[t].for, proc[t].pub, proc[t].priv, proc[t].dev, Len(rows))
           \/ \E d \in SameKey(t) : NowRegistered(t, d, "seen")
<1>1. CASE SameKey(t) = {} /\ Become(t, [Moved(proc[t], "count") EXCEPT !.after = Len(rows)])
  <2> DEFINE m == Moved(proc[t], "count")
             q == [m EXCEPT !.after = Len(rows)]
  <2>1. /\ m \in Process /\ m.pc = "count" /\ m.for = proc[t].for /\ m.pub = proc[t].pub
        /\ m.priv = proc[t].priv /\ m.dev = proc[t].dev
    BY ProcType, SetPc DEF Pcs
  <2> HIDE DEF m
  <2>2. Len(rows) \in 0..MaxDevices
    BY StateType, BoundsAssumption
  <2>3. /\ q \in Process /\ q.pc = "count" /\ q.for = proc[t].for /\ q.pub = proc[t].pub
        /\ q.priv = proc[t].priv /\ q.dev = proc[t].dev /\ q.after = Len(rows)
    BY <2>1, <2>2, SetAfter
  <2>4. Become(t, q)
    BY <1>1 DEF m
  <2> HIDE DEF q
  <2> QED
    BY <1>1, <2>3, <2>4, ProcType, Becomes DEF Now
<1>2. ASSUME NEW d \in SameKey(t), Registered(t, d, "seen")
      PROVE  NowRegistered(t, d, "seen")
  <2>1. d \in 0..MaxDevices
    BY StateType DEF SameKey, WithKey
  <2> QED
    BY <1>2, <2>1, ProcType, RegisteredNow DEF Pcs
<1> QED
  BY <1>1, <1>2 DEF FindSameKey

LEMMA CountDevicesNow ==
    ASSUME TInv, NEW t \in Tabs, CountDevices(t)
    PROVE  /\ NowAt(t, "create")
           /\ proc'[t].first = IsFirst(Cardinality({d \in 1..Len(rows) : Active(d)}))
<1> DEFINE first == IsFirst(Cardinality({d \in 1..Len(rows) : Active(d)}))
           m == Moved(proc[t], "create")
           q == [m EXCEPT !.first = first]
<1>1. /\ m \in Process /\ m.pc = "create" /\ m.for = proc[t].for /\ m.pub = proc[t].pub
      /\ m.priv = proc[t].priv /\ m.dev = proc[t].dev /\ m.after = proc[t].after
  BY ProcType, SetPc DEF Pcs
<1>2. Become(t, q)
  BY DEF CountDevices
<1>3. first \in BOOLEAN
  BY DEF IsFirst
<1> HIDE DEF m, first
<1>4. /\ q \in Process /\ q.pc = "create" /\ q.for = proc[t].for /\ q.pub = proc[t].pub
      /\ q.priv = proc[t].priv /\ q.dev = proc[t].dev /\ q.after = proc[t].after
      /\ q.first = first
  BY <1>1, <1>3, SetFirst
<1> HIDE DEF q
<1>5. NowAt(t, "create") /\ proc'[t].first = first
  BY <1>2, <1>4, ProcType, Becomes DEF NowAt, Now
<1> QED
  BY <1>5 DEF first

LEMMA CreateDeviceNow ==
    ASSUME TInv, NEW t \in Tabs, CreateDevice(t)
    PROVE  /\ rows' = Append(rows, [key |-> proc[t].pub, status |-> "active",
                                    after |-> proc[t].after])
           /\ rows' \in Seq(Row) /\ Len(rows') = Len(rows) + 1 /\ Len(rows') <= MaxDevices
           /\ rows'[Len(rows')].key = proc[t].pub
           /\ rows'[Len(rows')].status = "active"
           /\ rows'[Len(rows')].after = proc[t].after
           /\ \A d \in 1..Len(rows) : rows'[d] = rows[d]
           /\ IF proc[t].first
              THEN Now(t, "default", proc[t].for, proc[t].pub, proc[t].priv, Len(rows'),
                       proc[t].after)
              ELSE NowRegistered(t, Len(rows'), "current")
<1> DEFINE r == [key |-> proc[t].pub, status |-> "active", after |-> proc[t].after]
<1>1. r \in Row /\ rows' = Append(rows, r)
  BY ProcType DEF CreateDevice, Row
<1>2. /\ rows' \in Seq(Row) /\ Len(rows') = Len(rows) + 1 /\ Len(rows') <= MaxDevices
      /\ rows'[Len(rows')] = r
      /\ \A d \in 1..Len(rows) : rows'[d] = rows[d]
  <2> HIDE DEF r
  <2> QED
    BY <1>1, StateType, BoundsAssumption DEF CreateDevice
<1>3. Len(rows') \in 0..MaxDevices
  BY <1>2, StateType, BoundsAssumption
<1>4. CASE proc[t].first
  <2> DEFINE m == Moved(proc[t], "default")
             q == WithDevice(m, Len(rows'))
  <2>1. /\ m \in Process /\ m.pc = "default" /\ m.for = proc[t].for /\ m.pub = proc[t].pub
        /\ m.priv = proc[t].priv /\ m.after = proc[t].after
    BY ProcType, SetPc DEF Pcs
  <2>2. Become(t, q)
    BY <1>4 DEF CreateDevice
  <2> HIDE DEF m
  <2>3. /\ q \in Process /\ q.pc = "default" /\ q.for = proc[t].for /\ q.pub = proc[t].pub
        /\ q.priv = proc[t].priv /\ q.dev = Len(rows') /\ q.after = proc[t].after
    BY <1>3, <2>1, SetDevice
  <2> HIDE DEF q
  <2>4. Now(t, "default", proc[t].for, proc[t].pub, proc[t].priv, Len(rows'), proc[t].after)
    BY <2>2, <2>3, ProcType, Becomes DEF Now
  <2> QED
    BY <1>1, <1>2, <1>4, <2>4
<1>5. CASE ~proc[t].first
  <2>1. NowRegistered(t, Len(rows'), "current")
    BY <1>3, <1>5, ProcType, RegisteredNow DEF CreateDevice, Pcs
  <2> QED
    BY <1>1, <1>2, <1>5, <2>1
<1> QED
  BY <1>4, <1>5

LEMMA SetFirstDefaultNow ==
    ASSUME TInv, NEW t \in Tabs, SetFirstDefault(t)
    PROVE  NowRegistered(t, proc[t].dev, "current")
BY ProcType, RegisteredNow DEF SetFirstDefault, Pcs

LEMMA RegenerateNow ==
    ASSUME TInv, NEW t \in Tabs, Regenerate(t)
    PROVE  Now(t, "put", "regenerate", keys + 1, keys + 1, 0, 0) /\ keys' = keys + 1
BY GenerateNow DEF Regenerate, Fors

LEMMA ChooseDeviceNow ==
    ASSUME TInv, NEW t \in Tabs, NEW d \in Ids, NEW pc \in {"delete", "choose"},
           ChooseDevice(t, d, pc)
    PROVE  Now(t, pc, "settings", 0, 0, d, 0) /\ d \in 1..Len(rows)
<1>1. pc \in Pcs /\ "settings" \in Fors /\ d \in 0..MaxDevices
  BY BoundsAssumption DEF Pcs, Fors, Ids
<1> QED
  BY <1>1, ProcType, StartDeviceNow DEF ChooseDevice

LEMMA CheckCurrentNow ==
    ASSUME TInv, NEW t \in Tabs, CheckCurrent(t)
    PROVE  NowAt(t, "remove") \/ NowIdle(t)
BY ProcType, GotoNow, EndNow DEF CheckCurrent, Pcs

LEMMA FindChosenNow ==
    ASSUME TInv, NEW t \in Tabs, FindChosen(t)
    PROVE  NowAt(t, "chosen") \/ NowIdle(t)
BY ProcType, GotoNow, EndNow DEF FindChosen, Pcs

LEMMA EndsNow ==
    ASSUME TInv, NEW t \in Tabs, Revoke(t) \/ Remove(t) \/ SetDefault(t) \/ Reload(t)
    PROVE  NowIdle(t)
BY ProcType, EndNow DEF Revoke, Remove, SetDefault, Reload

LEMMA FailsNow ==
    ASSUME TInv, NEW t \in Tabs, Fails(t)
    PROVE  NowFailed(t)
BY ProcType, FailedNow DEF Fails

(* a revocation or a deletion changes the status of a row, never to active *)
LEMMA StatusOnly ==
    ASSUME TInv, NEW t \in Tabs, Revoke(t) \/ Remove(t)
    PROVE  /\ rows' \in Seq(Row) /\ Len(rows') = Len(rows)
           /\ \A d \in 1..Len(rows) :
                /\ rows'[d].key = rows[d].key /\ rows'[d].after = rows[d].after
                /\ rows'[d].status # rows[d].status =>
                     \/ Revoke(t) /\ d = device[t] /\ rows'[d].status = "revoked"
                     \/ Remove(t) /\ Removable(d) /\ rows'[d].status = "deleted"
<1>1. ASSUME NEW d \in 1..Len(rows), NEW s \in {"revoked", "deleted"},
             rows' = [rows EXCEPT ![d].status = s]
      PROVE  /\ rows' \in Seq(Row) /\ Len(rows') = Len(rows)
             /\ \A e \in 1..Len(rows) :
                  /\ rows'[e].key = rows[e].key /\ rows'[e].after = rows[e].after
                  /\ rows'[e].status # rows[e].status => e = d /\ rows'[e].status = s
  <2>1. rows[d] \in Row /\ [rows[d] EXCEPT !.status = s] \in Row
    BY StateType DEF Row
  <2>2. rows' = [rows EXCEPT ![d] = [rows[d] EXCEPT !.status = s]]
    BY <1>1
  <2>3. /\ [rows[d] EXCEPT !.status = s].key = rows[d].key
        /\ [rows[d] EXCEPT !.status = s].after = rows[d].after
        /\ [rows[d] EXCEPT !.status = s].status = s
    BY <2>1 DEF Row
  <2> DEFINE r == [rows[d] EXCEPT !.status = s]
  <2> HIDE DEF r
  <2> QED
    BY <2>1, <2>2, <2>3, StateType DEF r
<1>2. CASE Revoke(t) /\ Exists(device[t])
  <2>1. rows' = [rows EXCEPT ![device[t]].status = "revoked"] /\ device[t] \in 1..Len(rows)
    BY <1>2 DEF Revoke, DeviceToRevoke, Exists
  <2> QED
    BY <1>1, <1>2, <2>1
<1>3. CASE Remove(t) /\ Removable(proc[t].dev)
  <2>1. /\ rows' = [rows EXCEPT ![proc[t].dev].status = "deleted"]
        /\ proc[t].dev \in 1..Len(rows)
    BY <1>3 DEF Remove, Removable, Exists
  <2>2. /\ rows' \in Seq(Row) /\ Len(rows') = Len(rows)
        /\ \A e \in 1..Len(rows) :
             /\ rows'[e].key = rows[e].key /\ rows'[e].after = rows[e].after
             /\ rows'[e].status # rows[e].status
                  => e = proc[t].dev /\ rows'[e].status = "deleted"
    BY <1>1, <2>1
  <2> QED
    BY <1>3, <2>2
<1>4. CASE rows' = rows
  BY <1>4, StateType
<1> QED
  BY <1>2, <1>3, <1>4 DEF Revoke, Remove, DeviceToRevoke

LEMMA GoodGrows ==
    ASSUME NEW p, NEW k \in Nat, NEW n \in Nat, NEW k2 \in Nat, NEW n2 \in Nat,
           GoodProc(p, k, n), k <= k2, n <= n2
    PROVE  GoodProc(p, k2, n2)
<1>1. p.pub \in 0..k2 /\ p.priv \in 0..k2 /\ p.dev \in 0..n2 /\ p.after \in 0..n2
  BY DEF GoodProc, WithPub, WithDev
<1> QED
  BY <1>1 DEF GoodProc, WithPub, WithDev

(* rows and keys may only be added *)
Grows == /\ keys' \in Nat /\ keys <= keys'
         /\ Len(rows') \in Nat /\ Len(rows) <= Len(rows')

ProcsGood == proc \in [Tabs -> Process] /\ \A t \in Tabs : GoodProc(proc[t], keys, Len(rows))

LEMMA GoodStep ==
    ASSUME TInv, Grows, NEW t \in Tabs, proc' \in [Tabs -> Process],
           \A u \in Tabs \ {t} : proc'[u] = proc[u],
           GoodProc(proc'[t], keys', Len(rows'))
    PROVE  ProcsGood'
<1>1. ASSUME NEW u \in Tabs \ {t}
      PROVE  GoodProc(proc[u], keys', Len(rows'))
  <2>1. GoodProc(proc[u], keys, Len(rows)) /\ keys \in Nat /\ Len(rows) \in Nat
    BY StateType DEF TInv
  <2> QED
    BY <2>1, GoodGrows DEF Grows
<1> QED
  BY <1>1 DEF ProcsGood

LEMMA GoodIdle ==
    ASSUME TInv, Grows, NEW t \in Tabs, NowIdle(t)
    PROVE  ProcsGood'
<1>1. GoodProc(proc'[t], keys', Len(rows'))
  BY IdleFields DEF NowIdle, Now, GoodProc, Grows, NoKey, NoDev, WithPub, WithDev
<1> QED
  BY <1>1, GoodStep DEF NowIdle, Now

LEMMA GoodStart ==
    ASSUME TInv, Grows, NEW t \in Tabs, NEW pc \in {"load", "naming", "answer"}, NEW for,
           Now(t, pc, for, 0, 0, 0, 0)
    PROVE  ProcsGood'
<1>1. GoodProc(proc'[t], keys', Len(rows'))
  BY DEF Now, GoodProc, Grows, NoKey, NoDev, WithPub, WithDev
<1> QED
  BY <1>1, GoodStep DEF Now

LEMMA GoodFailed ==
    ASSUME TInv, Grows, NEW t \in Tabs, NowFailed(t)
    PROVE  ProcsGood'
BY GoodStart, GoodIdle DEF NowFailed

LEMMA GoodPut ==
    ASSUME TInv, Grows, NEW t \in Tabs, NEW for \in {"migrate", "login", "regenerate"},
           NEW k \in 1..keys', NEW l \in 1..keys', Now(t, "put", for, k, l, 0, 0)
    PROVE  ProcsGood'
<1>1. GoodProc(proc'[t], keys', Len(rows'))
  BY DEF Now, GoodProc, Grows, NoKey, NoDev, WithPub, WithDev
<1> QED
  BY <1>1, GoodStep DEF Now

LEMMA GoodAt ==
    ASSUME TInv, Grows, NEW t \in Tabs, NEW pc \in Pcs \ {"idle"}, NowAt(t, pc),
           WithPub(pc) => WithPub(proc[t].pc), WithDev(pc) => WithDev(proc[t].pc),
           pc \in {"put", "set"} => proc[t].pc \in {"put", "set"}
    PROVE  ProcsGood'
<1>1. GoodProc(proc[t], keys', Len(rows'))
  BY StateType, GoodGrows DEF TInv, Grows
<1>2. GoodProc(proc'[t], keys', Len(rows'))
  BY <1>1 DEF NowAt, Now, GoodProc, WithPub, WithDev
<1> QED
  BY <1>2, GoodStep DEF NowAt, Now

LEMMA GoodPair ==
    ASSUME TInv, Grows, NEW t \in Tabs, NEW pc \in {"check", "register", "find"},
           NEW k \in 1..keys, NowWithPair(t, pc, k)
    PROVE  ProcsGood'
<1>1. GoodProc(proc[t], keys', Len(rows'))
  BY StateType, GoodGrows DEF TInv, Grows
<1>2. k \in 1..keys'
  BY StateType DEF Grows
<1>3. GoodProc(proc'[t], keys', Len(rows'))
  BY <1>1, <1>2 DEF NowWithPair, Now, GoodProc, Grows, NoKey, WithPub, WithDev
<1> QED
  BY <1>3, GoodStep DEF NowWithPair, Now

LEMMA GoodDevice ==
    ASSUME TInv, Grows, NEW t \in Tabs, NEW pc \in Pcs \ {"idle"}, ~WithPub(pc), NEW for,
           NEW d \in 1..Len(rows'), Now(t, pc, for, 0, 0, d, 0)
    PROVE  ProcsGood'
<1>1. GoodProc(proc'[t], keys', Len(rows'))
  BY DEF Now, GoodProc, Grows, NoKey, NoDev, WithPub, WithDev
<1> QED
  BY <1>1, GoodStep DEF Now

LEMMA GoodRegistered ==
    ASSUME TInv, Grows, NEW t \in Tabs, NEW pc \in {"seen", "current"},
           NEW d \in 1..Len(rows'), NowRegistered(t, d, pc)
    PROVE  ProcsGood'
<1> DEFINE next == IF proc[t].for = "regenerate" THEN "revoke" ELSE pc
<1>1. Now(t, next, proc[t].for, 0, 0, d, 0)
  BY DEF NowRegistered
<1>2. next \in Pcs \ {"idle"} /\ ~WithPub(next)
  BY DEF Pcs, WithPub
<1> HIDE DEF next
<1> QED
  BY <1>1, <1>2, GoodDevice

(* the conjuncts of TInv that are not about functions *)
StoreGood ==
    /\ rows \in Seq(Row) /\ Len(rows) <= MaxDevices
    /\ \A d \in 1..Len(rows) : rows[d].key \in 1..keys
    /\ default \in 0..Len(rows) /\ current \in 0..Len(rows)
    /\ sent \subseteq [dev : 1..Len(rows), key : Key \ {NoKey}, mixed : BOOLEAN]
    /\ keys \in Key
    /\ pub \in [Browsers -> 0..keys] /\ priv \in [Browsers -> 0..keys]
    /\ old \in [Browsers -> 0..keys]
    /\ device \in [Tabs -> 0..Len(rows)] /\ saved \in [Browsers -> 0..Len(rows)]
    /\ mixed \subseteq Browsers /\ torn \subseteq Browsers
    /\ faults \in 0..MaxFaults /\ acts \in 0..MaxActs

LEMMA Parts == TInv => StoreGood /\ ProcsGood /\ Len(rows) \in Nat /\ keys \in Nat
BY BoundsAssumption DEF TInv, TypeOK, StoreGood, ProcsGood, Key

LEMMA PartsPrime ==
    ASSUME StoreGood', ProcsGood'
    PROVE  TInv'
BY DEF TInv, TypeOK, StoreGood, ProcsGood, GoodProc, At, WithPub, WithDev

LEMMA Counters ==
    ASSUME TInv
    PROVE  /\ Act => acts' \in 0..MaxActs
           /\ Fault => faults' \in 0..MaxFaults
<1>1. acts \in 0..MaxActs /\ faults \in 0..MaxFaults
  BY DEF TInv, TypeOK
<1> QED
  BY <1>1, BoundsAssumption DEF Act, Fault

(* what is stored stays good when neither a row nor a key is added *)
Steady == UNCHANGED <<rows, keys>>

LEMMA SteadyGrows ==
    ASSUME TInv, Steady
    PROVE  Grows
BY StateType DEF Steady, Grows

(* what is stored stays good when a key is generated *)
LEMMA StoreKey ==
    ASSUME TInv, keys' = keys + 1, keys < MaxKeys,
           UNCHANGED <<server, pub, priv, old, session, marks>>,
           faults' \in 0..MaxFaults, acts' \in 0..MaxActs
    PROVE  /\ StoreGood' /\ keys + 1 \in 1..keys'
           /\ keys' \in Nat /\ keys <= keys' /\ Len(rows') \in Nat /\ Len(rows) <= Len(rows')
<1>1. /\ keys' \in Key /\ keys' \in Nat /\ keys <= keys' /\ keys + 1 \in 1..keys'
      /\ rows' = rows /\ Len(rows) \in Nat
  BY StateType, BoundsAssumption DEF Key, server
<1>2. (\A k \in 0..keys : k \in 0..keys') /\ (\A k \in 1..keys : k \in 1..keys')
  BY <1>1, StateType
<1>3. /\ pub \in [Browsers -> 0..keys] /\ priv \in [Browsers -> 0..keys]
      /\ old \in [Browsers -> 0..keys]
  BY DEF TInv, TypeOK
<1>4. /\ pub' \in [Browsers -> 0..keys'] /\ priv' \in [Browsers -> 0..keys']
      /\ old' \in [Browsers -> 0..keys']
  BY <1>2, <1>3
<1>5. \A d \in 1..Len(rows') : rows'[d].key \in 1..keys'
  BY <1>1, <1>2, StateType
<1> QED
  BY <1>1, <1>4, <1>5, Parts DEF StoreGood, server, session

LEMMA StorageStep ==
    ASSUME TInv, NEW t \in Tabs, Storage(t)
    PROVE  TInv'
<1>1. CASE Put(t)
  <2>1. proc[t].priv \in 0..keys
    BY DEF TInv, GoodProc, WithPub, WithDev
  <2>2. StoreGood'
    BY <1>1, <2>1, Parts, InAssumption DEF Put, StoreGood, server, session
  <2>3. ProcsGood'
    BY <1>1, SteadyGrows, PutNow, GoodAt DEF Put, Steady, server, At, WithPub, WithDev, Pcs
  <2> QED
    BY <2>2, <2>3, PartsPrime
<1>2. CASE SetItem(t)
  <2>1. proc[t].pub \in 1..keys
    BY <1>2, StateType DEF TInv, GoodProc, SetItem, At, NoKey, WithPub, WithDev
  <2>2. StoreGood'
    <3>1. /\ pub \in [Browsers -> 0..keys] /\ old \in [Browsers -> 0..keys]
          /\ proc[t].pub \in 0..keys /\ 0 \in 0..keys
      <4>1. pub \in [Browsers -> 0..keys] /\ old \in [Browsers -> 0..keys]
        BY DEF TInv, TypeOK
      <4>2. keys \in Nat
        BY StateType
      <4> QED
        BY <2>1, <4>1, <4>2
    <3>2. pub' \in [Browsers -> 0..keys]
      <4>1. pub' = [pub EXCEPT ![In[t]] = proc[t].pub]
        BY <1>2 DEF SetItem, PublicKey
      <4> QED
        BY <3>1, <4>1
    <3>3. old' \in [Browsers -> 0..keys]
      <4>1. old' = [old EXCEPT ![In[t]] = 0] \/ old' = old
        BY <1>2 DEF SetItem, NoKey
      <4> QED
        BY <3>1, <4>1
    <3>4. mixed' \subseteq Browsers /\ torn' \subseteq Browsers
      BY <1>2, InAssumption DEF SetItem, TInv, TypeOK
    <3>5. UNCHANGED <<server, keys, priv, session, faults, acts>>
      BY <1>2 DEF SetItem
    <3> QED
      BY <3>2, <3>3, <3>4, <3>5, Parts DEF StoreGood, server, session
  <2>3. Grows
    BY <1>2, SteadyGrows DEF SetItem, Steady, server
  <2>4. CASE Now(t, "load", "login", 0, 0, 0, 0)
    BY <2>2, <2>3, <2>4, GoodStart, PartsPrime
  <2>5. CASE NowWithPair(t, "check", proc[t].pub) \/ NowWithPair(t, "register", proc[t].pub)
    BY <2>1, <2>2, <2>3, <2>5, GoodPair, PartsPrime
  <2> QED
    BY <1>2, <2>4, <2>5, SetItemNow
<1>3. CASE PutFails(t)
  <2>2. StoreGood'
    BY <1>3, Parts, InAssumption, Counters DEF PutFails, StoreGood, server, storage, session
  <2>3. ProcsGood'
    BY <1>3, SteadyGrows, PutFailsNow, GoodStart, GoodIdle
       DEF PutFails, Steady, server, storage
  <2> QED
    BY <2>2, <2>3, PartsPrime
<1>4. CASE LoadPair(t)
  <2>1. CASE Stored(In[t]) /\ NowWithPair(t, "check", pub[In[t]]) /\ keys' = keys
    <3>1. pub[In[t]] \in 1..keys
      BY <2>1, StateType DEF Stored, NoKey
    <3>2. StoreGood'
      BY <1>4, <2>1, Parts DEF LoadPair, StoreGood, server, session
    <3>3. ProcsGood'
      BY <1>4, <2>1, <3>1, SteadyGrows, GoodPair DEF LoadPair, Steady, server
    <3> QED
      BY <3>2, <3>3, PartsPrime
  <2>2. CASE Now(t, "put", "login", keys + 1, keys + 1, 0, 0) /\ keys' = keys + 1
    <3>1. keys < MaxKeys
      BY <1>4, <2>2, StateType DEF LoadPair, Generate
    <3>2. /\ UNCHANGED <<server, pub, priv, old, session, marks>>
          /\ faults' \in 0..MaxFaults /\ acts' \in 0..MaxActs
      BY <1>4 DEF LoadPair, TInv, TypeOK
    <3>3. StoreGood' /\ Grows /\ keys + 1 \in 1..keys'
      BY <2>2, <3>1, <3>2, StoreKey DEF Grows
    <3>4. ProcsGood'
      BY <2>2, <3>3, GoodPut
    <3> QED
      BY <3>3, <3>4, PartsPrime
  <2> QED
    BY <1>4, <2>1, <2>2, LoadPairNow
<1>5. CASE LoadFails(t)
  <2>1. /\ UNCHANGED <<server, pub, priv, old, session, marks>>
        /\ keys < MaxKeys /\ keys' = keys + 1
        /\ faults' \in 0..MaxFaults /\ acts' \in 0..MaxActs
    BY <1>5, Counters DEF LoadFails, Generate, TInv, TypeOK
  <2>2. StoreGood' /\ Grows /\ keys + 1 \in 1..keys'
    BY <2>1, StoreKey DEF Grows
  <2>3. ProcsGood'
    BY <1>5, <2>2, LoadFailsNow, GoodPut
  <2> QED
    BY <2>2, <2>3, PartsPrime
<1> QED
  BY <1>1, <1>2, <1>3, <1>4, <1>5 DEF Storage

LEMMA LoginStep ==
    ASSUME TInv, NEW t \in Tabs, Login(t)
    PROVE  TInv'
<1>1. CASE Submit(t)
  <2>1. pub[In[t]] \in 0..keys /\ old[In[t]] \in 0..keys /\ keys \in Nat
    BY <1>1, StateType
  <2>2. StoreGood'
    BY <1>1, <2>1, Parts, InAssumption, Counters DEF Submit, StoreGood, server, storage, session
  <2>3. ProcsGood'
    BY <1>1, <2>1, SteadyGrows, SubmitNow, GoodStart, GoodPut DEF Submit, Steady, server, storage, NoKey
  <2> QED
    BY <2>2, <2>3, PartsPrime
<1>2. CASE CheckDevice(t)
  <2>2. StoreGood'
    BY <1>2, Parts, InAssumption, BoundsAssumption DEF CheckDevice, StoreGood, server, storage, session
  <2>3. ProcsGood'
    BY <1>2, SteadyGrows, CheckDeviceNow, GoodStart, GoodAt DEF CheckDevice, Steady, server, storage, session, At, WithPub, WithDev, Pcs
  <2> QED
    BY <2>2, <2>3, PartsPrime
<1>3. CASE NameDevice(t)
  <2>1. pub[In[t]] \in 1..keys
    BY <1>3, NameDeviceNow, StateType DEF Stored, NoKey
  <2>2. StoreGood'
    BY <1>3, <2>1, Parts, InAssumption, BoundsAssumption DEF NameDevice, StoreGood, server, storage, session
  <2>3. ProcsGood'
    BY <1>3, <2>1, SteadyGrows, NameDeviceNow, GoodPair DEF NameDevice, Steady, server, storage, session
  <2> QED
    BY <2>2, <2>3, PartsPrime
<1>4. CASE FindDevice(t)
  <2>2. StoreGood'
    BY <1>4, Parts, InAssumption, BoundsAssumption DEF FindDevice, StoreGood, server, storage, session
  <2>3. ProcsGood'
    BY <1>4, SteadyGrows, FindDeviceNow, GoodStart, GoodAt DEF FindDevice, Steady, server, storage, session, At, WithPub, WithDev, Pcs
  <2> QED
    BY <2>2, <2>3, PartsPrime
<1>5. CASE UpdateLastSeen(t)
  <2>2. StoreGood'
    BY <1>5, Parts, InAssumption, BoundsAssumption DEF UpdateLastSeen, StoreGood, server, storage, session
  <2>3. ProcsGood'
    BY <1>5, SteadyGrows, UpdateLastSeenNow, GoodAt, GoodFailed DEF UpdateLastSeen, Steady, server, storage, session, At, WithPub, WithDev, Pcs
  <2> QED
    BY <2>2, <2>3, PartsPrime
<1>6. CASE SetCurrent(t)
  <2>1. proc[t].dev \in 0..Len(rows)
    BY DEF TInv, GoodProc, WithPub, WithDev
  <2>2. StoreGood'
    BY <1>6, <2>1, Parts, InAssumption, BoundsAssumption DEF SetCurrent, StoreGood, storage, session
  <2>3. ProcsGood'
    BY <1>6, <2>1, SteadyGrows, SetCurrentNow, GoodAt DEF SetCurrent, Steady, storage, At, WithPub, WithDev, Pcs
  <2> QED
    BY <2>2, <2>3, PartsPrime
<1>7. CASE Answer(t)
  <2>1. proc[t].dev \in 0..Len(rows)
    BY DEF TInv, GoodProc, WithPub, WithDev
  <2>2. StoreGood'
    <3>1. device' \in [Tabs -> 0..Len(rows)] /\ saved' \in [Browsers -> 0..Len(rows)]
      <4>1. device \in [Tabs -> 0..Len(rows)] /\ saved \in [Browsers -> 0..Len(rows)]
        BY Parts DEF StoreGood
      <4> QED
        BY <1>7, <2>1, <4>1 DEF Answer, session
    <3> QED
      BY <1>7, <3>1, Parts DEF Answer, StoreGood, server, storage
  <2>3. ProcsGood'
    BY <1>7, <2>1, SteadyGrows, AnswerNow, GoodFailed, GoodIdle DEF Answer, Steady, server, storage
  <2> QED
    BY <2>2, <2>3, PartsPrime
<1> QED
  BY <1>1, <1>2, <1>3, <1>4, <1>5, <1>6, <1>7 DEF Login

LEMMA RegisterStep ==
    ASSUME TInv, NEW t \in Tabs, RegisterDevice(t)
    PROVE  TInv'
<1>1. CASE FindSameKey(t)
  <2>1. StoreGood'
    BY <1>1, Parts DEF FindSameKey, StoreGood, server, storage, session
  <2>2. Grows
    BY <1>1, SteadyGrows DEF FindSameKey, Steady, server, storage
  <2>3. CASE Now(t, "count", proc[t].for, proc[t].pub, proc[t].priv, proc[t].dev, Len(rows))
    <3>1. GoodProc(proc[t], keys', Len(rows')) /\ rows' = rows /\ WithPub(proc[t].pc)
      BY <1>1, <2>2, StateType, GoodGrows
         DEF TInv, Grows, FindSameKey, server, At, WithPub
    <3>2. GoodProc(proc'[t], keys', Len(rows'))
      BY <2>3, <3>1, StateType DEF Now, GoodProc, WithPub, WithDev
    <3> QED
      BY <2>1, <2>2, <2>3, <3>2, GoodStep, PartsPrime DEF Now
  <2>4. ASSUME NEW d \in SameKey(t), NowRegistered(t, d, "seen")
        PROVE  TInv'
    <3>1. d \in 1..Len(rows')
      BY <1>1 DEF SameKey, WithKey, FindSameKey, server
    <3> QED
      BY <2>1, <2>2, <2>4, <3>1, GoodRegistered, PartsPrime
  <2> QED
    BY <1>1, <2>3, <2>4, FindSameKeyNow
<1>2. CASE CountDevices(t)
  <2>1. StoreGood'
    BY <1>2, Parts DEF CountDevices, StoreGood, server, storage, session
  <2>2. ProcsGood'
    BY <1>2, SteadyGrows, CountDevicesNow, GoodAt
       DEF CountDevices, Steady, server, storage, At, WithPub, WithDev, Pcs
  <2> QED
    BY <2>1, <2>2, PartsPrime
<1>3. CASE CreateDevice(t)
  <2>1. /\ rows' \in Seq(Row) /\ Len(rows') = Len(rows) + 1 /\ Len(rows') <= MaxDevices
        /\ rows'[Len(rows')].key = proc[t].pub
        /\ \A d \in 1..Len(rows) : rows'[d] = rows[d]
    BY <1>3, CreateDeviceNow
  <2>2. GoodProc(proc[t], keys, Len(rows)) /\ WithPub(proc[t].pc) /\ keys' = keys
    BY <1>3 DEF TInv, CreateDevice, At, WithPub, storage
  <2>3. Grows
    BY <2>1, <2>2, StateType DEF Grows
  <2>4. \A d \in 1..Len(rows') : rows'[d].key \in 1..keys'
    <3>1. \A d \in 1..Len(rows') : d \in 1..Len(rows) \/ d = Len(rows')
      BY <2>1, StateType
    <3>2. proc[t].pub \in 1..keys
      BY <2>2, StateType DEF GoodProc, WithPub, NoKey, WithDev
    <3> QED
      BY <2>1, <2>2, <3>1, <3>2, StateType
  <2>5. StoreGood'
    <3>1. \A d \in 0..Len(rows) : d \in 0..Len(rows')
      BY <2>1, StateType
    <3>2. \A d \in 1..Len(rows) : d \in 1..Len(rows')
      BY <2>1, StateType
    <3>3. /\ default' \in 0..Len(rows') /\ current' \in 0..Len(rows')
          /\ device' \in [Tabs -> 0..Len(rows')] /\ saved' \in [Browsers -> 0..Len(rows')]
      BY <1>3, <3>1, Parts DEF CreateDevice, StoreGood, session
    <3>4. sent' \subseteq [dev : 1..Len(rows'), key : Key \ {NoKey}, mixed : BOOLEAN]
      BY <1>3, <3>2, Parts DEF CreateDevice, StoreGood
    <3> QED
      BY <1>3, <2>1, <2>4, <3>3, <3>4, Parts DEF CreateDevice, StoreGood, storage
  <2>6. CASE proc[t].first
    <3>1. Now(t, "default", proc[t].for, proc[t].pub, proc[t].priv, Len(rows'), proc[t].after)
      BY <1>3, <2>6, CreateDeviceNow
    <3>2. GoodProc(proc[t], keys', Len(rows')) /\ Len(rows') \in Nat /\ Len(rows') # 0
      BY <2>1, <2>2, <2>3, StateType, GoodGrows DEF Grows
    <3>3. GoodProc(proc'[t], keys', Len(rows'))
      BY <3>1, <3>2 DEF Now, GoodProc, NoDev, WithPub, WithDev
    <3> QED
      BY <2>3, <2>5, <3>1, <3>3, GoodStep, PartsPrime DEF Now
  <2>7. CASE ~proc[t].first
    <3>1. NowRegistered(t, Len(rows'), "current")
      BY <1>3, <2>7, CreateDeviceNow
    <3>2. Len(rows') \in 1..Len(rows')
      BY <2>1, StateType
    <3> QED
      BY <2>3, <2>5, <3>1, <3>2, GoodRegistered, PartsPrime
  <2> QED
    BY <2>6, <2>7
<1>4. CASE SetFirstDefault(t)
  <2>1. proc[t].dev \in 1..Len(rows) /\ rows' = rows
    BY <1>4, StateType DEF TInv, GoodProc, SetFirstDefault, At, NoDev, WithPub, WithDev
  <2>2. StoreGood'
    BY <1>4, <2>1, Parts DEF SetFirstDefault, StoreGood, storage, session
  <2>3. ProcsGood'
    BY <1>4, <2>1, SteadyGrows, SetFirstDefaultNow, GoodRegistered
       DEF SetFirstDefault, Steady, storage
  <2> QED
    BY <2>2, <2>3, PartsPrime
<1> QED
  BY <1>1, <1>2, <1>3, <1>4 DEF RegisterDevice

LEMMA SettingsStep ==
    ASSUME TInv, NEW t \in Tabs, Settings(t)
    PROVE  TInv'
<1>1. CASE Regenerate(t)
  <2>1. /\ UNCHANGED <<server, pub, priv, old, session, marks>>
        /\ keys < MaxKeys /\ keys' = keys + 1
        /\ faults' \in 0..MaxFaults /\ acts' \in 0..MaxActs
    BY <1>1, Counters DEF Regenerate, Generate, TInv, TypeOK
  <2>2. StoreGood' /\ Grows /\ keys + 1 \in 1..keys'
    BY <2>1, StoreKey DEF Grows
  <2>3. ProcsGood'
    BY <1>1, <2>2, RegenerateNow, GoodPut
  <2> QED
    BY <2>2, <2>3, PartsPrime
<1>2. CASE Revoke(t) \/ Remove(t)
  <2>1. /\ rows' \in Seq(Row) /\ Len(rows') = Len(rows)
        /\ \A d \in 1..Len(rows) : rows'[d].key = rows[d].key
    BY <1>2, StatusOnly
  <2>2. StoreGood'
    BY <1>2, <2>1, Parts DEF Revoke, Remove, StoreGood, storage, session
  <2>3. Grows
    BY <1>2, <2>1, StateType DEF Revoke, Remove, storage, Grows
  <2> QED
    BY <1>2, <2>2, <2>3, EndsNow, GoodIdle, PartsPrime
<1>3. ASSUME NEW d \in Ids, NEW pc \in {"delete", "choose"}, ChooseDevice(t, d, pc)
      PROVE  TInv'
  <2>1. /\ Now(t, pc, "settings", 0, 0, d, 0) /\ d \in 1..Len(rows)
        /\ pc \in Pcs \ {"idle"} /\ ~WithPub(pc)
    BY <1>3, ChooseDeviceNow DEF Pcs, WithPub
  <2>2. StoreGood'
    BY <1>3, Parts, Counters DEF ChooseDevice, StoreGood, server, storage, session
  <2>3. Grows /\ rows' = rows
    BY <1>3, SteadyGrows DEF ChooseDevice, Steady, server, storage
  <2> QED
    BY <2>1, <2>2, <2>3, GoodDevice, PartsPrime
<1>4. CASE CheckCurrent(t)
  <2>2. StoreGood'
    BY <1>4, Parts, InAssumption, BoundsAssumption DEF CheckCurrent, StoreGood, server, storage, session
  <2>3. ProcsGood'
    BY <1>4, SteadyGrows, CheckCurrentNow, GoodAt, GoodIdle DEF CheckCurrent, Steady, server, storage, session, At, WithPub, WithDev, Pcs
  <2> QED
    BY <2>2, <2>3, PartsPrime
<1>5. CASE FindChosen(t)
  <2>2. StoreGood'
    BY <1>5, Parts, InAssumption, BoundsAssumption DEF FindChosen, StoreGood, server, storage, session
  <2>3. ProcsGood'
    BY <1>5, SteadyGrows, FindChosenNow, GoodAt, GoodIdle DEF FindChosen, Steady, server, storage, session, At, WithPub, WithDev, Pcs
  <2> QED
    BY <2>2, <2>3, PartsPrime
<1>6. CASE SetDefault(t)
  <2>1. proc[t].dev \in 0..Len(rows)
    BY DEF TInv, GoodProc, WithPub, WithDev
  <2>2. StoreGood'
    BY <1>6, <2>1, Parts, InAssumption, BoundsAssumption DEF SetDefault, StoreGood, storage, session
  <2>3. ProcsGood'
    BY <1>6, <2>1, SteadyGrows, EndsNow, GoodIdle DEF SetDefault, Steady, storage
  <2> QED
    BY <2>2, <2>3, PartsPrime
<1> QED
  BY <1>1, <1>2, <1>3, <1>4, <1>5, <1>6 DEF Settings

LEMMA PageStep ==
    ASSUME TInv, NEW t \in Tabs, Page(t)
    PROVE  TInv'
<1>1. CASE Fails(t)
  <2>2. StoreGood'
    BY <1>1, Parts, InAssumption, Counters DEF Fails, StoreGood, server, storage, session
  <2>3. ProcsGood'
    BY <1>1, SteadyGrows, FailsNow, GoodFailed DEF Fails, Steady, server, storage, session
  <2> QED
    BY <2>2, <2>3, PartsPrime
<1>2. CASE Reload(t)
  <2>2. StoreGood'
    BY <1>2, Parts, InAssumption, Counters DEF Reload, StoreGood, server, storage
  <2>3. ProcsGood'
    BY <1>2, SteadyGrows, EndsNow, GoodIdle DEF Reload, Steady, server, storage
  <2> QED
    BY <2>2, <2>3, PartsPrime
<1>3. CASE SaveAuthState(t)
  <2>1. StoreGood'
    BY <1>3, Parts, InAssumption DEF SaveAuthState, StoreGood, server, storage
  <2>2. ProcsGood'
    BY <1>3, Parts DEF SaveAuthState, ProcsGood, server, storage
  <2> QED
    BY <2>1, <2>2, PartsPrime
<1>4. CASE Logout(t)
  <2>1. StoreGood'
    <3>1. NoDev \in 0..Len(rows)
      BY Parts DEF NoDev
    <3> QED
      BY <1>4, <3>1, Parts, Counters DEF Logout, StoreGood, server, storage
  <2>2. ProcsGood'
    BY <1>4, Parts DEF Logout, ProcsGood, server, storage
  <2> QED
    BY <2>1, <2>2, PartsPrime
<1>5. CASE Send(t)
  <2>1. [dev |-> device[t], key |-> priv[In[t]], mixed |-> In[t] \in mixed]
          \in [dev : 1..Len(rows), key : Key \ {NoKey}, mixed : BOOLEAN]
    BY <1>5, StateType DEF Send, Exists, Stored
  <2>2. StoreGood'
    BY <1>5, <2>1, Parts, Counters DEF Send, StoreGood, storage, session
  <2>3. ProcsGood'
    BY <1>5, Parts DEF Send, ProcsGood, storage
  <2> QED
    BY <2>2, <2>3, PartsPrime
<1> QED
  BY <1>1, <1>2, <1>3, <1>4, <1>5 DEF Page

LEMMA TypeStep ==
    ASSUME TInv, [Next]_vars
    PROVE  TInv'
<1>1. CASE UNCHANGED vars
  BY <1>1 DEF vars, server, storage, session, TInv, TypeOK, At
<1> QED
  BY <1>1, StorageStep, LoginStep, RegisterStep, SettingsStep, PageStep DEF Next

(* in the first states nobody is logged in, or the known browser is *)
LEMMA First ==
    ASSUME NEW loggedIn \in SUBSET {Known}
    PROVE  LET n == Cardinality(loggedIn)
           IN  /\ (n = 0 /\ loggedIn = {}) \/ (n = 1 /\ loggedIn = {Known})
               /\ Cardinality(Legacy) \in Nat /\ n + Cardinality(Legacy) \in Key
<1>1. Cardinality({}) = 0 /\ Cardinality({Known}) = 1
  BY FS_EmptySet, FS_Singleton
<1>2. Cardinality(Legacy) \in Nat
  BY StartAssumption, FS_CardinalityType
<1>3. loggedIn = {} \/ loggedIn = {Known}
  OBVIOUS
<1> QED
  <2>1. Cardinality(Legacy) + 1 <= MaxKeys /\ MaxKeys \in Nat
    BY <1>2, BoundsAssumption
  <2>2. CASE loggedIn = {}
    BY <1>1, <1>2, <2>1, <2>2 DEF Key
  <2>3. CASE loggedIn = {Known}
    BY <1>1, <1>2, <2>1, <2>3 DEF Key
  <2> QED
    BY <1>3, <2>2, <2>3

LEMMA TypeInit == Init => TInv
<1> SUFFICES ASSUME NEW loggedIn \in SUBSET {Known}, NEW had \in Pairs(Cardinality(loggedIn)),
                    Start(loggedIn, had)
             PROVE  TInv
  BY DEF Init
<1> DEFINE n == Cardinality(loggedIn)
           One(b) == IF b \in loggedIn THEN 1 ELSE 0
<1>1. /\ (n = 0 /\ loggedIn = {}) \/ (n = 1 /\ loggedIn = {Known})
      /\ keys = n + Cardinality(Legacy) /\ keys \in Key /\ keys \in Nat /\ n <= keys
  BY First, BoundsAssumption DEF Start, Key
<1>2. \A b : One(b) \in 0..n
  BY <1>1
<1>3. had \in [Legacy -> 1..keys]
  BY <1>1, First DEF Pairs
<1>4. /\ rows \in Seq(Row) /\ Len(rows) = n
      /\ \A d \in 1..Len(rows) : rows[d].key \in 1..keys
  <2>1. CASE n = 0
    BY <1>1, <2>1 DEF Start
  <2>2. CASE n = 1
    <3> DEFINE r == [key |-> 1, status |-> "active", after |-> 0]
    <3>1. r \in Row /\ r.key = 1
      BY <1>1, <2>2, BoundsAssumption DEF Row, Key
    <3>2. rows = <<r>>
      BY <2>2 DEF Start
    <3> HIDE DEF r
    <3>3. rows \in Seq(Row) /\ Len(rows) = 1 /\ rows[1].key = 1
      BY <3>1, <3>2
    <3> QED
      BY <1>1, <2>2, <3>3
  <2> QED
    BY <1>1, <2>1, <2>2
<1>5. proc = [t \in Tabs |-> Idle] /\ mixed = {} /\ torn = {} /\ faults = 0 /\ acts = 0 /\ sent = {}
      /\ default = n /\ current = n
  BY DEF Start
<1>6. ProcsGood
  BY <1>1, <1>4, <1>5, IdleFields DEF ProcsGood, GoodProc, WithPub, WithDev
<1>7. /\ pub \in [Browsers -> 0..keys] /\ priv \in [Browsers -> 0..keys]
      /\ old \in [Browsers -> 0..keys]
  <2>1. /\ pub = [b \in Browsers |-> IF b \in Legacy THEN had[b] ELSE One(b)]
        /\ priv = [b \in Browsers |-> One(b)]
        /\ old = [b \in Browsers |-> IF b \in Legacy THEN had[b] ELSE NoKey]
    BY DEF Start
  <2> HIDE DEF One
  <2> QED
    BY <1>1, <1>2, <1>3, <2>1 DEF NoKey
<1>8. device \in [Tabs -> 0..n] /\ saved \in [Browsers -> 0..n]
  <2>1. device = [t \in Tabs |-> One(In[t])] /\ saved = [b \in Browsers |-> One(b)]
    BY DEF Start
  <2> HIDE DEF One
  <2> QED
    BY <1>2, <2>1
<1>9. n <= MaxDevices /\ n \in 0..n
  BY <1>1, BoundsAssumption
<1> HIDE DEF n
<1> QED
  BY <1>1, <1>4, <1>5, <1>6, <1>7, <1>8, <1>9, BoundsAssumption
     DEF TInv, TypeOK, ProcsGood, GoodProc, At

(* Every reachable state is well formed, whatever the tabs, browsers and bounds: *)
(* devices named exist, keys stored were generated, and a function that has      *)
(* ended leaves none of its locals behind.                                       *)
THEOREM TypeCorrect == Spec => []TypeOK
<1>1. Spec => []TInv
  BY TypeInit, TypeStep, PTL DEF Spec
<1>2. TInv => TypeOK
  BY DEF TInv
<1> QED
  BY <1>1, <1>2, PTL

--------------------------------------------------------------------------------
(* What a step can change *)

Step(t) == Storage(t) \/ Login(t) \/ RegisterDevice(t) \/ Settings(t) \/ Page(t)

(* the rows, the default device and the functions that register one *)
Frame(t) ==
    /\ proc' \in [Tabs -> Process]
    /\ \A u \in Tabs \ {t} : proc'[u] = proc[u]
    /\ rows' = rows \/ CreateDevice(t) \/ Revoke(t) \/ Remove(t)
    /\ default' = default \/ SetFirstDefault(t) \/ SetDefault(t)
    /\ faults' = faults \/ faults' = faults + 1
    /\ proc'[t] = proc[t] \/ proc'[t].pc \notin {"count", "create", "default"}
         \/ FindSameKey(t) \/ CountDevices(t) \/ CreateDevice(t)
    /\ At(t, "default") => \/ SetFirstDefault(t)
                           \/ Fails(t) /\ faults' = faults + 1
                           \/ proc'[t] = proc[t]

LEMMA StorageFrame ==
    ASSUME TInv, NEW t \in Tabs, Storage(t)
    PROVE  Frame(t)
<1>1. CASE Put(t)
  BY <1>1, PutNow DEF Put, Fault, Frame, Now, NowAt, NowIdle, NowFailed, NowWithPair, NowRegistered, At, server
<1>2. CASE SetItem(t)
  BY <1>2, SetItemNow DEF SetItem, Fault, Frame, Now, NowAt, NowIdle, NowFailed, NowWithPair, NowRegistered, At, server
<1>3. CASE PutFails(t)
  BY <1>3, PutFailsNow DEF PutFails, Fault, Frame, Now, NowAt, NowIdle, NowFailed, NowWithPair, NowRegistered, At, server
<1>4. CASE LoadPair(t)
  BY <1>4, LoadPairNow DEF LoadPair, Fault, Frame, Now, NowAt, NowIdle, NowFailed, NowWithPair, NowRegistered, At, server
<1>5. CASE LoadFails(t)
  BY <1>5, LoadFailsNow DEF LoadFails, Fault, Frame, Now, NowAt, NowIdle, NowFailed, NowWithPair, NowRegistered, At, server
<1> QED
  BY <1>1, <1>2, <1>3, <1>4, <1>5 DEF Storage

LEMMA LoginFrame ==
    ASSUME TInv, NEW t \in Tabs, Login(t)
    PROVE  Frame(t)
<1>1. CASE Submit(t)
  BY <1>1, SubmitNow DEF Submit, Fault, Frame, Now, NowAt, NowIdle, NowFailed, NowWithPair, NowRegistered, At, server
<1>2. CASE CheckDevice(t)
  BY <1>2, CheckDeviceNow DEF CheckDevice, Fault, Frame, Now, NowAt, NowIdle, NowFailed, NowWithPair, NowRegistered, At, server
<1>3. CASE NameDevice(t)
  BY <1>3, NameDeviceNow DEF NameDevice, Fault, Frame, Now, NowAt, NowIdle, NowFailed, NowWithPair, NowRegistered, At, server
<1>4. CASE FindDevice(t)
  BY <1>4, FindDeviceNow DEF FindDevice, Fault, Frame, Now, NowAt, NowIdle, NowFailed, NowWithPair, NowRegistered, At, server
<1>5. CASE UpdateLastSeen(t)
  BY <1>5, UpdateLastSeenNow DEF UpdateLastSeen, Fault, Frame, Now, NowAt, NowIdle, NowFailed, NowWithPair, NowRegistered, At, server
<1>6. CASE SetCurrent(t)
  BY <1>6, SetCurrentNow DEF SetCurrent, Fault, Frame, Now, NowAt, NowIdle, NowFailed, NowWithPair, NowRegistered, At, server
<1>7. CASE Answer(t)
  BY <1>7, AnswerNow DEF Answer, Fault, Frame, Now, NowAt, NowIdle, NowFailed, NowWithPair, NowRegistered, At, server
<1> QED
  BY <1>1, <1>2, <1>3, <1>4, <1>5, <1>6, <1>7 DEF Login

LEMMA RegisterDeviceFrame ==
    ASSUME TInv, NEW t \in Tabs, RegisterDevice(t)
    PROVE  Frame(t)
<1>1. CASE FindSameKey(t)
  BY <1>1, FindSameKeyNow DEF FindSameKey, Fault, Frame, Now, NowAt, NowIdle, NowFailed, NowWithPair, NowRegistered, At, server
<1>2. CASE CountDevices(t)
  BY <1>2, CountDevicesNow DEF CountDevices, Fault, Frame, Now, NowAt, NowIdle, NowFailed, NowWithPair, NowRegistered, At, server
<1>3. CASE CreateDevice(t)
  BY <1>3, CreateDeviceNow DEF CreateDevice, Fault, Frame, Now, NowAt, NowIdle, NowFailed, NowWithPair, NowRegistered, At, server
<1>4. CASE SetFirstDefault(t)
  BY <1>4, SetFirstDefaultNow DEF SetFirstDefault, Fault, Frame, Now, NowAt, NowIdle, NowFailed, NowWithPair, NowRegistered, At, server
<1> QED
  BY <1>1, <1>2, <1>3, <1>4 DEF RegisterDevice

LEMMA SettingsFrame ==
    ASSUME TInv, NEW t \in Tabs, Settings(t)
    PROVE  Frame(t)
<1>1. CASE Regenerate(t)
  BY <1>1, RegenerateNow DEF Regenerate, Fault, Frame, Now, NowAt, NowIdle, NowFailed, NowWithPair, NowRegistered, At, server
<1>2. CASE Revoke(t)
  BY <1>2, EndsNow DEF Revoke, Fault, Frame, Now, NowAt, NowIdle, NowFailed, NowWithPair, NowRegistered, At, server
<1>3. ASSUME NEW d \in Ids, NEW pc \in {"delete", "choose"}, ChooseDevice(t, d, pc)
      PROVE  Frame(t)
  BY <1>3, ChooseDeviceNow DEF ChooseDevice, Frame, Now, NowAt, NowIdle, NowFailed, NowWithPair, NowRegistered, At, server
<1>4. CASE CheckCurrent(t)
  BY <1>4, CheckCurrentNow DEF CheckCurrent, Fault, Frame, Now, NowAt, NowIdle, NowFailed, NowWithPair, NowRegistered, At, server
<1>5. CASE Remove(t)
  BY <1>5, EndsNow DEF Remove, Fault, Frame, Now, NowAt, NowIdle, NowFailed, NowWithPair, NowRegistered, At, server
<1>6. CASE FindChosen(t)
  BY <1>6, FindChosenNow DEF FindChosen, Fault, Frame, Now, NowAt, NowIdle, NowFailed, NowWithPair, NowRegistered, At, server
<1>7. CASE SetDefault(t)
  BY <1>7, EndsNow DEF SetDefault, Fault, Frame, Now, NowAt, NowIdle, NowFailed, NowWithPair, NowRegistered, At, server
<1> QED
  BY <1>1, <1>2, <1>3, <1>4, <1>5, <1>6, <1>7 DEF Settings

LEMMA PageFrame ==
    ASSUME TInv, NEW t \in Tabs, Page(t)
    PROVE  Frame(t)
<1>1. CASE Fails(t)
  BY <1>1, FailsNow DEF Fails, Fault, Frame, Now, NowAt, NowIdle, NowFailed, NowWithPair, NowRegistered, At, server
<1>2. CASE Reload(t)
  BY <1>2, EndsNow DEF Reload, Fault, Frame, Now, NowAt, NowIdle, NowFailed, NowWithPair, NowRegistered, At, server
<1>3. CASE SaveAuthState(t)
  BY <1>3, ProcType DEF SaveAuthState, Fault, Frame, Now, NowAt, NowIdle, NowFailed, NowWithPair, NowRegistered, At, server
<1>4. CASE Logout(t)
  BY <1>4, ProcType DEF Logout, Fault, Frame, Now, NowAt, NowIdle, NowFailed, NowWithPair, NowRegistered, At, server
<1>5. CASE Send(t)
  BY <1>5, ProcType DEF Send, Fault, Frame, Now, NowAt, NowIdle, NowFailed, NowWithPair, NowRegistered, At, server
<1> QED
  BY <1>1, <1>2, <1>3, <1>4, <1>5 DEF Page

LEMMA StepFrame ==
    ASSUME TInv, NEW t \in Tabs, Step(t)
    PROVE  Frame(t)
BY StorageFrame, LoginFrame, RegisterDeviceFrame, SettingsFrame, PageFrame DEF Step

LEMMA SomeStep ==
    ASSUME [Next]_vars
    PROVE  (\E t \in Tabs : Step(t)) \/ UNCHANGED vars
BY DEF Next, Step

--------------------------------------------------------------------------------
(* Twins *)

(* a handler between its look for the key and the creation found no active row *)
LookedFor ==
    \A t \in Tabs, i \in 1..Len(rows) :
        (At(t, "count") \/ At(t, "create")) /\ i <= proc[t].after /\ Active(i)
            => rows[i].key # proc[t].pub

TwinsInv == TInv /\ LookedFor /\ TwinsOnlyAtOnce

(* what a step does to the rows there are: a row keeps its key and what its creator *)
(* saw, and does not become active again                                            *)
LEMMA RowsKept ==
    ASSUME TInv, NEW t \in Tabs, Frame(t)
    PROVE  /\ Len(rows') \in Nat /\ Len(rows) <= Len(rows')
           /\ ~CreateDevice(t) => Len(rows') = Len(rows)
           /\ \A d \in 1..Len(rows) :
                /\ rows'[d].key = rows[d].key /\ rows'[d].after = rows[d].after
                /\ Active(d)' => Active(d)
                /\ rows'[d].status # rows[d].status => Revoke(t) \/ Remove(t)
<1>1. CASE rows' = rows
  BY <1>1, StateType DEF Active
<1>2. CASE CreateDevice(t)
  <2>1. /\ Len(rows') = Len(rows) + 1 /\ Len(rows) \in Nat
        /\ \A d \in 1..Len(rows) : rows'[d] = rows[d]
    BY <1>2, StateType, CreateDeviceNow
  <2> QED
    BY <1>2, <2>1 DEF Active
<1>3. CASE Revoke(t) \/ Remove(t)
  BY <1>3, StateType, StatusOnly DEF Active
<1> QED
  BY <1>1, <1>2, <1>3 DEF Frame

LEMMA LookedForStep ==
    ASSUME TwinsInv, NEW t \in Tabs, Frame(t)
    PROVE  LookedFor'
<1> SUFFICES ASSUME NEW u \in Tabs, NEW i \in 1..Len(rows'),
                    (At(u, "count") \/ At(u, "create"))', i <= proc'[u].after, Active(i)'
             PROVE  rows'[i].key # proc'[u].pub
  BY DEF LookedFor
<1> USE DEF TwinsInv
<1>1. CASE proc'[u] = proc[u]
  <2>1. i <= proc[u].after /\ proc[u].after \in 0..Len(rows)
    BY <1>1 DEF TInv, GoodProc
  <2>2. i \in 1..Len(rows)
    BY <2>1, StateType
  <2>3. rows'[i].key = rows[i].key /\ Active(i)
    BY <2>2, RowsKept
  <2> QED
    BY <1>1, <2>1, <2>2, <2>3 DEF LookedFor, At
<1>2. CASE u = t /\ FindSameKey(t)
  <2>1. rows' = rows
    BY <1>2 DEF FindSameKey, server
  <2>2. SameKey(t) = {} /\ proc'[t].pub = proc[t].pub
    BY <1>2, FindSameKeyNow DEF Now, NowRegistered, At
  <2> QED
    BY <1>2, <2>1, <2>2 DEF SameKey, WithKey, Exists, Active
<1>3. CASE u = t /\ CountDevices(t)
  <2>1. rows' = rows /\ At(t, "count")
    BY <1>3 DEF CountDevices, server
  <2>2. proc'[t].pub = proc[t].pub /\ proc'[t].after = proc[t].after
    BY <1>3, CountDevicesNow DEF Now, NowAt
  <2> QED
    BY <1>3, <2>1, <2>2 DEF LookedFor, Active
<1>4. CASE u = t /\ CreateDevice(t)
  BY <1>4, CreateDeviceNow DEF Now, NowRegistered, At
<1> QED
  BY <1>1, <1>2, <1>3, <1>4 DEF Frame, At

LEMMA TwinsStep ==
    ASSUME TwinsInv, NEW t \in Tabs, Frame(t)
    PROVE  TwinsOnlyAtOnce'
<1> SUFFICES ASSUME NEW i \in 1..Len(rows'), NEW j \in 1..Len(rows'),
                    i < j, rows'[i].key = rows'[j].key, Active(i)'
             PROVE  rows'[j].after < i
  BY DEF TwinsOnlyAtOnce
<1> USE DEF TwinsInv
<1>1. CASE j <= Len(rows)
  <2>1. i \in 1..Len(rows) /\ j \in 1..Len(rows)
    BY <1>1, StateType, RowsKept
  <2> QED
    BY <2>1, RowsKept DEF TwinsOnlyAtOnce
<1>2. CASE j > Len(rows)
  <2>1. CreateDevice(t)
    BY <1>2, RowsKept, StateType
  <2>2. /\ Len(rows') = Len(rows) + 1 /\ rows'[Len(rows')].key = proc[t].pub
        /\ rows'[Len(rows')].after = proc[t].after
    BY <2>1, CreateDeviceNow
  <2>3. j = Len(rows') /\ i \in 1..Len(rows)
    <3>1. Len(rows) \in Nat
      BY StateType
    <3> QED
      BY <1>2, <2>2, <3>1
  <2>4. rows[i].key = proc[t].pub /\ Active(i) /\ At(t, "create")
    BY <2>1, <2>2, <2>3, RowsKept DEF CreateDevice
  <2>5. ~(i <= proc[t].after) /\ proc[t].after \in Nat
    BY <2>3, <2>4, ProcType DEF LookedFor
  <2> QED
    BY <2>2, <2>3, <2>5
<1> QED
  BY <1>1, <1>2, StateType, RowsKept

(* An active device's key is taken again only by a request that looked for it    *)
(* before that device was created: findFirst and create of registerDevice are    *)
(* apart, and nothing but two requests at once makes twins.                      *)
THEOREM TwinsCorrect == Spec => []TwinsOnlyAtOnce
<1>1. Init => TwinsInv
  <2> SUFFICES ASSUME Init PROVE LookedFor /\ TwinsOnlyAtOnce
    BY TypeInit DEF TwinsInv
  <2>1. PICK loggedIn \in SUBSET {Known} :
          \E had \in Pairs(Cardinality(loggedIn)) : Start(loggedIn, had)
    BY DEF Init
  <2>2. Len(rows) <= 1 /\ Len(rows) \in Nat /\ proc = [t \in Tabs |-> Idle]
    BY <2>1, First DEF Start
  <2> QED
    BY <2>2, IdleFields DEF LookedFor, TwinsOnlyAtOnce, At
<1>2. TwinsInv /\ [Next]_vars => TwinsInv'
  <2> SUFFICES ASSUME TwinsInv, [Next]_vars PROVE TwinsInv'
    OBVIOUS
  <2>1. TInv'
    BY TypeStep DEF TwinsInv
  <2>2. CASE UNCHANGED vars
    BY <2>1, <2>2 DEF TwinsInv, LookedFor, TwinsOnlyAtOnce, Active, At, vars, server
  <2>3. CASE \E t \in Tabs : Step(t)
    BY <2>1, <2>3, StepFrame, LookedForStep, TwinsStep DEF TwinsInv
  <2> QED
    BY <2>2, <2>3, SomeStep
<1>3. TwinsInv => TwinsOnlyAtOnce
  BY DEF TwinsInv
<1> QED
  BY <1>1, <1>2, <1>3, PTL DEF Spec

--------------------------------------------------------------------------------
(* The default device *)

(* who creates the first row knows it is the first *)
FirstIsFirst ==
    \A t \in Tabs : Len(rows) = 0 /\ At(t, "create") => proc[t].first

(* a default device that is missing is about to be written *)
FirstDue ==
    faults = 0 /\ Len(rows) # 0 /\ default = NoDev => \E t \in Tabs : At(t, "default")

DefaultInv == TInv /\ FirstIsFirst /\ FirstDue

LEMMA FirstIsFirstStep ==
    ASSUME DefaultInv, NEW t \in Tabs, Frame(t)
    PROVE  FirstIsFirst'
<1> SUFFICES ASSUME NEW u \in Tabs, Len(rows') = 0, At(u, "create")'
             PROVE  proc'[u].first
  BY DEF FirstIsFirst
<1> USE DEF DefaultInv
<1>1. Len(rows) = 0
  <2>1. Len(rows) \in Nat
    BY StateType
  <2> QED
    BY <2>1, RowsKept
<1>2. CASE proc'[u] = proc[u]
  BY <1>1, <1>2 DEF FirstIsFirst, At
<1>3. CASE u = t /\ CountDevices(t)
  <2>1. {d \in 1..Len(rows) : Active(d)} = {}
    BY <1>1
  <2>2. IsFirst(Cardinality({d \in 1..Len(rows) : Active(d)}))
    BY <2>1, FS_EmptySet DEF IsFirst
  <2> QED
    BY <1>3, <2>2, CountDevicesNow
<1>4. CASE u = t /\ FindSameKey(t)
  BY <1>4, FindSameKeyNow DEF Now, NowRegistered, At
<1>5. CASE u = t /\ CreateDevice(t)
  BY <1>5, CreateDeviceNow DEF Now, NowRegistered, At
<1> QED
  BY <1>2, <1>3, <1>4, <1>5 DEF Frame, At

LEMMA FirstDueStep ==
    ASSUME DefaultInv, NEW t \in Tabs, Frame(t)
    PROVE  FirstDue'
<1> SUFFICES ASSUME faults' = 0, Len(rows') # 0, default' = NoDev
             PROVE  \E u \in Tabs : At(u, "default")'
  BY DEF FirstDue
<1> USE DEF DefaultInv
<1>1. faults = 0 /\ faults' # faults + 1
  BY BoundsAssumption DEF TInv, TypeOK, Frame
<1>2. ~SetFirstDefault(t) /\ ~SetDefault(t) /\ default = NoDev
  <2>1. SetFirstDefault(t) \/ SetDefault(t) => default' = proc[t].dev /\ WithDev(proc[t].pc)
    BY DEF SetFirstDefault, SetDefault, At, WithDev
  <2>2. WithDev(proc[t].pc) => proc[t].dev # NoDev
    BY DEF TInv, GoodProc
  <2> QED
    BY <2>1, <2>2 DEF Frame
<1>3. CASE Len(rows) # 0
  <2>1. PICK u \in Tabs : At(u, "default")
    BY <1>1, <1>2, <1>3 DEF FirstDue
  <2>2. proc'[u] = proc[u]
    BY <1>1, <1>2, <2>1 DEF Frame
  <2> QED
    BY <2>1, <2>2 DEF At
<1>4. CASE Len(rows) = 0
  <2>1. CreateDevice(t)
    BY <1>4, RowsKept
  <2>2. proc[t].first
    BY <1>4, <2>1 DEF FirstIsFirst, CreateDevice
  <2> QED
    BY <2>1, <2>2, CreateDeviceNow DEF Now, At
<1> QED
  BY <1>3, <1>4

(* As long as no request fails, a user with a device has a default one as soon   *)
(* as no handler is about to write it, whatever requests of other tabs came      *)
(* between counting the devices, creating the first and making it the default.   *)
THEOREM DefaultCorrect == Spec => []DefaultSet
<1>1. Init => DefaultInv
  <2> SUFFICES ASSUME Init PROVE FirstIsFirst /\ FirstDue
    BY TypeInit DEF DefaultInv
  <2>1. PICK loggedIn \in SUBSET {Known} :
          \E had \in Pairs(Cardinality(loggedIn)) : Start(loggedIn, had)
    BY DEF Init
  <2>2. proc = [t \in Tabs |-> Idle] /\ (Len(rows) # 0 => default = 1)
    BY <2>1, First DEF Start
  <2> QED
    BY <2>2, IdleFields DEF FirstIsFirst, FirstDue, At, NoDev
<1>2. DefaultInv /\ [Next]_vars => DefaultInv'
  <2> SUFFICES ASSUME DefaultInv, [Next]_vars PROVE DefaultInv'
    OBVIOUS
  <2>1. TInv'
    BY TypeStep DEF DefaultInv
  <2>2. CASE UNCHANGED vars
    BY <2>1, <2>2 DEF DefaultInv, FirstIsFirst, FirstDue, At, vars, server
  <2>3. CASE \E t \in Tabs : Step(t)
    BY <2>1, <2>3, StepFrame, FirstIsFirstStep, FirstDueStep DEF DefaultInv
  <2> QED
    BY <2>2, <2>3, SomeStep
<1>3. DefaultInv => DefaultSet
  <2> SUFFICES ASSUME DefaultInv, faults = 0, rows # <<>>,
                      \A t \in Tabs : ~At(t, "default"), default = NoDev
               PROVE  FALSE
    BY DEF DefaultSet
  <2>1. Len(rows) # 0
    BY StateType DEF DefaultInv
  <2> QED
    BY <2>1 DEF DefaultInv, FirstDue
<1> QED
  BY <1>1, <1>2, <1>3, PTL DEF Spec

--------------------------------------------------------------------------------
(* A step of a tab leaves the other tabs and the storage of other browsers alone *)

Local(t) ==
    /\ \A u \in Tabs \ {t} : device'[u] = device[u]
    /\ \A b \in Browsers \ {In[t]} :
         /\ pub'[b] = pub[b] /\ priv'[b] = priv[b] /\ old'[b] = old[b]
         /\ saved'[b] = saved[b]
         /\ (b \in mixed' <=> b \in mixed) /\ (b \in torn' <=> b \in torn)

LEMMA Stores ==
    ASSUME TInv
    PROVE  /\ pub \in [Browsers -> 0..keys] /\ priv \in [Browsers -> 0..keys]
           /\ old \in [Browsers -> 0..keys]
           /\ device \in [Tabs -> 0..Len(rows)] /\ saved \in [Browsers -> 0..Len(rows)]
BY DEF TInv, TypeOK

LEMMA StepLocal ==
    ASSUME TInv, NEW t \in Tabs, Step(t)
    PROVE  Local(t)
<1>1. CASE Storage(t)
  BY <1>1, Stores DEF Storage, Put, SetItem, PutFails, LoadPair, LoadFails, Local, session,
                          storage
<1>2. CASE Login(t)
  <2>1. CASE Submit(t)
    BY <2>1 DEF Submit, Local, session, storage
  <2>2. CASE Answer(t)
    BY <2>2, Stores DEF Answer, Local, session, storage
  <2>3. CASE UNCHANGED <<storage, session, marks>>
    BY <2>3 DEF Local, session, storage
  <2> QED
    BY <1>2, <2>1, <2>2, <2>3 DEF Login, CheckDevice, NameDevice, FindDevice, UpdateLastSeen,
                                 SetCurrent
<1>3. CASE RegisterDevice(t)
  <2>1. UNCHANGED <<storage, session, marks>>
    BY <1>3 DEF RegisterDevice, FindSameKey, CountDevices, CreateDevice, SetFirstDefault
  <2> QED
    BY <2>1 DEF Local, session, storage
<1>4. CASE Settings(t)
  <2>1. UNCHANGED <<pub, priv, old, session, marks>>
    BY <1>4 DEF Settings, Regenerate, Revoke, ChooseDevice, CheckCurrent, Remove, FindChosen,
                SetDefault, storage
  <2> QED
    BY <2>1 DEF Local, session
<1>5. CASE Page(t)
  BY <1>5, Stores DEF Page, Fails, Reload, SaveAuthState, Logout, Send, Local, session, storage
<1> QED
  BY <1>1, <1>2, <1>3, <1>4, <1>5 DEF Step

--------------------------------------------------------------------------------
(* Whole pairs *)

(* a tab of a browser that still has an old private key *)
Migrant(t) ==
    /\ device[t] = NoDev
    /\ At(t, "idle") \/ (Storing(t) /\ proc[t].for = "migrate")

(* whoever is between the two writes is alone there and has written its half *)
WholeTab(t) ==
    /\ Storing(t) => proc[t].pub = proc[t].priv
    /\ At(t, "set") => /\ priv[In[t]] = proc[t].priv
                       /\ \A u \in Tabs \ {t} : In[u] = In[t] => ~At(u, "set")

Whole(b) ==
    /\ old[b] # NoKey => /\ old[b] = pub[b] /\ saved[b] = NoDev
                         /\ \A t \in Tabs : In[t] = b => Migrant(t)
    /\ pub[b] # NoKey /\ priv[b] # NoKey /\ (\A t \in Tabs : In[t] = b => ~At(t, "set"))
         => pub[b] = priv[b]
    /\ \A t \in Tabs : In[t] = b => WholeTab(t)

WholeInv == TInv /\ \A b \in Browsers \ torn : Whole(b)

(* the tabs and the browser that took no part in a step stay as they were *)
LEMMA WholeElsewhere ==
    ASSUME WholeInv, NEW t \in Tabs, Frame(t), Local(t), NEW b \in Browsers \ torn', b # In[t]
    PROVE  Whole(b)'
<1>1. b \notin torn /\ Whole(b)
  BY DEF WholeInv, Local
<1>2. /\ pub'[b] = pub[b] /\ priv'[b] = priv[b] /\ old'[b] = old[b] /\ saved'[b] = saved[b]
      /\ \A u \in Tabs : In[u] = b => proc'[u] = proc[u] /\ device'[u] = device[u]
  BY DEF Local, Frame
<1> QED
  BY <1>1, <1>2 DEF Whole, WholeTab, Migrant, Storing, At

(* a step that writes neither half *)
LEMMA WholeHere ==
    ASSUME WholeInv, NEW t \in Tabs, Frame(t), Local(t), In[t] \notin torn,
           pub' = pub, priv' = priv, old' = old,
           Storing(t)' => proc'[t].pub = proc'[t].priv,
           At(t, "set")' => proc'[t] = proc[t],
           At(t, "set") /\ ~At(t, "set")' => pub[In[t]] \in {NoKey, proc[t].pub},
           old[In[t]] # NoKey => saved'[In[t]] = NoDev /\ Migrant(t)'
    PROVE  Whole(In[t])'
<1> DEFINE b == In[t]
<1>1. Whole(b)
  BY StateType DEF WholeInv
<1>2. \A u \in Tabs \ {t} : proc'[u] = proc[u] /\ device'[u] = device[u]
  BY DEF Local, Frame
<1>3. \A u \in Tabs : At(u, "set")' => At(u, "set") /\ proc'[u] = proc[u]
  BY <1>2 DEF At
<1>4. ASSUME NEW u \in Tabs, In[u] = b
      PROVE  WholeTab(u)'
  <2>1. WholeTab(u)
    BY <1>1, <1>4 DEF Whole
  <2>2. Storing(u)' => proc'[u].pub = proc'[u].priv
    BY <1>2, <2>1 DEF WholeTab, Storing
  <2> QED
    BY <1>3, <1>4, <2>1, <2>2 DEF WholeTab
<1>5. old[b] # NoKey => \A u \in Tabs : In[u] = b => Migrant(u)'
  BY <1>1, <1>2 DEF Whole, Migrant, Storing, At
<1>6. ASSUME pub[b] # NoKey, priv[b] # NoKey, \A u \in Tabs : In[u] = b => ~At(u, "set")'
      PROVE  pub[b] = priv[b]
  <2>1. CASE At(t, "set")
    BY <1>1, <1>6, <2>1 DEF Whole, WholeTab, Storing, At
  <2>2. CASE ~At(t, "set")
    <3>1. \A u \in Tabs : In[u] = b => ~At(u, "set")
      BY <1>2, <1>6, <2>2 DEF At
    <3> QED
      BY <1>1, <1>6, <3>1 DEF Whole
  <2> QED
    BY <2>1, <2>2
<1> QED
  BY <1>1, <1>4, <1>5, <1>6 DEF Whole

(* a step of a tab that is neither idle and logged out nor storing, and starts no *)
(* storing of its own                                                              *)
LEMMA WholeQuiet ==
    ASSUME WholeInv, NEW t \in Tabs, Frame(t), Local(t), In[t] \notin torn,
           pub' = pub, priv' = priv, old' = old,
           ~Storing(t), ~At(t, "idle") \/ device[t] # NoDev,
           Storing(t)' => At(t, "put")' /\ proc'[t].pub = proc'[t].priv
    PROVE  Whole(In[t])'
<1>1. Whole(In[t])
  BY StateType DEF WholeInv
<1>2. old[In[t]] = NoKey
  BY <1>1 DEF Whole, Migrant
<1> QED
  BY <1>2, WholeHere DEF Storing, At

LEMMA WholeStorage ==
    ASSUME WholeInv, NEW t \in Tabs, Frame(t), Local(t), Storage(t), In[t] \notin torn'
    PROVE  Whole(In[t])'
<1> DEFINE b == In[t]
<1> USE DEF WholeInv
<1>0. b \in Browsers /\ \A u \in Tabs \ {t} : proc'[u] = proc[u] /\ device'[u] = device[u]
  BY StateType DEF Frame, Local
<1>1. CASE Put(t)
  <2>1. /\ proc[t].pc = "put" /\ b \notin torn
        /\ pub' = pub /\ old' = old /\ saved' = saved /\ device' = device
        /\ priv'[b] = proc[t].priv
        /\ \A u \in Tabs \ {t} : In[u] = b => ~At(u, "set")
    BY <1>0, <1>1, Stores DEF Put, At, Others, session
  <2>2. /\ proc'[t].pc = "set" /\ proc'[t].pub = proc[t].pub /\ proc'[t].priv = proc[t].priv
        /\ proc'[t].for = proc[t].for
    BY <1>1, PutNow DEF NowAt, Now
  <2>3. Whole(b)
    BY <1>0, <2>1
  <2>4. proc[t].pub = proc[t].priv
    BY <2>1, <2>3 DEF Whole, WholeTab, Storing
  <2>5. \A u \in Tabs \ {t} : In[u] = b => ~At(u, "set")'
    BY <1>0, <2>1 DEF At
  <2>6. ASSUME NEW u \in Tabs, In[u] = b PROVE WholeTab(u)'
    <3>1. CASE u = t
      BY <2>1, <2>2, <2>4, <2>5, <3>1 DEF WholeTab, Storing, At
    <3>2. CASE u # t
      BY <1>0, <2>3, <2>5, <2>6, <3>2 DEF Whole, WholeTab, Storing, At
    <3> QED
      BY <3>1, <3>2
  <2>7. old[b] # NoKey => \A u \in Tabs : In[u] = b => Migrant(u)'
    BY <1>0, <2>1, <2>2, <2>3 DEF Whole, Migrant, Storing, At
  <2> QED
    BY <2>1, <2>2, <2>3, <2>6, <2>7 DEF Whole, At
<1>2. CASE SetItem(t)
  <2>1. /\ proc[t].pc = "set" /\ priv' = priv /\ pub'[b] = proc[t].pub
        /\ old'[b] = (IF proc[t].for = "migrate" THEN NoKey ELSE old[b])
    BY <1>0, <1>2, Stores DEF SetItem, PublicKey, At
  <2>2. proc'[t].pc \in {"load", "check", "register"}
    BY <1>2, SetItemNow DEF Now, NowWithPair
  <2>3. CASE b \notin torn
    <3>1. Whole(b)
      BY <1>0, <2>3
    <3>2. /\ pub'[b] = priv[b] /\ \A u \in Tabs \ {t} : In[u] = b => ~At(u, "set")
      BY <2>1, <3>1 DEF Whole, WholeTab, Storing, At
    <3>3. old'[b] = NoKey
      BY <2>1, <3>1 DEF Whole, Migrant, At
    <3>4. \A u \in Tabs : In[u] = b => ~At(u, "set")'
      BY <1>0, <2>2, <3>2 DEF At
    <3>5. ASSUME NEW u \in Tabs, In[u] = b PROVE WholeTab(u)'
      <4>1. Storing(u)' => u # t /\ Storing(u) /\ proc'[u] = proc[u]
        BY <1>0, <2>2 DEF Storing
      <4> QED
        BY <3>1, <3>4, <3>5, <4>1 DEF Whole, WholeTab
    <3> QED
      BY <2>1, <3>2, <3>3, <3>5 DEF Whole
  <2>4. CASE b \in torn
    <3>1. /\ pub'[b] = priv[b] /\ old'[b] = NoKey
          /\ \A u \in Tabs \ {t} : In[u] = b => ~Storing(u)
      BY <1>2, <2>4 DEF SetItem, StoredWhole, Others
    <3>2. \A u \in Tabs : In[u] = b => ~Storing(u)'
      BY <1>0, <2>2, <3>1 DEF Storing
    <3> QED
      BY <2>1, <3>1, <3>2 DEF Whole, WholeTab, Storing, At
  <2> QED
    BY <2>3, <2>4
<1>3. CASE PutFails(t)
  <2>1. /\ proc[t].pc = "put" /\ proc[t].for # "migrate" /\ b \notin torn
        /\ pub' = pub /\ priv' = priv /\ old' = old
    BY <1>0, <1>3 DEF PutFails, At, storage
  <2>2. proc'[t].pc = "idle"
    BY <1>3, <2>1, PutFailsNow DEF NowIdle, Now
  <2>3. old[b] = NoKey
    BY <1>0, <2>1 DEF Whole, Migrant, At
  <2> QED
    BY <2>1, <2>2, <2>3, WholeHere DEF Storing, At
<1>4. CASE LoadPair(t) \/ LoadFails(t)
  <2>1. /\ proc[t].pc = "load" /\ b \notin torn /\ pub' = pub /\ priv' = priv /\ old' = old
    BY <1>4 DEF LoadPair, LoadFails, At
  <2>2. \/ proc'[t].pc = "check"
        \/ proc'[t].pc = "put" /\ proc'[t].pub = proc'[t].priv
    BY <1>4, LoadPairNow, LoadFailsNow DEF Now, NowWithPair
  <2> QED
    BY <2>1, <2>2, WholeQuiet DEF Storing, At
<1> QED
  BY <1>1, <1>2, <1>3, <1>4 DEF Storage

LEMMA WholeLogin ==
    ASSUME WholeInv, NEW t \in Tabs, Frame(t), Local(t), Login(t) \/ RegisterDevice(t),
           In[t] \notin torn'
    PROVE  Whole(In[t])'
<1> DEFINE b == In[t]
<1> USE DEF WholeInv
<1>1. CASE Submit(t)
  <2>1. /\ proc[t].pc = "idle" /\ device[t] = NoDev /\ b \notin torn
        /\ pub' = pub /\ priv' = priv /\ old' = old /\ device' = device /\ saved' = saved
    BY <1>1 DEF Submit, At, storage, session
  <2>2. Whole(b)
    BY <2>1, StateType
  <2>3. CASE old[b] # NoKey
    <3>1. old[b] = pub[b] /\ saved[b] = NoDev
      BY <2>2, <2>3 DEF Whole
    <3>2. /\ proc'[t].pc = "put" /\ proc'[t].for = "migrate"
          /\ proc'[t].pub = proc'[t].priv
      BY <1>1, <2>3, <3>1, SubmitNow DEF Now
    <3> QED
      BY <2>1, <3>1, <3>2, WholeHere DEF Migrant, Storing, At
  <2>4. CASE old[b] = NoKey
    <3>1. proc'[t].pc = "load"
      BY <1>1, <2>4, SubmitNow DEF Now
    <3> QED
      BY <2>1, <2>4, <3>1, WholeHere DEF Storing, At
  <2> QED
    BY <2>3, <2>4
<1>2. CASE ~Submit(t)
  <2>1. /\ proc[t].pc \notin {"idle", "put", "set"} /\ b \notin torn
        /\ pub' = pub /\ priv' = priv /\ old' = old
    BY <1>2 DEF Login, CheckDevice, NameDevice, FindDevice, UpdateLastSeen, SetCurrent, Answer,
                RegisterDevice, FindSameKey, CountDevices, CreateDevice, SetFirstDefault, At,
                storage
  <2>2. proc'[t].pc \notin {"put", "set"}
    <3>1. CASE CheckDevice(t) \/ NameDevice(t) \/ FindDevice(t)
      BY <3>1, CheckDeviceNow, NameDeviceNow, FindDeviceNow DEF Now, NowAt, NowWithPair
    <3>2. CASE UpdateLastSeen(t) \/ SetCurrent(t) \/ Answer(t)
      BY <3>2, UpdateLastSeenNow, SetCurrentNow, AnswerNow DEF Now, NowAt, NowFailed, NowIdle
    <3>3. CASE RegisterDevice(t)
      BY <3>3, FindSameKeyNow, CountDevicesNow, CreateDeviceNow, SetFirstDefaultNow
         DEF RegisterDevice, Now, NowAt, NowRegistered, NowIdle, NowFailed
    <3> QED
      BY <1>2, <3>1, <3>2, <3>3 DEF Login
  <2> QED
    BY <2>1, <2>2, WholeQuiet DEF Storing, At
<1> QED
  BY <1>1, <1>2

LEMMA WholeSettings ==
    ASSUME WholeInv, NEW t \in Tabs, Frame(t), Local(t), Settings(t), In[t] \notin torn'
    PROVE  Whole(In[t])'
<1> USE DEF WholeInv
<1>1. /\ In[t] \notin torn /\ pub' = pub /\ priv' = priv /\ old' = old
      /\ ~Storing(t)
      /\ (~At(t, "idle") \/ device[t] # NoDev)
  BY DEF Settings, Regenerate, Revoke, ChooseDevice, CheckCurrent, Remove, FindChosen,
         SetDefault, storage, At, Storing
<1>2. CASE Regenerate(t)
  <2>1. proc'[t].pc = "put" /\ proc'[t].pub = proc'[t].priv
    BY <1>2, RegenerateNow DEF Now
  <2> QED
    BY <1>1, <2>1, WholeQuiet DEF Storing, At
<1>3. ASSUME NEW d \in Ids, NEW pc \in {"delete", "choose"}, ChooseDevice(t, d, pc)
      PROVE  Whole(In[t])'
  <2>1. proc'[t].pc \in {"delete", "choose"}
    BY <1>3, ChooseDeviceNow DEF Now
  <2> QED
    BY <1>1, <2>1, WholeQuiet DEF Storing, At
<1>4. CASE Revoke(t) \/ CheckCurrent(t) \/ Remove(t) \/ FindChosen(t) \/ SetDefault(t)
  <2>1. proc'[t].pc \in {"idle", "remove", "chosen"}
    BY <1>4, EndsNow, CheckCurrentNow, FindChosenNow DEF Now, NowAt, NowIdle
  <2> QED
    BY <1>1, <2>1, WholeQuiet DEF Storing, At
<1> QED
  BY <1>2, <1>3, <1>4 DEF Settings

LEMMA WholePage ==
    ASSUME WholeInv, NEW t \in Tabs, Frame(t), Local(t), Page(t), In[t] \notin torn'
    PROVE  Whole(In[t])'
<1> DEFINE b == In[t]
<1> USE DEF WholeInv
<1>1. /\ b \notin torn /\ pub' = pub /\ priv' = priv /\ old' = old /\ b \in Browsers
  BY StateType DEF Page, Fails, Reload, SaveAuthState, Logout, Send, storage
<1>2. Whole(b)
  BY <1>1
<1>3. CASE Fails(t)
  <2>1. ~Storing(t) /\ ~At(t, "idle")
    BY <1>3 DEF Fails, Storing, At
  <2>2. proc'[t].pc \in {"naming", "idle"}
    BY <1>3, FailsNow DEF Now, NowFailed, NowIdle
  <2> QED
    BY <1>1, <2>1, <2>2, WholeQuiet DEF Storing
<1>4. CASE Reload(t)
  <2>1. device'[t] = saved[b] /\ saved' = saved
    BY <1>4, Stores DEF Reload
  <2>2. proc'[t].pc = "idle"
    BY <1>4, EndsNow DEF Now, NowIdle
  <2>3. At(t, "set") => pub[b] \in {NoKey, proc[t].pub}
    BY <1>1, <1>4 DEF Reload, Replacing
  <2>4. old[b] # NoKey => saved'[b] = NoDev /\ Migrant(t)'
    BY <1>2, <2>1, <2>2 DEF Whole, Migrant, At
  <2> QED
    BY <1>1, <2>2, <2>3, <2>4, WholeHere DEF Storing, At
<1>5. CASE SaveAuthState(t) \/ Logout(t) \/ Send(t)
  <2>1. /\ proc' = proc
        /\ device'[t] \in {device[t], NoDev} /\ saved'[b] \in {saved[b], device[t], NoDev}
    BY <1>1, <1>5, Stores DEF SaveAuthState, Logout, Send, session
  <2>2. old[b] # NoKey => saved'[b] = NoDev /\ Migrant(t)'
    BY <1>2, <2>1 DEF Whole, Migrant, Storing, At
  <2>3. Storing(t)' => proc'[t].pub = proc'[t].priv
    BY <1>2, <2>1 DEF Whole, WholeTab, Storing
  <2> QED
    BY <1>1, <2>1, <2>2, <2>3, WholeHere DEF At
<1> QED
  BY <1>3, <1>4, <1>5 DEF Page

LEMMA WholeStep ==
    ASSUME WholeInv, [Next]_vars
    PROVE  WholeInv'
<1>1. TInv'
  BY TypeStep DEF WholeInv
<1>2. ASSUME NEW t \in Tabs, Step(t), NEW b \in Browsers \ torn'
      PROVE  Whole(b)'
  <2>1. Frame(t) /\ Local(t)
    BY <1>2, StepFrame, StepLocal DEF WholeInv
  <2>2. CASE b # In[t]
    BY <2>1, <2>2, WholeElsewhere
  <2>3. CASE b = In[t]
    BY <1>2, <2>1, <2>3, WholeStorage, WholeLogin, WholeSettings, WholePage DEF Step
  <2> QED
    BY <2>2, <2>3
<1>3. CASE UNCHANGED vars
  <2>1. \A b : Whole(b) => Whole(b)'
    BY <1>3 DEF vars, server, storage, session, Whole, WholeTab, Migrant, Storing, At
  <2> QED
    BY <1>1, <1>3, <2>1 DEF WholeInv, vars
<1> QED
  BY <1>1, <1>2, <1>3, SomeStep DEF WholeInv

LEMMA WholeInit == Init => WholeInv
<1> SUFFICES ASSUME NEW loggedIn \in SUBSET {Known}, NEW had \in Pairs(Cardinality(loggedIn)),
                    Start(loggedIn, had), NEW b \in Browsers
             PROVE  Whole(b)
  BY TypeInit DEF WholeInv, Init
<1> DEFINE n == Cardinality(loggedIn)
           One(c) == IF c \in loggedIn THEN 1 ELSE 0
<1>1. loggedIn = {} \/ loggedIn = {Known}
  BY First
<1>2. /\ pub = [c \in Browsers |-> IF c \in Legacy THEN had[c] ELSE One(c)]
      /\ priv = [c \in Browsers |-> One(c)]
      /\ old = [c \in Browsers |-> IF c \in Legacy THEN had[c] ELSE NoKey]
      /\ saved = [c \in Browsers |-> One(c)]
      /\ device = [t \in Tabs |-> One(In[t])]
      /\ proc = [t \in Tabs |-> Idle]
  BY DEF Start
<1>3. \A t \in Tabs : proc[t].pc = "idle" /\ device[t] = One(In[t])
  BY <1>2, IdleFields
<1>4. b \in Legacy => One(b) = 0
  BY <1>1, StartAssumption
<1> HIDE DEF One, n
<1>5. /\ b \in Legacy => /\ pub[b] = old[b] /\ priv[b] = 0 /\ saved[b] = 0
                         /\ \A t \in Tabs : In[t] = b => device[t] = 0
      /\ b \notin Legacy => old[b] = 0 /\ pub[b] = priv[b]
  BY <1>2, <1>3, <1>4 DEF NoKey
<1> QED
  BY <1>3, <1>5 DEF Whole, WholeTab, Migrant, Storing, At, NoKey, NoDev

(* The private key stored is the public key's whenever no tab is between the two  *)
(* writes, for any number of tabs, across regenerations, logins, migrations and   *)
(* pages left half way, except as PairWhole says: while halves of two pairs may   *)
(* be there, and no pair has been stored whole since.                             *)
THEOREM PairCorrect == Spec => []PairWhole
<1>1. Spec => []WholeInv
  BY WholeInit, WholeStep, PTL DEF Spec
<1>2. WholeInv => PairWhole
  BY DEF WholeInv, Whole, PairWhole
<1> QED
  BY <1>1, <1>2, PTL

--------------------------------------------------------------------------------
(* Pairs replaced under no session *)

(* where a login has the device it will answer *)
Logged(pc) == pc \in {"default", "seen", "current", "answer"}

(* a session or a login on device d of browser b has the key that is stored whole *)
OnKey(b, d) == rows[d].key = pub[b] /\ pub[b] = priv[b]

CleanTab(t) ==
    /\ Storing(t) => proc[t].pub = proc[t].priv
    /\ At(t, "set") => ~InUse(t) /\ priv[In[t]] = proc[t].priv
    /\ WithPub(proc[t].pc) /\ ~Storing(t) => proc[t].pub = pub[In[t]] /\ pub[In[t]] = priv[In[t]]
    /\ Logged(proc[t].pc) /\ proc[t].dev # NoDev => OnKey(In[t], proc[t].dev)
    /\ device[t] # NoDev => OnKey(In[t], device[t])

(* a browser whose storage has had one user at a time *)
Clean(b) ==
    /\ old[b] # NoKey => /\ old[b] = pub[b] /\ saved[b] = NoDev
                         /\ \A t \in Tabs : In[t] = b => Migrant(t)
    /\ priv[b] # NoKey /\ (\A t \in Tabs : In[t] = b => ~At(t, "set")) => pub[b] = priv[b]
    /\ saved[b] # NoDev => OnKey(b, saved[b])
    /\ \A t \in Tabs : In[t] = b => CleanTab(t)

CleanInv == TInv /\ \A b \in Browsers \ mixed : Clean(b)

(* a tab that is busy or logged in keeps the others from being between two writes *)
LEMMA BusyAlone ==
    ASSUME CleanInv, NEW t \in Tabs, In[t] \notin mixed,
           ~At(t, "idle") \/ device[t] # NoDev
    PROVE  /\ \A u \in Tabs \ {t} : In[u] = In[t] => ~At(u, "set")
           /\ ~At(t, "idle") /\ ~Storing(t) => old[In[t]] = NoKey
           /\ device[t] # NoDev => old[In[t]] = NoKey
<1>1. In[t] \in Browsers /\ Clean(In[t])
  BY StateType DEF CleanInv
<1>2. ASSUME NEW u \in Tabs \ {t}, In[u] = In[t], At(u, "set")
      PROVE  FALSE
  <2>1. ~InUse(u)
    BY <1>1, <1>2 DEF Clean, CleanTab
  <2> QED
    BY <1>2, <2>1 DEF InUse, Others, At
<1> QED
  BY <1>1, <1>2 DEF Clean, Migrant

(* the tabs and the browser that took no part in a step stay as they were *)
LEMMA CleanElsewhere ==
    ASSUME CleanInv, TInv', NEW t \in Tabs, Frame(t), Local(t),
           NEW b \in Browsers \ mixed', b # In[t]
    PROVE  Clean(b)'
<1>1. b \notin mixed /\ Clean(b)
  BY DEF CleanInv, Local
<1>2. /\ pub'[b] = pub[b] /\ priv'[b] = priv[b] /\ old'[b] = old[b] /\ saved'[b] = saved[b]
      /\ \A u \in Tabs : In[u] = b => proc'[u] = proc[u] /\ device'[u] = device[u]
  BY DEF Local, Frame
<1>3. \A d \in 1..Len(rows) : rows'[d].key = rows[d].key
  BY RowsKept DEF CleanInv
<1>4. /\ saved[b] \in 0..Len(rows)
      /\ \A u \in Tabs : device[u] \in 0..Len(rows) /\ proc[u].dev \in 0..Len(rows)
  BY Stores DEF CleanInv, TInv, GoodProc
<1>5. ASSUME NEW u \in Tabs, In[u] = b
      PROVE  CleanTab(u)'
  <2>1. CleanTab(u)
    BY <1>1, <1>5 DEF Clean
  <2>2. InUse(u) <=> InUse(u)'
    BY <1>2, <1>5 DEF InUse, Others
  <2> QED
    BY <1>2, <1>3, <1>4, <1>5, <2>1, <2>2
       DEF CleanTab, Storing, At, OnKey, WithPub, Logged, NoDev
<1> QED
  BY <1>1, <1>2, <1>3, <1>4, <1>5 DEF Clean, Migrant, Storing, At, OnKey, NoDev

(* a step that writes neither half, of a tab that is not between the two writes *)
LEMMA CleanHere ==
    ASSUME CleanInv, TInv', NEW t \in Tabs, Frame(t), Local(t),
           In[t] \notin mixed, ~At(t, "set"), ~At(t, "set")',
           pub' = pub, priv' = priv, old' = old,
           \/ \A u \in Tabs \ {t} : In[u] = In[t] => ~At(u, "set")
           \/ device'[t] = NoDev /\ At(t, "idle")' /\ saved'[In[t]] = NoDev,
           saved'[In[t]] # NoDev => OnKey(In[t], saved[In[t]])',
           old[In[t]] # NoKey => saved'[In[t]] = NoDev /\ Migrant(t)',
           CleanTab(t)'
    PROVE  Clean(In[t])'
<1> DEFINE b == In[t]
<1>1. b \in Browsers /\ Clean(b)
  BY StateType DEF CleanInv
<1>2. \A u \in Tabs \ {t} : proc'[u] = proc[u] /\ device'[u] = device[u]
  BY DEF Local, Frame
<1>3. \A d \in 1..Len(rows) : rows'[d].key = rows[d].key
  BY RowsKept DEF CleanInv
<1>4. \A u \in Tabs : device[u] \in 0..Len(rows) /\ proc[u].dev \in 0..Len(rows)
  BY Stores DEF CleanInv, TInv, GoodProc
<1>5. ASSUME NEW u \in Tabs, In[u] = b
      PROVE  CleanTab(u)'
  <2>1. CASE u = t
    BY <2>1
  <2>2. CASE u # t
    <3>1. CleanTab(u)
      BY <1>1, <1>5 DEF Clean
    <3>2. At(u, "set") => ~InUse(u)'
      BY <1>2, <1>5, <2>2, <3>1 DEF CleanTab, InUse, Others, At
    <3> QED
      BY <1>2, <1>3, <1>4, <1>5, <2>2, <3>1, <3>2
         DEF CleanTab, Storing, At, OnKey, WithPub, Logged, NoDev
  <2> QED
    BY <2>1, <2>2
<1>6. old[b] # NoKey => \A u \in Tabs : In[u] = b => Migrant(u)'
  BY <1>1, <1>2 DEF Clean, Migrant, Storing, At
<1>7. \A u \in Tabs : At(u, "set")' <=> At(u, "set")
  BY <1>2 DEF At
<1> QED
  BY <1>1, <1>5, <1>6, <1>7 DEF Clean

(* a step of a login, a registration or a settings page that leaves its session and *)
(* its browser's storage alone                                                      *)
LEMMA CleanQuiet ==
    ASSUME CleanInv, TInv', NEW t \in Tabs, Frame(t), Local(t),
           In[t] \notin mixed, ~Storing(t), ~At(t, "idle") \/ device[t] # NoDev,
           pub' = pub, priv' = priv, old' = old, device' = device, saved' = saved,
           proc'[t].pc # "set",
           proc'[t].pc = "put" => proc'[t].pub = proc'[t].priv,
           WithPub(proc'[t].pc) /\ proc'[t].pc # "put"
             => proc'[t].pub = pub[In[t]] /\ pub[In[t]] = priv[In[t]],
           Logged(proc'[t].pc) /\ proc'[t].dev # NoDev
             => rows'[proc'[t].dev].key = pub[In[t]] /\ pub[In[t]] = priv[In[t]]
    PROVE  Clean(In[t])'
<1>1. In[t] \in Browsers /\ Clean(In[t]) /\ CleanTab(t)
  BY StateType DEF CleanInv, Clean
<1>2. \A d \in 1..Len(rows) : rows'[d].key = rows[d].key
  BY RowsKept DEF CleanInv
<1>3. saved[In[t]] \in 0..Len(rows) /\ device[t] \in 0..Len(rows)
  BY <1>1, Stores DEF CleanInv
<1>4. saved'[In[t]] # NoDev => OnKey(In[t], saved[In[t]])'
  BY <1>1, <1>2, <1>3 DEF Clean, OnKey, NoDev
<1>5. device'[t] # NoDev => OnKey(In[t], device[t])'
  BY <1>1, <1>2, <1>3 DEF CleanTab, OnKey, NoDev
<1>6. CleanTab(t)'
  BY <1>5 DEF CleanTab, Storing, At, OnKey
<1>7. \A u \in Tabs \ {t} : In[u] = In[t] => ~At(u, "set")
  BY BusyAlone
<1>8. old[In[t]] = NoKey
  BY BusyAlone
<1> QED
  BY <1>4, <1>6, <1>7, <1>8, CleanHere DEF At, Storing

LEMMA CleanStorage ==
    ASSUME CleanInv, TInv', NEW t \in Tabs, Frame(t), Local(t), Storage(t),
           In[t] \notin mixed'
    PROVE  Clean(In[t])'
<1> DEFINE b == In[t]
<1> USE DEF CleanInv
<1>1. b \in Browsers /\ t \in Tabs
  BY StateType
<1>2. b \notin mixed
  BY DEF Storage, Put, SetItem, PutFails, LoadPair, LoadFails
<1>3. Clean(b) /\ CleanTab(t)
  BY <1>1, <1>2 DEF Clean
<1>4. /\ \A d \in 1..Len(rows) : rows'[d].key = rows[d].key
      /\ saved[b] \in 0..Len(rows)
  BY <1>1, RowsKept, Stores
<1>5. CASE Put(t)
  <2>1. ~InUse(t) /\ session' = session /\ pub' = pub /\ old' = old
        /\ priv'[b] = proc[t].priv
    BY <1>1, <1>5, Stores DEF Put
  <2>2. NowAt(t, "set")
    BY <1>5, PutNow
  <2>3. /\ \A u \in Tabs \ {t} : In[u] = b => proc[u].pc = "idle" /\ device[u] = NoDev
        /\ saved[b] = NoDev /\ device[t] = NoDev
    BY <2>1 DEF InUse, Others
  <2>4. /\ \A u \in Tabs \ {t} : In[u] = b => proc'[u].pc = "idle" /\ device'[u] = NoDev
        /\ saved'[b] = NoDev /\ device'[t] = NoDev
        /\ proc'[t].pc = "set" /\ proc'[t].for = proc[t].for
        /\ proc'[t].pub = proc[t].pub /\ proc'[t].priv = proc[t].priv
    BY <2>1, <2>2, <2>3 DEF NowAt, Now, session
  <2>5. ~InUse(t)'
    BY <2>4 DEF InUse, Others
  <2>6. CleanTab(t)'
    BY <1>3, <1>5, <2>1, <2>4, <2>5 DEF CleanTab, Storing, At, Put, Logged
  <2>7. \A u \in Tabs \ {t} : In[u] = b => CleanTab(u)'
    BY <2>4 DEF CleanTab, Storing, At, Logged, WithPub
  <2>8. old[b] # NoKey => \A u \in Tabs : In[u] = b => Migrant(u)'
    BY <1>3, <1>5, <2>4 DEF Clean, Migrant, Storing, At, Put
  <2> QED
    BY <1>3, <2>1, <2>4, <2>6, <2>7, <2>8 DEF Clean, At
<1>6. CASE SetItem(t)
  <2>1. ~InUse(t) /\ session' = session /\ priv' = priv /\ pub'[b] = proc[t].pub
        /\ (old'[b] = old[b] \/ old'[b] = NoKey)
        /\ (proc[t].for = "migrate" => old'[b] = NoKey)
    BY <1>1, <1>6, Stores DEF SetItem, PublicKey
  <2>2. old'[b] = NoKey
    BY <1>1, <1>3, <1>6, <2>1 DEF Clean, Migrant, SetItem, At
  <2>3. pub'[b] = priv'[b] /\ proc[t].pc = "set"
    BY <1>3, <1>6, <2>1 DEF CleanTab, SetItem, Storing, At
  <2>4. /\ \A u \in Tabs \ {t} : In[u] = b => proc'[u].pc = "idle" /\ device'[u] = NoDev
        /\ saved'[b] = NoDev /\ device'[t] = NoDev
    BY <2>1 DEF InUse, Others, Frame, session
  <2>5. \/ proc'[t].pc = "load"
        \/ proc'[t].pc \in {"check", "register"} /\ proc'[t].pub = proc[t].pub
    BY <1>6, SetItemNow DEF Now, NowWithPair
  <2>6. CleanTab(t)'
    BY <2>1, <2>3, <2>4, <2>5 DEF CleanTab, Storing, At, Logged, WithPub
  <2>7. \A u \in Tabs \ {t} : In[u] = b => CleanTab(u)'
    BY <2>4 DEF CleanTab, Storing, At, Logged, WithPub
  <2> QED
    BY <2>2, <2>3, <2>4, <2>6, <2>7 DEF Clean
<1>7. CASE PutFails(t)
  <2>1. NowIdle(t) /\ session' = session /\ storage' = storage /\ proc[t].pc = "put"
    BY <1>1, <1>7, PutFailsNow DEF PutFails, At
  <2>2. proc'[t].pc = "idle"
    BY <2>1 DEF NowIdle, Now
  <2>3. \A u \in Tabs \ {t} : In[u] = In[t] => ~At(u, "set")
    BY <1>2, <2>1, BusyAlone DEF At
  <2>4. device[t] \in 0..Len(rows)
    BY Stores
  <2>5. CleanTab(t)'
    BY <1>3, <1>4, <2>1, <2>2, <2>4
       DEF CleanTab, Storing, At, Logged, WithPub, session, storage, OnKey, NoDev
  <2>6. old[b] # NoKey => saved'[b] = NoDev /\ Migrant(t)'
    BY <1>3, <2>1, <2>2 DEF Clean, Migrant, At, session
  <2>7. saved'[b] # NoDev => OnKey(b, saved[b])'
    BY <1>3, <1>4, <2>1 DEF Clean, OnKey, session, storage, NoDev
  <2> QED
    BY <1>2, <2>1, <2>2, <2>3, <2>5, <2>6, <2>7, CleanHere DEF At, storage
<1>8. CASE LoadPair(t) \/ LoadFails(t)
  <2>1. /\ proc[t].pc = "load" /\ session' = session
        /\ pub' = pub /\ priv' = priv /\ old' = old
    BY <1>8 DEF LoadPair, LoadFails, At
  <2>2. \A u \in Tabs \ {t} : In[u] = In[t] => ~At(u, "set")
    BY <1>2, <2>1, BusyAlone DEF At
  <2>3. Stored(b) => pub[b] = priv[b]
    BY <1>3, <2>1, <2>2 DEF Clean, Stored, At
  <2>4. \/ Stored(b) /\ NowWithPair(t, "check", pub[b])
        \/ Now(t, "put", "login", keys + 1, keys + 1, 0, 0)
    BY <1>8, LoadPairNow, LoadFailsNow
  <2>5. \/ proc'[t].pc = "check" /\ proc'[t].pub = pub[b] /\ pub[b] = priv[b]
        \/ proc'[t].pc = "put" /\ proc'[t].pub = proc'[t].priv
    BY <2>3, <2>4 DEF Now, NowWithPair
  <2> QED
    BY <1>2, <2>1, <2>5, CleanQuiet DEF Storing, At, WithPub, Logged, session
<1> QED
  BY <1>5, <1>6, <1>7, <1>8 DEF Storage

LEMMA CleanLogin ==
    ASSUME CleanInv, TInv', NEW t \in Tabs, Frame(t), Local(t), Login(t),
           In[t] \notin mixed'
    PROVE  Clean(In[t])'
<1> DEFINE b == In[t]
<1> USE DEF CleanInv
<1>1. b \in Browsers
  BY StateType
<1>2. CASE Submit(t)
  <2>1. /\ rows' = rows /\ session' = session /\ storage' = storage
        /\ proc[t].pc = "idle" /\ device[t] = NoDev /\ device'[t] = NoDev
    BY <1>2 DEF Submit, At, server, session
  <2>2. CASE b \notin mixed
    <3>1. Clean(b)
      BY <1>1, <2>2
    <3>2. CASE ~InUse(t) /\ pub[b] = priv[b] /\ old[b] = NoKey
      <4>1. /\ \A u \in Tabs \ {t} : In[u] = b => ~At(u, "set")
            /\ saved[b] = NoDev
        BY <3>2 DEF InUse, Others, At
      <4>2. proc'[t].pc = "load"
        BY <1>2, <3>2, SubmitNow DEF Now
      <4>3. CleanTab(t)'
        BY <2>1, <4>2 DEF CleanTab, Storing, At, Logged, WithPub
      <4> QED
        BY <1>1, <2>1, <2>2, <3>2, <4>1, <4>2, <4>3, CleanHere DEF At, storage, session
    <3>3. CASE ~(~InUse(t) /\ pub[b] = priv[b] /\ old[b] = NoKey)
      <4>1. \A u \in Tabs \ {t} : In[u] = b => ~At(u, "set")
        BY <1>2, <3>3 DEF Submit, Others
      <4>2. old[b] # NoKey => pub[b] = old[b] /\ pub[b] # NoKey /\ saved[b] = NoDev
        BY <3>1 DEF Clean
      <4>3. \/ old[b] = NoKey /\ proc'[t].pc = "load"
            \/ /\ proc'[t].pc = "put" /\ proc'[t].for = "migrate"
               /\ proc'[t].pub = pub[b] /\ proc'[t].priv = old[b]
               /\ old[b] # NoKey
        BY <1>2, <4>2, SubmitNow DEF Now
      <4>4. CleanTab(t)'
        BY <2>1, <4>2, <4>3 DEF CleanTab, Storing, At, Logged, WithPub
      <4>5. old[b] # NoKey => saved'[b] = NoDev /\ Migrant(t)'
        BY <2>1, <4>2, <4>3 DEF Migrant, Storing, At, session
      <4>6. saved[b] \in 0..Len(rows)
        BY <1>1, Stores
      <4>7. saved'[b] # NoDev => OnKey(b, saved[b])'
        BY <2>1, <3>1 DEF Clean, OnKey, session, storage
      <4> QED
        BY <2>1, <2>2, <4>1, <4>3, <4>4, <4>5, <4>7, CleanHere DEF At, storage
    <3> QED
      BY <3>2, <3>3
  <2>3. CASE b \in mixed
    <3>1. ~InUse(t) /\ pub[b] = priv[b] /\ old[b] = NoKey
      BY <1>2, <2>3 DEF Submit
    <3>2. /\ \A u \in Tabs \ {t} : In[u] = b => proc'[u].pc = "idle" /\ device'[u] = NoDev
          /\ saved'[b] = NoDev /\ pub'[b] = priv'[b] /\ old'[b] = NoKey
      BY <2>1, <3>1 DEF InUse, Others, Frame, Local, session, storage
    <3>3. proc'[t].pc = "load"
      BY <1>2, <3>1, SubmitNow DEF Now
    <3>4. CleanTab(t)'
      BY <2>1, <3>3 DEF CleanTab, Storing, At, Logged, WithPub
    <3>5. \A u \in Tabs \ {t} : In[u] = b => CleanTab(u)'
      BY <3>2 DEF CleanTab, Storing, At, Logged, WithPub
    <3> QED
      BY <3>2, <3>4, <3>5 DEF Clean
  <2> QED
    BY <2>2, <2>3
<1>3. ASSUME ~Submit(t)
      PROVE  Clean(b)'
  <2>1. /\ b \notin mixed /\ pub' = pub /\ priv' = priv /\ old' = old
        /\ rows' = rows /\ proc[t].pc \in {"check", "naming", "find", "seen", "current", "answer"}
    BY <1>3 DEF Login, CheckDevice, NameDevice, FindDevice, UpdateLastSeen, SetCurrent, Answer,
                storage, server, At
  <2>2. Clean(b) /\ CleanTab(t)
    BY <1>1, <2>1 DEF Clean
  <2>3. /\ ~Storing(t) /\ ~At(t, "idle")
        /\ \A u \in Tabs \ {t} : In[u] = b => ~At(u, "set")
        /\ old[b] = NoKey
    BY <2>1, BusyAlone DEF Storing, At
  <2>4. CASE CheckDevice(t)
    <3>1. proc[t].pc = "check" /\ session' = session
      BY <2>4 DEF CheckDevice, At
    <3>2. proc'[t].pc = "naming" \/ (proc'[t].pc = "find" /\ proc'[t].pub = proc[t].pub)
      BY <2>4, CheckDeviceNow DEF Now, NowAt
    <3> QED
      BY <2>1, <2>2, <2>3, <3>1, <3>2, CleanQuiet DEF CleanTab, WithPub, Logged, session
  <2>5. CASE NameDevice(t)
    <3>1. proc[t].pc = "naming" /\ session' = session
      BY <2>5 DEF NameDevice, At
    <3>2. proc'[t].pc = "find" /\ proc'[t].pub = pub[b] /\ Stored(b)
      BY <2>5, NameDeviceNow DEF Now, NowWithPair
    <3>3. pub[b] = priv[b]
      BY <2>2, <2>3, <3>1, <3>2 DEF Clean, Stored, At
    <3> QED
      BY <2>1, <2>3, <3>1, <3>2, <3>3, CleanQuiet DEF WithPub, Logged, session
  <2>6. CASE FindDevice(t)
    <3>1. proc[t].pc = "find" /\ session' = session
      BY <2>6 DEF FindDevice, At
    <3>2. \/ proc'[t].pc = "answer" /\ proc'[t].dev = NoDev
          \/ proc'[t].pc = "register" /\ proc'[t].pub = proc[t].pub
      BY <2>6, FindDeviceNow DEF Now, NowAt, NoDev
    <3> QED
      BY <2>1, <2>2, <2>3, <3>1, <3>2, CleanQuiet DEF CleanTab, WithPub, Logged, session
  <2>7. CASE UpdateLastSeen(t) \/ SetCurrent(t)
    <3>1. proc[t].pc \in {"seen", "current"} /\ session' = session
      BY <2>7 DEF UpdateLastSeen, SetCurrent, At
    <3>2. \/ proc'[t].pc \in {"current", "answer"} /\ proc'[t].dev = proc[t].dev
          \/ proc'[t].pc \in {"naming", "idle"}
      BY <2>7, UpdateLastSeenNow, SetCurrentNow DEF Now, NowAt, NowFailed, NowIdle
    <3> QED
      BY <2>1, <2>2, <2>3, <3>1, <3>2, CleanQuiet DEF CleanTab, WithPub, Logged, OnKey, session
  <2>8. CASE Answer(t) /\ proc[t].dev = NoDev
    <3>1. session' = session
      BY <2>8 DEF Answer
    <3>2. proc'[t].pc \in {"naming", "idle"}
      BY <2>8, AnswerNow DEF Now, NowFailed, NowIdle
    <3> QED
      BY <2>1, <2>3, <3>1, <3>2, CleanQuiet DEF WithPub, Logged, session
  <2>9. CASE Answer(t) /\ proc[t].dev # NoDev
    <3>1. /\ device'[t] = proc[t].dev /\ saved'[b] = proc[t].dev /\ proc[t].pc = "answer"
      BY <1>1, <2>9, Stores DEF Answer, At
    <3>2. proc'[t].pc = "idle"
      BY <2>9, AnswerNow DEF Now, NowIdle
    <3>3. OnKey(b, proc[t].dev)
      BY <2>2, <2>9, <3>1 DEF CleanTab, Logged
    <3>4. OnKey(b, saved[b])' /\ OnKey(b, device[t])'
      BY <2>1, <3>1, <3>3 DEF OnKey
    <3>5. CleanTab(t)'
      BY <3>2, <3>4 DEF CleanTab, Storing, At, Logged, WithPub
    <3> QED
      BY <2>1, <2>3, <3>1, <3>2, <3>4, <3>5, CleanHere DEF At, Storing
  <2> QED
    BY <1>3, <2>4, <2>5, <2>6, <2>7, <2>8, <2>9 DEF Login
<1> QED
  BY <1>2, <1>3

LEMMA CleanRegister ==
    ASSUME CleanInv, TInv', NEW t \in Tabs, Frame(t), Local(t), RegisterDevice(t),
           In[t] \notin mixed'
    PROVE  Clean(In[t])'
<1> DEFINE b == In[t]
<1> USE DEF CleanInv
<1>1. /\ b \notin mixed /\ pub' = pub /\ priv' = priv /\ old' = old /\ session' = session
      /\ proc[t].pc \in {"register", "count", "create", "default"}
  BY DEF RegisterDevice, FindSameKey, CountDevices, CreateDevice, SetFirstDefault, storage, At
<1>2. b \in Browsers /\ Clean(b) /\ CleanTab(t)
  BY <1>1, StateType DEF Clean
<1>3. /\ proc[t].pc # "default" => proc[t].pub = pub[b] /\ pub[b] = priv[b]
      /\ proc[t].pc = "default" /\ proc[t].dev # NoDev => OnKey(b, proc[t].dev)
      /\ ~Storing(t) /\ ~At(t, "idle")
  BY <1>1, <1>2 DEF CleanTab, Storing, At, WithPub, Logged
<1>4. CASE FindSameKey(t)
  <2>1. proc[t].pc = "register" /\ rows' = rows
    BY <1>4 DEF FindSameKey, At, server
  <2>2. \/ proc'[t].pc = "count" /\ proc'[t].pub = proc[t].pub
        \/ /\ proc'[t].pc \in {"revoke", "seen"}
           /\ proc'[t].dev \in SameKey(t)
    BY <1>4, FindSameKeyNow DEF Now, NowRegistered
  <2>3. \A d \in SameKey(t) : rows[d].key = proc[t].pub
    BY DEF SameKey, WithKey
  <2> QED
    BY <1>1, <1>3, <2>1, <2>2, <2>3, CleanQuiet DEF WithPub, Logged, session
<1>5. CASE CountDevices(t)
  <2>1. proc[t].pc = "count" /\ proc'[t].pc = "create" /\ proc'[t].pub = proc[t].pub
    BY <1>5, CountDevicesNow DEF CountDevices, At, NowAt, Now
  <2> QED
    BY <1>1, <1>3, <2>1, CleanQuiet DEF WithPub, Logged, session
<1>6. CASE CreateDevice(t)
  <2>1. proc[t].pc = "create"
    BY <1>6 DEF CreateDevice, At
  <2>2. /\ proc'[t].pc \in {"default", "revoke", "current"} /\ proc'[t].dev = Len(rows')
        /\ rows'[Len(rows')].key = proc[t].pub
    BY <1>6, CreateDeviceNow DEF Now, NowRegistered
  <2> QED
    BY <1>1, <1>3, <2>1, <2>2, CleanQuiet DEF WithPub, Logged, session
<1>7. CASE SetFirstDefault(t)
  <2>1. proc[t].pc = "default" /\ rows' = rows
    BY <1>7 DEF SetFirstDefault, At
  <2>2. proc'[t].pc \in {"revoke", "current"} /\ proc'[t].dev = proc[t].dev
    BY <1>7, SetFirstDefaultNow DEF Now, NowRegistered
  <2> QED
    BY <1>1, <1>3, <2>1, <2>2, CleanQuiet DEF WithPub, Logged, OnKey, session
<1> QED
  BY <1>4, <1>5, <1>6, <1>7 DEF RegisterDevice

LEMMA CleanSettings ==
    ASSUME CleanInv, TInv', NEW t \in Tabs, Frame(t), Local(t), Settings(t),
           In[t] \notin mixed'
    PROVE  Clean(In[t])'
<1>1. /\ In[t] \notin mixed /\ pub' = pub /\ priv' = priv /\ old' = old /\ session' = session
      /\ ~Storing(t) /\ (~At(t, "idle") \/ device[t] # NoDev)
  BY DEF Settings, Regenerate, Revoke, ChooseDevice, CheckCurrent, Remove, FindChosen,
         SetDefault, storage, Storing, At
<1>2. CASE Regenerate(t)
  <2>1. proc'[t].pc = "put" /\ proc'[t].pub = proc'[t].priv
    BY <1>2, RegenerateNow DEF CleanInv, Now
  <2> QED
    BY <1>1, <2>1, CleanQuiet DEF Logged, session
<1>3. CASE Revoke(t) \/ CheckCurrent(t) \/ Remove(t) \/ FindChosen(t) \/ SetDefault(t)
  <2>1. proc'[t].pc \in {"remove", "chosen", "idle"}
    BY <1>3, EndsNow, CheckCurrentNow, FindChosenNow DEF CleanInv, Now, NowAt, NowIdle
  <2> QED
    BY <1>1, <2>1, CleanQuiet DEF WithPub, Logged, session
<1>4. ASSUME NEW d \in Ids, NEW pc \in {"delete", "choose"}, ChooseDevice(t, d, pc)
      PROVE  Clean(In[t])'
  <2>1. proc'[t].pc \in {"delete", "choose"}
    BY <1>4, ChooseDeviceNow DEF CleanInv, Now
  <2> QED
    BY <1>1, <2>1, CleanQuiet DEF WithPub, Logged, session
<1> QED
  BY <1>2, <1>3, <1>4 DEF Settings

LEMMA CleanPage ==
    ASSUME CleanInv, TInv', NEW t \in Tabs, Frame(t), Local(t), Page(t),
           In[t] \notin mixed'
    PROVE  Clean(In[t])'
<1> DEFINE b == In[t]
<1> USE DEF CleanInv
<1>1. /\ b \notin mixed /\ pub' = pub /\ priv' = priv /\ old' = old /\ rows' = rows
  BY DEF Page, Fails, Reload, SaveAuthState, Logout, Send, storage, server
<1>2. b \in Browsers /\ Clean(b) /\ CleanTab(t)
  BY <1>1, StateType DEF Clean
<1>3. CASE Fails(t)
  <2>1. ~Storing(t) /\ ~At(t, "idle") /\ session' = session
    BY <1>3 DEF Fails, Storing, At
  <2>2. proc'[t].pc \in {"naming", "idle"}
    BY <1>3, FailsNow DEF Now, NowFailed, NowIdle
  <2> QED
    BY <1>1, <2>1, <2>2, CleanQuiet DEF WithPub, Logged, session
<1>4. CASE Reload(t)
  <2>1. device'[t] = saved[b] /\ saved' = saved /\ ~At(t, "set")
    BY <1>2, <1>4, Stores DEF Reload
  <2>2. proc'[t].pc = "idle"
    BY <1>4, EndsNow DEF Now, NowIdle
  <2>3. saved'[b] # NoDev => OnKey(b, saved[b])' /\ OnKey(b, device[t])'
    BY <1>1, <1>2, <2>1 DEF Clean, OnKey
  <2>4. CleanTab(t)'
    BY <2>1, <2>2, <2>3 DEF CleanTab, Storing, At, Logged, WithPub
  <2>5. \/ \A u \in Tabs \ {t} : In[u] = b => ~At(u, "set")
        \/ saved[b] = NoDev
    <3>1. ASSUME NEW u \in Tabs \ {t}, In[u] = b, At(u, "set")
          PROVE  saved[b] = NoDev
      BY <1>2, <3>1 DEF Clean, CleanTab, InUse
    <3> QED
      BY <3>1
  <2>6. old[b] # NoKey => saved'[b] = NoDev /\ Migrant(t)'
    BY <1>2, <2>1, <2>2 DEF Clean, Migrant, At
  <2> QED
    BY <1>1, <2>1, <2>2, <2>3, <2>4, <2>5, <2>6, CleanHere DEF At
<1>5. CASE SaveAuthState(t)
  <2>1. /\ saved'[b] = device[t] /\ saved[b] # device[t] /\ device' = device /\ proc' = proc
    BY <1>2, <1>5, Stores DEF SaveAuthState
  <2>2. ~At(t, "set")
    BY <1>2, <2>1 DEF CleanTab, InUse
  <2>3. device[t] # NoDev => \A u \in Tabs \ {t} : In[u] = b => ~At(u, "set")
    BY <1>1, BusyAlone
  <2>4. \A u \in Tabs \ {t} : In[u] = b => ~At(u, "set")
    <3>1. ASSUME NEW u \in Tabs \ {t}, In[u] = b, At(u, "set")
          PROVE  saved[b] = NoDev /\ device[t] = NoDev
      <4>1. ~InUse(u)
        BY <1>2, <3>1 DEF Clean, CleanTab
      <4> QED
        BY <3>1, <4>1 DEF InUse, Others
    <3> QED
      BY <2>1, <3>1
  <2>5. saved'[b] # NoDev => OnKey(b, saved[b])'
    BY <1>1, <1>2, <2>1 DEF CleanTab, OnKey
  <2>6. CleanTab(t)'
    BY <1>1, <1>2, <2>1, <2>2 DEF CleanTab, Storing, At, OnKey
  <2>7. old[b] # NoKey => saved'[b] = NoDev /\ Migrant(t)'
    BY <1>2, <2>1 DEF Clean, Migrant, Storing, At
  <2> QED
    BY <1>1, <2>1, <2>2, <2>4, <2>5, <2>6, <2>7, CleanHere DEF At
<1>6. CASE Logout(t)
  <2>1. /\ saved'[b] = NoDev /\ device'[t] = NoDev /\ proc' = proc /\ proc[t].pc = "idle"
    BY <1>2, <1>6, Stores DEF Logout, At
  <2>2. CleanTab(t)'
    BY <2>1 DEF CleanTab, Storing, At, Logged, WithPub
  <2>3. Migrant(t)'
    BY <2>1 DEF Migrant, At
  <2> QED
    BY <1>1, <2>1, <2>2, <2>3, CleanHere DEF At
<1>7. CASE Send(t)
  <2>1. proc' = proc /\ session' = session
    BY <1>7 DEF Send
  <2>2. \A u \in Tabs : CleanTab(u) => CleanTab(u)'
    BY <1>1, <2>1 DEF CleanTab, Storing, At, OnKey, InUse, session
  <2> QED
    BY <1>1, <1>2, <2>1, <2>2 DEF Clean, Migrant, Storing, At, OnKey, session
<1> QED
  BY <1>3, <1>4, <1>5, <1>6, <1>7 DEF Page

LEMMA CleanStep ==
    ASSUME CleanInv, [Next]_vars
    PROVE  CleanInv'
<1>1. TInv'
  BY TypeStep DEF CleanInv
<1>2. ASSUME NEW t \in Tabs, Step(t), NEW b \in Browsers \ mixed'
      PROVE  Clean(b)'
  <2>1. Frame(t) /\ Local(t)
    BY <1>2, StepFrame, StepLocal DEF CleanInv
  <2>2. CASE b # In[t]
    BY <1>1, <2>1, <2>2, CleanElsewhere
  <2>3. CASE b = In[t]
    BY <1>1, <1>2, <2>1, <2>3, CleanStorage, CleanLogin, CleanRegister, CleanSettings, CleanPage
       DEF Step
  <2> QED
    BY <2>2, <2>3
<1>3. CASE UNCHANGED vars
  <2>1. \A b : Clean(b) => Clean(b)'
    BY <1>3 DEF vars, server, storage, session, Clean, CleanTab, Migrant, Storing, At, OnKey, InUse
  <2> QED
    BY <1>1, <1>3, <2>1 DEF CleanInv, vars
<1> QED
  BY <1>1, <1>2, <1>3, SomeStep DEF CleanInv

LEMMA CleanInit == Init => CleanInv
<1> SUFFICES ASSUME NEW loggedIn \in SUBSET {Known}, NEW had \in Pairs(Cardinality(loggedIn)),
                    Start(loggedIn, had), NEW b \in Browsers
             PROVE  Clean(b)
  BY TypeInit DEF CleanInv, Init
<1> DEFINE n == Cardinality(loggedIn)
           One(c) == IF c \in loggedIn THEN 1 ELSE 0
<1>1. (n = 0 /\ loggedIn = {}) \/ (n = 1 /\ loggedIn = {Known})
  BY First
<1>2. /\ pub = [c \in Browsers |-> IF c \in Legacy THEN had[c] ELSE One(c)]
      /\ priv = [c \in Browsers |-> One(c)]
      /\ old = [c \in Browsers |-> IF c \in Legacy THEN had[c] ELSE NoKey]
      /\ saved = [c \in Browsers |-> One(c)]
      /\ device = [t \in Tabs |-> One(In[t])]
      /\ proc = [t \in Tabs |-> Idle]
      /\ n = 1 => rows[1].key = 1
  BY DEF Start
<1>3. \A t \in Tabs : proc[t].pc = "idle" /\ device[t] = One(In[t])
  BY <1>2, IdleFields
<1>4. b \in Legacy => One(b) = 0
  BY <1>1, StartAssumption
<1>5. (One(b) = 0 \/ One(b) = 1) /\ (One(b) = 1 => n = 1)
  BY <1>1
<1> HIDE DEF One, n
<1>6. CASE b \in Legacy
  <2>1. /\ pub[b] = old[b] /\ priv[b] = 0 /\ saved[b] = 0
        /\ \A t \in Tabs : In[t] = b => proc[t].pc = "idle" /\ device[t] = 0
    BY <1>2, <1>3, <1>4, <1>6
  <2> QED
    BY <2>1 DEF Clean, CleanTab, Migrant, Storing, At, Logged, WithPub, NoKey, NoDev
<1>7. CASE b \notin Legacy
  <2>1. /\ old[b] = 0 /\ pub[b] = One(b) /\ priv[b] = One(b) /\ saved[b] = One(b)
        /\ \A t \in Tabs : In[t] = b => proc[t].pc = "idle" /\ device[t] = One(b)
    BY <1>2, <1>3, <1>7 DEF NoKey
  <2>2. One(b) # 0 => rows[One(b)].key = One(b)
    BY <1>2, <1>5
  <2> QED
    BY <2>1, <2>2 DEF Clean, CleanTab, Migrant, Storing, At, Logged, WithPub, OnKey, NoKey, NoDev
<1> QED
  BY <1>6, <1>7

MessagesInv == CleanInv /\ MessagesOpen

LEMMA MessagesStep ==
    ASSUME MessagesInv, NEW t \in Tabs, Step(t)
    PROVE  MessagesOpen'
<1> USE DEF MessagesInv, CleanInv
<1>1. Frame(t)
  BY StepFrame
<1>2. ASSUME NEW m \in sent, ~m.mixed
      PROVE  (Exists(m.dev) /\ rows[m.dev].key = m.key)'
  <2>1. Exists(m.dev) /\ rows[m.dev].key = m.key
    BY <1>2 DEF MessagesOpen
  <2>2. m.dev \in 1..Len(rows') /\ rows'[m.dev].key = m.key
    BY <1>1, <2>1, StateType, RowsKept DEF Exists
  <2>3. rows'[m.dev].status # "deleted"
    <3>1. CASE rows'[m.dev].status = rows[m.dev].status
      BY <2>1, <3>1 DEF Exists
    <3>2. CASE rows'[m.dev].status # rows[m.dev].status
      <4>1. Revoke(t) \/ Remove(t)
        BY <1>1, <2>1, <3>2, RowsKept DEF Exists
      <4>2. Removable(m.dev) => FALSE
        BY DEF Removable
      <4>3. rows'[m.dev].status = "revoked"
        BY <2>1, <3>2, <4>1, <4>2, StatusOnly DEF Exists
      <4> QED
        BY <4>3
    <3> QED
      BY <3>1, <3>2
  <2> QED
    BY <2>2, <2>3 DEF Exists
<1>3. CASE sent' = sent
  BY <1>2, <1>3 DEF MessagesOpen
<1>4. CASE Send(t)
  <2> DEFINE m == [dev |-> device[t], key |-> priv[In[t]], mixed |-> In[t] \in mixed]
  <2>1. /\ sent' = sent \union {m} /\ rows' = rows /\ Exists(device[t])
    BY <1>4 DEF Send
  <2>2. ~m.mixed => rows[device[t]].key = priv[In[t]]
    <3>1. SUFFICES ASSUME In[t] \notin mixed PROVE rows[device[t]].key = priv[In[t]]
      OBVIOUS
    <3>2. CleanTab(t)
      BY <3>1, StateType DEF Clean
    <3> QED
      BY <2>1, <3>2 DEF CleanTab, OnKey, Exists, NoDev
  <2>3. ~m.mixed => Exists(m.dev) /\ rows[m.dev].key = m.key
    BY <2>1, <2>2
  <2> HIDE DEF m
  <2> QED
    BY <1>2, <2>1, <2>3 DEF MessagesOpen, Exists
<1>5. sent' = sent \/ Send(t)
  <2>1. Storage(t) \/ Login(t) => sent' = sent
    BY DEF Storage, Put, SetItem, PutFails, LoadPair, LoadFails, Login, Submit, CheckDevice,
           NameDevice, FindDevice, UpdateLastSeen, SetCurrent, Answer, server
  <2>2. RegisterDevice(t) \/ Settings(t) => sent' = sent
    BY DEF RegisterDevice, FindSameKey, CountDevices, CreateDevice, SetFirstDefault, Settings,
           Regenerate, Revoke, ChooseDevice, CheckCurrent, Remove, FindChosen, SetDefault, server
  <2>3. Page(t) => sent' = sent \/ Send(t)
    BY DEF Page, Fails, Reload, SaveAuthState, Logout, server
  <2> QED
    BY <2>1, <2>2, <2>3 DEF Step
<1> QED
  BY <1>3, <1>4, <1>5

(* A message opens with the key of the device it names, and that device's row is   *)
(* kept, in every browser that replaced no pair under a session: sealing uses the  *)
(* stored private key, naming uses the session's device, and no legal sequence of  *)
(* logins, migrations, reloads and failures lets the two come apart.               *)
THEOREM MessagesCorrect == Spec => []MessagesOpen
<1>1. Init => MessagesInv
  <2>1. Init => sent = {}
    BY DEF Init, Start
  <2> QED
    BY <2>1, CleanInit DEF MessagesInv, MessagesOpen
<1>2. MessagesInv /\ [Next]_vars => MessagesInv'
  <2> SUFFICES ASSUME MessagesInv, [Next]_vars PROVE MessagesInv'
    OBVIOUS
  <2>1. CleanInv'
    BY CleanStep DEF MessagesInv
  <2>2. CASE UNCHANGED vars
    BY <2>1, <2>2 DEF MessagesInv, MessagesOpen, Exists, vars, server
  <2>3. CASE \E t \in Tabs : Step(t)
    BY <2>1, <2>3, MessagesStep DEF MessagesInv
  <2> QED
    BY <2>2, <2>3, SomeStep
<1>3. MessagesInv => MessagesOpen
  BY DEF MessagesInv
<1> QED
  BY <1>1, <1>2, <1>3, PTL DEF Spec

--------------------------------------------------------------------------------
(* Keys and their browsers *)

(* what a step makes of the key its function has: the same one, none or the stored *)
(* one, a new one, or the stored one of a migration                                *)
SameKeyNow(t) ==
    /\ proc'[t].pub = proc[t].pub /\ proc'[t].for = proc[t].for
    /\ Storing(t)' => Storing(t) /\ pub' = pub
    /\ Storing(t) /\ ~Storing(t)' => SetItem(t)

Loads(t) ==
    /\ ~Storing(t)'
    /\ proc'[t].pub = 0 \/ (proc'[t].pub = pub[In[t]] /\ pub' = pub)
    /\ proc'[t].for = "regenerate" => proc[t].for = "regenerate" /\ ~Storing(t)

Makes(t) ==
    /\ Storing(t)' /\ proc'[t].for # "migrate"
    /\ proc'[t].pub = keys + 1 /\ rows' = rows /\ pub' = pub

Migrates(t) ==
    /\ Storing(t)' /\ proc'[t].for = "migrate"
    /\ proc'[t].pub = pub[In[t]] /\ old[In[t]] # NoKey /\ rows' = rows /\ pub' = pub

Keeps(t) ==
    /\ SameKeyNow(t) \/ Loads(t) \/ Makes(t) \/ Migrates(t)
    /\ \/ pub' = pub
       \/ SetItem(t) /\ pub' = [pub EXCEPT ![In[t]] = proc[t].pub]
    /\ \A b \in Browsers : old'[b] = old[b] \/ old'[b] = NoKey
    /\ Logged(proc'[t].pc) /\ proc'[t].dev # NoDev =>
         \/ Logged(proc[t].pc) /\ proc'[t].dev = proc[t].dev
         \/ rows'[proc'[t].dev].key = proc[t].pub /\ WithPub(proc[t].pc)
    /\ \/ device'[t] \in {device[t], NoDev, saved[In[t]]}
       \/ device'[t] = proc[t].dev /\ Logged(proc[t].pc)
    /\ \/ saved'[In[t]] \in {saved[In[t]], NoDev, device[t]}
       \/ saved'[In[t]] = proc[t].dev /\ Logged(proc[t].pc)
    /\ device'[t] # device[t] => proc'[t].for # "regenerate"
    /\ proc'[t].pc = "revoke" => \/ proc'[t].for = "regenerate"
                                 \/ proc'[t] = proc[t]

LEMMA StorageKeeps ==
    ASSUME TInv, NEW t \in Tabs, Storage(t)
    PROVE  Keeps(t)
<1>1. CASE Put(t)
  <2>1. /\ proc[t].pc = "put" /\ proc'[t].pc = "set"
        /\ proc'[t].pub = proc[t].pub /\ proc'[t].for = proc[t].for
    BY <1>1, PutNow DEF Put, At, NowAt, Now
  <2> QED
    BY <1>1, <2>1 DEF Put, Keeps, SameKeyNow, Storing, Logged, session
<1>2. CASE SetItem(t)
  <2>1. /\ proc[t].pc = "set"
        /\ \/ proc'[t].pc = "load" /\ proc'[t].pub = 0 /\ proc'[t].for = "login"
           \/ /\ proc'[t].pc \in {"check", "register"}
              /\ proc'[t].pub = proc[t].pub /\ proc'[t].for = proc[t].for
    BY <1>2, SetItemNow DEF SetItem, At, NowWithPair, Now
  <2>2. \A b \in Browsers : old'[b] = old[b] \/ old'[b] = NoKey
    BY <1>2, Stores DEF SetItem
  <2> QED
    BY <1>2, <2>1, <2>2 DEF SetItem, PublicKey, Keeps, SameKeyNow, Loads, Storing, Logged, session
<1>3. CASE PutFails(t)
  <2>1. /\ proc'[t].pc \in {"load", "idle"} /\ proc'[t].pub = 0
        /\ proc'[t].for \in {"login", "none"}
    BY <1>3, PutFailsNow DEF NowIdle, Now
  <2> QED
    BY <1>3, <2>1 DEF PutFails, Keeps, Loads, Storing, Logged, session, storage
<1>4. CASE LoadPair(t) \/ LoadFails(t)
  <2>1. /\ proc[t].pc = "load" /\ session' = session /\ pub' = pub /\ old' = old /\ rows' = rows
    BY <1>4 DEF LoadPair, LoadFails, At, server
  <2>2. \/ /\ proc'[t].pc = "check" /\ proc'[t].pub = pub[In[t]]
           /\ proc'[t].for = proc[t].for
        \/ /\ proc'[t].pc = "put" /\ proc'[t].pub = keys + 1 /\ proc'[t].for = "login"
    BY <1>4, LoadPairNow, LoadFailsNow DEF Now, NowWithPair
  <2> QED
    BY <2>1, <2>2 DEF Keeps, Loads, Makes, Storing, Logged, session
<1> QED
  BY <1>1, <1>2, <1>3, <1>4 DEF Storage

LEMMA LoginKeeps ==
    ASSUME TInv, NEW t \in Tabs, Login(t)
    PROVE  Keeps(t)
<1>1. CASE Submit(t)
  <2>1. \/ /\ proc'[t].pc = "put" /\ proc'[t].pub = pub[In[t]] /\ proc'[t].for = "migrate"
           /\ old[In[t]] # NoKey
        \/ /\ proc'[t].pc = "load" /\ proc'[t].pub = 0 /\ proc'[t].for = "login"
    BY <1>1, SubmitNow DEF Now
  <2> QED
    BY <1>1, <2>1 DEF Submit, Keeps, Loads, Migrates, Storing, Logged, session, storage, server
<1>2. CASE NameDevice(t)
  <2>1. /\ proc[t].pc = "naming" /\ proc'[t].pc = "find" /\ proc'[t].pub = pub[In[t]]
        /\ proc'[t].for = proc[t].for
    BY <1>2, NameDeviceNow DEF NameDevice, At, NowWithPair, Now
  <2> QED
    BY <1>2, <2>1 DEF NameDevice, Keeps, Loads, Storing, Logged, session, storage
<1>3. CASE CheckDevice(t) \/ FindDevice(t) \/ UpdateLastSeen(t) \/ SetCurrent(t)
  <2>1. /\ proc[t].pc \in {"check", "find", "seen", "current"}
        /\ UNCHANGED <<storage, session>>
    BY <1>3 DEF CheckDevice, FindDevice, UpdateLastSeen, SetCurrent, At
  <2>2. \/ /\ proc'[t].pc \in {"find", "register"}
           /\ proc'[t].pub = proc[t].pub /\ proc'[t].for = proc[t].for
        \/ /\ proc[t].pc \in {"seen", "current"} /\ proc'[t].pc \in {"current", "answer"}
           /\ proc'[t].dev = proc[t].dev
           /\ proc'[t].pub = proc[t].pub /\ proc'[t].for = proc[t].for
        \/ /\ proc'[t].pc \in {"naming", "answer", "idle"} /\ proc'[t].pub = 0
           /\ proc'[t].dev = NoDev /\ proc'[t].for \in {"naming", "none", proc[t].for}
    BY <1>3, CheckDeviceNow, FindDeviceNow, UpdateLastSeenNow, SetCurrentNow
       DEF NowAt, NowFailed, NowIdle, Now, UpdateLastSeen, SetCurrent, At, NoDev
  <2> QED
    BY <2>1, <2>2 DEF Keeps, SameKeyNow, Loads, Storing, Logged, session, storage
<1>4. CASE Answer(t)
  <2>1. /\ proc[t].pc = "answer" /\ pub' = pub /\ old' = old
        /\ \/ device' = device /\ saved' = saved
           \/ device'[t] = proc[t].dev /\ saved'[In[t]] = proc[t].dev
    BY <1>4, StateType, Stores DEF Answer, At, session, storage
  <2>2. /\ proc'[t].pc \in {"naming", "idle"} /\ proc'[t].pub = 0
        /\ proc'[t].for \in {"naming", "none"}
    BY <1>4, AnswerNow DEF NowFailed, NowIdle, Now
  <2> QED
    BY <2>1, <2>2 DEF Keeps, Loads, Storing, Logged
<1> QED
  BY <1>1, <1>2, <1>3, <1>4 DEF Login

LEMMA RegisterKeeps ==
    ASSUME TInv, NEW t \in Tabs, RegisterDevice(t)
    PROVE  Keeps(t)
<1>1. /\ UNCHANGED <<storage, session>>
      /\ proc[t].pc \in {"register", "count", "create", "default"}
  BY DEF RegisterDevice, FindSameKey, CountDevices, CreateDevice, SetFirstDefault, At
<1>2. CASE FindSameKey(t)
  <2>1. rows' = rows /\ proc[t].pc = "register"
    BY <1>2 DEF FindSameKey, server, At
  <2>2. \/ /\ proc'[t].pc = "count" /\ proc'[t].pub = proc[t].pub
           /\ proc'[t].for = proc[t].for
        \/ /\ proc'[t].pc = (IF proc[t].for = "regenerate" THEN "revoke" ELSE "seen")
           /\ proc'[t].pub = 0 /\ proc'[t].for = proc[t].for
           /\ rows[proc'[t].dev].key = proc[t].pub
    BY <1>2, FindSameKeyNow DEF Now, NowRegistered, SameKey, WithKey
  <2> QED
    BY <1>1, <2>1, <2>2 DEF Keeps, SameKeyNow, Loads, Storing, Logged, WithPub, session, storage
<1>3. CASE CountDevices(t)
  <2>1. /\ proc'[t].pc = "create" /\ proc'[t].pub = proc[t].pub /\ proc'[t].for = proc[t].for
    BY <1>3, CountDevicesNow DEF Now, NowAt
  <2> QED
    BY <1>1, <2>1 DEF Keeps, SameKeyNow, Storing, Logged, session, storage
<1>4. CASE CreateDevice(t)
  <2>1. /\ proc[t].pc = "create" /\ rows'[proc'[t].dev].key = proc[t].pub
        /\ proc'[t].for = proc[t].for
        /\ \/ proc'[t].pc = "default" /\ proc'[t].pub = proc[t].pub
           \/ /\ proc'[t].pc = (IF proc[t].for = "regenerate" THEN "revoke" ELSE "current")
              /\ proc'[t].pub = 0
    BY <1>4, CreateDeviceNow DEF CreateDevice, At, Now, NowRegistered
  <2> QED
    BY <1>1, <2>1 DEF Keeps, SameKeyNow, Loads, Storing, Logged, WithPub, session, storage
<1>5. CASE SetFirstDefault(t)
  <2>1. /\ proc[t].pc = "default" /\ proc'[t].dev = proc[t].dev /\ proc'[t].pub = 0
        /\ proc'[t].pc = (IF proc[t].for = "regenerate" THEN "revoke" ELSE "current")
        /\ proc'[t].for = proc[t].for
    BY <1>5, SetFirstDefaultNow DEF SetFirstDefault, At, Now, NowRegistered
  <2> QED
    BY <1>1, <2>1 DEF Keeps, Loads, Storing, Logged, session, storage
<1> QED
  BY <1>2, <1>3, <1>4, <1>5 DEF RegisterDevice

LEMMA SettingsKeeps ==
    ASSUME TInv, NEW t \in Tabs, Settings(t)
    PROVE  Keeps(t)
<1>1. UNCHANGED <<pub, old, device, saved>>
  BY DEF Settings, Regenerate, Revoke, ChooseDevice, CheckCurrent, Remove, FindChosen,
         SetDefault, storage, session
<1>2. CASE Regenerate(t)
  <2>1. /\ proc'[t].pc = "put" /\ proc'[t].pub = keys + 1 /\ proc'[t].for = "regenerate"
        /\ rows' = rows
    BY <1>2, RegenerateNow DEF Now, Regenerate, server
  <2> QED
    BY <1>1, <2>1 DEF Keeps, Makes, Storing, Logged
<1>3. ASSUME NEW d \in Ids, NEW pc \in {"delete", "choose"}, ChooseDevice(t, d, pc)
      PROVE  Keeps(t)
  <2>1. proc'[t].pc = pc /\ proc'[t].pub = 0 /\ proc'[t].for = "settings"
    BY <1>3, ChooseDeviceNow DEF Now
  <2> QED
    BY <1>1, <2>1 DEF Keeps, Loads, Storing, Logged
<1>4. CASE Revoke(t) \/ CheckCurrent(t) \/ Remove(t) \/ FindChosen(t) \/ SetDefault(t)
  <2>1. \/ proc'[t].pc = "idle" /\ proc'[t].pub = 0 /\ proc'[t].for = "none"
        \/ /\ proc'[t].pc \in {"remove", "chosen"}
           /\ proc'[t].pub = proc[t].pub /\ proc'[t].for = proc[t].for
    BY <1>4, EndsNow, CheckCurrentNow, FindChosenNow DEF Now, NowAt, NowIdle
  <2>2. ~Storing(t)
    BY <1>4 DEF Revoke, CheckCurrent, Remove, FindChosen, SetDefault, At, Storing
  <2> QED
    BY <1>1, <2>1, <2>2 DEF Keeps, Loads, SameKeyNow, Storing, Logged
<1> QED
  BY <1>2, <1>3, <1>4 DEF Settings

LEMMA PageKeeps ==
    ASSUME TInv, NEW t \in Tabs, Page(t)
    PROVE  Keeps(t)
<1>1. UNCHANGED <<storage, rows>>
  BY DEF Page, Fails, Reload, SaveAuthState, Logout, Send, server
<1>2. CASE Fails(t)
  <2>1. /\ proc'[t].pc \in {"naming", "idle"} /\ proc'[t].pub = 0
        /\ proc'[t].for \in {"naming", "none"}
    BY <1>2, FailsNow DEF NowFailed, NowIdle, Now
  <2> QED
    BY <1>1, <1>2, <2>1 DEF Fails, Keeps, Loads, Storing, Logged, session, storage
<1>3. CASE Reload(t)
  <2>1. proc'[t].pc = "idle" /\ proc'[t].pub = 0 /\ proc'[t].for = "none"
    BY <1>3, EndsNow DEF NowIdle, Now
  <2>2. device'[t] = saved[In[t]] /\ saved' = saved
    BY <1>3, Stores DEF Reload
  <2> QED
    BY <1>1, <2>1, <2>2 DEF Keeps, Loads, Storing, Logged, storage
<1>4. CASE SaveAuthState(t) \/ Logout(t) \/ Send(t)
  <2>1. /\ proc' = proc
        /\ device'[t] \in {device[t], NoDev} /\ saved'[In[t]] \in {saved[In[t]], device[t], NoDev}
    BY <1>4, StateType, Stores DEF SaveAuthState, Logout, Send, session
  <2>2. device'[t] # device[t] => proc[t].for # "regenerate"
    BY <1>4, Stores, IdleFields DEF SaveAuthState, Logout, Send, session, At, TInv, TypeOK
  <2> QED
    BY <1>1, <2>1, <2>2 DEF Keeps, SameKeyNow, Storing, storage
<1> QED
  BY <1>2, <1>3, <1>4 DEF Page

LEMMA StepKeeps ==
    ASSUME TInv, NEW t \in Tabs, Step(t)
    PROVE  Keeps(t)
BY StorageKeeps, LoginKeeps, RegisterKeeps, SettingsKeeps, PageKeeps DEF Step

(* no second tab of a browser that still has an old key: two tabs that migrate it at *)
(* once can put the old public key back after a regeneration has revoked its device  *)
LegacyAlone == \A t, u \in Tabs : In[t] = In[u] /\ In[t] \in Legacy => t = u

Generated(t) == Storing(t) /\ proc[t].for # "migrate"

(* a key just generated is nowhere else *)
Fresh ==
    \A t \in Tabs : Generated(t) =>
        /\ \A d \in 1..Len(rows) : rows[d].key # proc[t].pub
        /\ \A b \in Browsers : pub[b] # proc[t].pub
        /\ \A u \in Tabs \ {t} : proc[u].pub # proc[t].pub

Migrating ==
    /\ \A b \in Browsers : old[b] # NoKey => b \in Legacy
    /\ \A t \in Tabs : Storing(t) /\ proc[t].for = "migrate"
                         => In[t] \in Legacy /\ proc[t].pub = pub[In[t]]

(* k is not the public key of a browser other than b *)
Own(b, k) == \A c \in Browsers : c # b => pub[c] # k

(* a browser, its sessions and its functions have keys of their own *)
Owned ==
    /\ \A b \in Browsers : pub[b] # NoKey => Own(b, pub[b])
    /\ \A b \in Browsers : saved[b] # NoDev => Own(b, rows[saved[b]].key)
    /\ \A t \in Tabs :
         /\ device[t] # NoDev => Own(In[t], rows[device[t]].key)
         /\ proc[t].pub # NoKey => Own(In[t], proc[t].pub)
         /\ Logged(proc[t].pc) /\ proc[t].dev # NoDev => Own(In[t], rows[proc[t].dev].key)

(* when a regeneration has stored its pair, the device of the session has another *)
Replaced ==
    \A t \in Tabs :
        /\ proc[t].for = "regenerate" /\ ~Storing(t) /\ device[t] # NoDev
             => pub[In[t]] # rows[device[t]].key
        /\ proc[t].pc = "revoke" => proc[t].for = "regenerate"

LockInv == TInv /\ Fresh /\ Migrating /\ Owned /\ Replaced /\ NotLockedOut

(* a step stores a key that is nowhere else, or leaves the public keys alone *)
LEMMA PubStep ==
    ASSUME LockInv, NEW t \in Tabs, Keeps(t)
    PROVE  \/ pub' = pub
           \/ /\ SetItem(t) /\ Generated(t) /\ proc[t].pub # NoKey
              /\ pub'[In[t]] = proc[t].pub
              /\ \A b \in Browsers \ {In[t]} : pub'[b] = pub[b]
<1> USE DEF LockInv
<1>1. CASE SetItem(t) /\ pub' = [pub EXCEPT ![In[t]] = proc[t].pub]
  <2>1. Storing(t) /\ proc[t].pub # NoKey
    BY <1>1 DEF SetItem, At, Storing, TInv, GoodProc, WithPub
  <2>2. In[t] \in Browsers
    BY StateType
  <2>3. CASE proc[t].for = "migrate"
    BY <1>1, <2>1, <2>2, <2>3, Stores DEF Migrating
  <2>4. CASE proc[t].for # "migrate"
    BY <1>1, <2>1, <2>2, <2>4, Stores DEF Generated
  <2> QED
    BY <2>3, <2>4
<1> QED
  BY <1>1 DEF Keeps

LEMMA Below ==
    ASSUME TInv
    PROVE  /\ keys \in Nat
           /\ \A d \in 1..Len(rows) : rows[d].key # keys + 1
           /\ \A b \in Browsers : pub[b] # keys + 1
           /\ \A u \in Tabs : proc[u].pub # keys + 1
<1>1. keys \in Nat /\ \A d \in 1..Len(rows) : rows[d].key \in 1..keys
  BY StateType
<1>2. \A b \in Browsers : pub[b] \in 0..keys
  BY StateType
<1>3. \A u \in Tabs : proc[u].pub \in 0..keys
  BY DEF TInv, GoodProc
<1> QED
  BY <1>1, <1>2, <1>3

(* a new row has the key of the function that creates it *)
LEMMA RowKeys ==
    ASSUME TInv, NEW t \in Tabs, Frame(t), NEW d \in 1..Len(rows')
    PROVE  \/ d \in 1..Len(rows) /\ rows'[d].key = rows[d].key
           \/ /\ CreateDevice(t) /\ rows'[d].key = proc[t].pub /\ rows'[d].status = "active"
              /\ ~Storing(t)
<1>1. Len(rows) \in Nat
  BY StateType
<1>2. CASE d <= Len(rows)
  BY <1>1, <1>2, RowsKept
<1>3. CASE d > Len(rows)
  <2>1. CreateDevice(t)
    BY <1>1, <1>3, RowsKept
  <2>2. d = Len(rows')
    <3>1. Len(rows') = Len(rows) + 1
      BY <2>1, CreateDeviceNow
    <3> QED
      BY <1>1, <1>3, <3>1
  <2> QED
    BY <2>1, <2>2, CreateDeviceNow DEF CreateDevice, At, Storing
<1> QED
  BY <1>1, <1>2, <1>3

LEMMA FreshStep ==
    ASSUME LockInv, NEW t \in Tabs, Frame(t), Keeps(t)
    PROVE  Fresh'
<1> USE DEF LockInv
<1> SUFFICES ASSUME NEW u \in Tabs, Generated(u)'
             PROVE  /\ \A d \in 1..Len(rows') : rows'[d].key # proc'[u].pub
                    /\ \A b \in Browsers : pub'[b] # proc'[u].pub
                    /\ \A v \in Tabs \ {u} : proc'[v].pub # proc'[u].pub
  BY DEF Fresh
<1>1. CASE u # t
  <2>1. proc'[u] = proc[u] /\ Generated(u)
    BY <1>1 DEF Frame, Generated, Storing
  <2>2. proc[u].pub # 0 /\ proc[u].pub # keys + 1
    BY <2>1, Below DEF Generated, Storing, TInv, GoodProc, WithPub, NoKey
  <2>3. ASSUME NEW d \in 1..Len(rows')
        PROVE  rows'[d].key # proc[u].pub
    BY <1>1, <2>1, RowKeys DEF Fresh
  <2>4. ASSUME NEW b \in Browsers
        PROVE  pub'[b] # proc[u].pub
    BY <1>1, <2>1, PubStep DEF Fresh
  <2>5. ASSUME NEW v \in Tabs \ {u}
        PROVE  proc'[v].pub # proc[u].pub
    <3>1. CASE v # t
      BY <2>1, <3>1 DEF Fresh, Frame
    <3>2. CASE v = t
      <4>1. proc'[t].pub \in {0, proc[t].pub, pub[In[t]], keys + 1}
        BY DEF Keeps, SameKeyNow, Loads, Makes, Migrates
      <4> QED
        BY <1>1, <2>1, <2>2, <3>2, <4>1, StateType DEF Fresh
    <3> QED
      BY <3>1, <3>2
  <2> QED
    BY <2>1, <2>3, <2>4, <2>5
<1>2. CASE u = t
  <2>1. \A v \in Tabs \ {u} : proc'[v] = proc[v]
    BY <1>2 DEF Frame
  <2>2. CASE SameKeyNow(t)
    <3>1. Generated(t) /\ proc'[t].pub = proc[t].pub /\ pub' = pub
      BY <1>2, <2>2 DEF SameKeyNow, Generated
    <3>2. \A d \in 1..Len(rows') : d \in 1..Len(rows) /\ rows'[d].key = rows[d].key
      BY <3>1, RowKeys DEF Generated
    <3> QED
      BY <1>2, <2>1, <3>1, <3>2 DEF Fresh
  <2>3. CASE Makes(t)
    BY <1>2, <2>1, <2>3, Below DEF Makes
  <2> QED
    BY <1>2, <2>2, <2>3 DEF Keeps, Loads, Migrates, Generated
<1> QED
  BY <1>1, <1>2

LEMMA MigratingStep ==
    ASSUME LegacyAlone, LockInv, NEW t \in Tabs, Frame(t), Keeps(t)
    PROVE  Migrating'
<1> USE DEF LockInv
<1>1. ASSUME NEW b \in Browsers, old'[b] # NoKey
      PROVE  b \in Legacy
  BY <1>1 DEF Keeps, Migrating
<1>2. ASSUME NEW u \in Tabs, Storing(u)', proc'[u].for = "migrate"
      PROVE  In[u] \in Legacy /\ proc'[u].pub = pub'[In[u]]
  <2>1. CASE u # t
    <3>1. /\ proc'[u] = proc[u]
          /\ In[u] \in Legacy /\ proc[u].pub = pub[In[u]] /\ In[u] \in Browsers
      BY <1>2, <2>1, StateType DEF Frame, Migrating, Storing
    <3>2. In[u] # In[t]
      BY <2>1, <3>1 DEF LegacyAlone
    <3> QED
      BY <3>1, <3>2, PubStep
  <2>2. CASE u = t
    <3>1. CASE SameKeyNow(t)
      BY <1>2, <2>2, <3>1 DEF SameKeyNow, Migrating
    <3>2. CASE Migrates(t)
      BY <2>2, <3>2, StateType DEF Migrates, Migrating
    <3> QED
      BY <1>2, <2>2, <3>1, <3>2 DEF Keeps, Loads, Makes
  <2> QED
    BY <2>1, <2>2
<1> QED
  BY <1>1, <1>2 DEF Migrating

OwnNext(b, k) == \A c \in Browsers : c # b => pub'[c] # k

LEMMA OwnKept ==
    ASSUME LockInv, NEW t \in Tabs, Keeps(t), NEW b \in Browsers, NEW k, Own(b, k),
           b = In[t] \/ (Generated(t) => k # proc[t].pub)
    PROVE  OwnNext(b, k)
BY PubStep DEF Own, OwnNext

LEMMA OwnRow ==
    ASSUME LockInv, NEW t \in Tabs, Frame(t), Keeps(t), NEW b \in Browsers,
           NEW d \in 1..Len(rows), Own(b, rows[d].key)
    PROVE  OwnNext(b, rows'[d].key)
<1>1. rows'[d].key = rows[d].key
  BY RowsKept DEF LockInv
<1>2. Generated(t) => rows[d].key # proc[t].pub
  BY DEF LockInv, Fresh
<1>3. OwnNext(b, rows[d].key)
  BY <1>2, OwnKept
<1> QED
  BY <1>1, <1>3

LEMMA OwnedStep ==
    ASSUME LockInv, NEW t \in Tabs, Frame(t), Local(t), Keeps(t)
    PROVE  Owned'
<1> USE DEF LockInv
<1>1. /\ In[t] \in Browsers /\ \A u \in Tabs : In[u] \in Browsers
      /\ Len(rows) \in Nat
      /\ \A b \in Browsers : saved[b] # NoDev => saved[b] \in 1..Len(rows)
      /\ \A u \in Tabs : /\ device[u] # NoDev => device[u] \in 1..Len(rows)
                         /\ proc[u].dev # NoDev => proc[u].dev \in 1..Len(rows)
  <2>1. \A b \in Browsers : saved[b] \in 0..Len(rows)
    BY Stores
  <2>2. \A u \in Tabs : device[u] \in 0..Len(rows) /\ proc[u].dev \in 0..Len(rows)
    BY Stores DEF TInv, GoodProc
  <2> QED
    BY <2>1, <2>2, StateType DEF NoDev
<1>2. ASSUME NEW b \in Browsers, pub'[b] # NoKey
      PROVE  OwnNext(b, pub'[b])
  <2>1. CASE pub'[b] = pub[b]
    BY <1>2, <2>1, OwnKept DEF Owned, Fresh
  <2>2. CASE b = In[t] /\ Generated(t) /\ pub'[b] = proc[t].pub
    <3>1. Own(b, proc[t].pub)
      BY <2>2 DEF Fresh, Own
    <3> QED
      BY <2>2, <3>1, OwnKept
  <2> QED
    BY <2>1, <2>2, PubStep
<1>3. ASSUME NEW b \in Browsers, saved'[b] # NoDev
      PROVE  OwnNext(b, rows'[saved'[b]].key)
  <2>1. \/ saved'[b] = saved[b]
        \/ b = In[t] /\ saved'[b] = device[t]
        \/ b = In[t] /\ saved'[b] = proc[t].dev /\ Logged(proc[t].pc)
    BY <1>3 DEF Keeps, Local
  <2> QED
    BY <1>1, <1>3, <2>1, OwnRow DEF Owned
<1>4. ASSUME NEW u \in Tabs, device'[u] # NoDev
      PROVE  OwnNext(In[u], rows'[device'[u]].key)
  <2>1. \/ device'[u] = device[u]
        \/ u = t /\ device'[u] = saved[In[t]]
        \/ u = t /\ device'[u] = proc[t].dev /\ Logged(proc[t].pc)
    BY <1>4 DEF Keeps, Local
  <2> QED
    BY <1>1, <1>4, <2>1, OwnRow DEF Owned
<1>5. ASSUME NEW u \in Tabs, proc'[u].pub # NoKey
      PROVE  OwnNext(In[u], proc'[u].pub)
  <2>1. CASE u # t
    <3>1. proc'[u] = proc[u]
      BY <2>1 DEF Frame
    <3>2. Own(In[u], proc[u].pub) /\ (Generated(t) => proc[u].pub # proc[t].pub)
      BY <1>5, <2>1, <3>1 DEF Owned, Fresh
    <3> QED
      BY <1>1, <3>1, <3>2, OwnKept
  <2>2. CASE u = t /\ proc'[t].pub = proc[t].pub
    BY <1>1, <1>5, <2>2, OwnKept DEF Owned
  <2>3. CASE u = t /\ proc'[t].pub = pub[In[t]] /\ pub' = pub
    BY <1>1, <1>5, <2>3 DEF Owned, Own, OwnNext
  <2>4. CASE u = t /\ proc'[t].pub = keys + 1 /\ pub' = pub
    BY <2>4, Below DEF OwnNext
  <2> QED
    BY <1>5, <2>1, <2>2, <2>3, <2>4 DEF Keeps, SameKeyNow, Loads, Makes, Migrates, NoKey
<1>6. ASSUME NEW u \in Tabs, Logged(proc'[u].pc), proc'[u].dev # NoDev
      PROVE  OwnNext(In[u], rows'[proc'[u].dev].key)
  <2>1. CASE u # t
    <3>1. proc'[u] = proc[u]
      BY <2>1 DEF Frame
    <3> QED
      BY <1>1, <1>6, <3>1, OwnRow DEF Owned
  <2>2. CASE u = t /\ Logged(proc[t].pc) /\ proc'[t].dev = proc[t].dev
    BY <1>1, <1>6, <2>2, OwnRow DEF Owned
  <2>3. CASE u = t /\ rows'[proc'[t].dev].key = proc[t].pub /\ WithPub(proc[t].pc)
    <3>1. proc[t].pub # NoKey
      BY <2>3 DEF TInv, GoodProc
    <3> QED
      BY <1>1, <2>3, <3>1, OwnKept DEF Owned
  <2> QED
    BY <1>6, <2>1, <2>2, <2>3 DEF Keeps
<1> QED
  BY <1>2, <1>3, <1>4, <1>5, <1>6 DEF Owned, Own, OwnNext

LEMMA ReplacedStep ==
    ASSUME LockInv, NEW t \in Tabs, Frame(t), Local(t), Keeps(t)
    PROVE  Replaced'
<1> USE DEF LockInv
<1>1. ASSUME NEW u \in Tabs, proc'[u].pc = "revoke"
      PROVE  proc'[u].for = "regenerate"
  BY <1>1 DEF Replaced, Keeps, Frame
<1>2. ASSUME NEW u \in Tabs, proc'[u].for = "regenerate", ~Storing(u)', device'[u] # NoDev
      PROVE  pub'[In[u]] # rows'[device'[u]].key
  <2>1. device'[u] = device[u]
    BY <1>2 DEF Keeps, Local
  <2>2. device[u] \in 1..Len(rows) /\ rows'[device[u]].key = rows[device[u]].key
    <3>1. device[u] \in 0..Len(rows)
      BY Stores
    <3>2. device[u] \in 1..Len(rows)
      BY <1>2, <2>1, <3>1, StateType DEF NoDev
    <3> QED
      BY <3>2, RowsKept
  <2>3. CASE proc[u].for = "regenerate" /\ ~Storing(u)
    <3>1. pub[In[u]] # rows[device[u]].key
      BY <1>2, <2>1, <2>3 DEF Replaced
    <3>2. Generated(t) => proc[t].pub # rows[device[u]].key
      BY <2>2 DEF Fresh
    <3>3. In[u] \in Browsers
      BY StateType
    <3> QED
      BY <2>1, <2>2, <3>1, <3>2, <3>3, PubStep
  <2>4. CASE Storing(u)
    <3>1. u = t
      BY <1>2, <2>4 DEF Frame, Storing
    <3>2. SetItem(t) /\ proc[t].for = "regenerate"
      BY <1>2, <2>4, <3>1 DEF Keeps, SameKeyNow, Loads, Makes, Migrates
    <3>3. Generated(t) /\ pub'[In[t]] = proc[t].pub
      BY <2>4, <3>1, <3>2, Stores, StateType DEF Generated, SetItem, PublicKey
    <3> QED
      BY <2>1, <2>2, <3>1, <3>3 DEF Fresh
  <2>5. proc[u].for = "regenerate"
    BY <1>2 DEF Keeps, SameKeyNow, Loads, Makes, Migrates, Frame
  <2> QED
    BY <2>3, <2>4, <2>5
<1> QED
  BY <1>1, <1>2 DEF Replaced, Storing

LEMMA LockStep ==
    ASSUME LockInv, NEW t \in Tabs, Frame(t), Keeps(t)
    PROVE  NotLockedOut'
<1> USE DEF LockInv
<1> SUFFICES ASSUME NEW b \in Browsers, NEW d \in 1..Len(rows'), rows'[d].status = "revoked"
             PROVE  rows'[d].key # pub'[b]
  BY DEF NotLockedOut
<1>1. d \in 1..Len(rows) /\ rows'[d].key = rows[d].key
  BY RowKeys
<1>2. rows[d].key # pub[b]
  <2>1. CASE rows[d].status = "revoked"
    BY <1>1, <2>1 DEF NotLockedOut
  <2>2. CASE rows[d].status # "revoked"
    <3>1. Revoke(t) /\ d = device[t]
      BY <1>1, <2>2, RowsKept, StatusOnly
    <3>2. proc[t].pc = "revoke" /\ device[t] # NoDev
      BY <1>1, <3>1 DEF Revoke, At, NoDev
    <3>3. pub[In[t]] # rows[d].key
      BY <3>1, <3>2 DEF Replaced, Storing
    <3>4. Own(In[t], rows[d].key)
      BY <3>1, <3>2 DEF Owned
    <3> QED
      BY <3>3, <3>4 DEF Own
  <2> QED
    BY <2>1, <2>2
<1>3. Generated(t) => proc[t].pub # rows[d].key
  BY <1>1 DEF Fresh
<1> QED
  BY <1>1, <1>2, <1>3, PubStep

LEMMA LockInit == Init => LockInv
<1> SUFFICES ASSUME NEW loggedIn \in SUBSET {Known}, NEW had \in Pairs(Cardinality(loggedIn)),
                    Start(loggedIn, had)
             PROVE  Fresh /\ Migrating /\ Owned /\ Replaced /\ NotLockedOut
  BY TypeInit DEF LockInv, Init
<1> DEFINE n == Cardinality(loggedIn)
           One(c) == IF c \in loggedIn THEN 1 ELSE 0
<1>1. (n = 0 /\ loggedIn = {}) \/ (n = 1 /\ loggedIn = {Known})
  BY First
<1>2. /\ pub = [c \in Browsers |-> IF c \in Legacy THEN had[c] ELSE One(c)]
      /\ old = [c \in Browsers |-> IF c \in Legacy THEN had[c] ELSE NoKey]
      /\ saved = [c \in Browsers |-> One(c)]
      /\ device = [t \in Tabs |-> One(In[t])]
      /\ proc = [t \in Tabs |-> Idle]
      /\ rows = IF n = 0 THEN <<>> ELSE <<[key |-> 1, status |-> "active", after |-> 0]>>
  BY DEF Start
<1>3. \A t \in Tabs : /\ proc[t].pc = "idle" /\ proc[t].for = "none" /\ proc[t].pub = 0
                      /\ device[t] = One(In[t]) /\ ~Storing(t)
  BY <1>2, IdleFields DEF Storing
<1>4. /\ \A c : One(c) # 0 => c = Known /\ n = 1 /\ One(c) = 1
      /\ \A b \in Legacy : One(b) = 0 /\ b # Known
  BY <1>1, StartAssumption
<1>5. /\ \A b, c \in Legacy : had[b] = had[c] => b = c
      /\ \A b \in Legacy : had[b] # 0 /\ (n = 1 => had[b] # 1)
  <2>1. \A b \in Legacy : had[b] \in (n + 1)..(n + Cardinality(Legacy))
    BY DEF Pairs
  <2>2. Cardinality(Legacy) \in Nat
    BY First
  <2> QED
    BY <1>1, <2>1, <2>2 DEF Pairs
<1>6. n = 1 => rows[1].key = 1
  BY <1>2
<1>7. \A d \in 1..Len(rows) : rows[d].status = "active"
  BY <1>1, <1>2
<1> HIDE DEF One, n
<1>8. \A b \in Browsers : /\ b \in Legacy => pub[b] = had[b]
                          /\ b \notin Legacy => pub[b] = One(b)
  BY <1>2
<1>9. \A b \in Browsers : pub[b] # NoKey => Own(b, pub[b])
  BY <1>4, <1>5, <1>8 DEF Own, NoKey
<1>10. \A b \in Browsers : One(b) # 0 => Own(b, rows[One(b)].key)
  BY <1>4, <1>5, <1>6, <1>8 DEF Own
<1>11. Owned
  <2>1. \A b \in Browsers : saved[b] # NoDev => Own(b, rows[saved[b]].key)
    BY <1>2, <1>10 DEF NoDev
  <2>2. \A t \in Tabs : In[t] \in Browsers
    BY InAssumption
  <2>3. \A t \in Tabs : device[t] # NoDev => Own(In[t], rows[device[t]].key)
    BY <1>3, <1>10, <2>2 DEF NoDev
  <2> QED
    BY <1>3, <1>9, <2>1, <2>3 DEF Owned, Logged, NoKey
<1>12. Migrating
  BY <1>2, <1>3 DEF Migrating, NoKey
<1> QED
  BY <1>3, <1>7, <1>11, <1>12 DEF Fresh, Generated, Replaced, NotLockedOut

(* No browser ever stores a key whose device has been revoked, if a browser that    *)
(* still has its key in localStorage is open in one tab: a regeneration revokes the *)
(* old device only after the new key is stored, and no other tab or browser has the *)
(* old key to store again.                                                          *)
THEOREM LoginsPossible == ASSUME LegacyAlone PROVE Spec => []NotLockedOut
<1>1. LockInv /\ [Next]_vars => LockInv'
  <2> SUFFICES ASSUME LockInv, [Next]_vars PROVE LockInv'
    OBVIOUS
  <2>1. TInv'
    BY TypeStep DEF LockInv
  <2>2. CASE UNCHANGED vars
    <3>1. Fresh'
      BY <2>2 DEF LockInv, Fresh, Generated, Storing, vars, server, storage
    <3>2. Migrating'
      BY <2>2 DEF LockInv, Migrating, Storing, vars, storage
    <3>3. Owned'
      BY <2>2 DEF LockInv, Owned, Own, vars, server, storage, session
    <3>4. Replaced'
      BY <2>2 DEF LockInv, Replaced, Storing, vars, server, storage, session
    <3>5. NotLockedOut'
      BY <2>2 DEF LockInv, NotLockedOut, vars, server, storage
    <3> QED
      BY <2>1, <3>1, <3>2, <3>3, <3>4, <3>5 DEF LockInv
  <2>3. ASSUME NEW t \in Tabs, Step(t)
        PROVE  LockInv'
    <3>1. Frame(t) /\ Local(t) /\ Keeps(t)
      BY <2>3, StepFrame, StepLocal, StepKeeps DEF LockInv
    <3> QED
      BY <2>1, <3>1, FreshStep, MigratingStep, OwnedStep, ReplacedStep, LockStep DEF LockInv
  <2> QED
    BY <2>2, <2>3, SomeStep
<1>2. LockInv => NotLockedOut
  BY DEF LockInv
<1> QED
  BY <1>1, <1>2, LockInit, PTL DEF Spec

================================================================================
