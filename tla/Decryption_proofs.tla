---------------------------- MODULE Decryption_proofs ----------------------------
(***************************************************************************)
(* Theorems about Decryption, for any friends, conversations, devices,     *)
(* slots and messages.                                                     *)
(***************************************************************************)
EXTENDS Decryption, FiniteSetTheorems, WellFoundedInduction, TLAPS

--------------------------------------------------------------------------------
(* Least and greatest elements *)

LEMMA LeastElement ==
    ASSUME NEW S, S \subseteq Nat, S # {}
    PROVE  Min(S) \in S /\ \A x \in S : Min(S) <= x
<1> DEFINE Less == {p \in Nat \X Nat : p[1] < p[2]}
<1>1. IsWellFoundedOn(Less, Nat)
  BY NatLessThanWellFounded DEF OpToRel
<1>2. PICK x \in S : \A y \in S : <<y, x>> \notin Less
  <2> HIDE DEF Less
  <2> QED
    BY <1>1, WFMin
<1>3. ASSUME NEW y \in S, ~(x <= y)
      PROVE  FALSE
  <2>1. <<y, x>> \in Nat \X Nat /\ <<y, x>>[1] = y /\ <<y, x>>[2] = x /\ y < x
    BY <1>3
  <2>2. <<y, x>> \in Less
    BY <2>1
  <2> QED
    BY <1>2, <2>2
<1> QED
  BY <1>3 DEF Min

LEMMA Fewer ==
    ASSUME NEW T, NEW U, IsFiniteSet(T), U \subseteq T, NEW z \in T, z \notin U
    PROVE  Cardinality(U) < Cardinality(T)
<1>1. U # T /\ U \in SUBSET T
  OBVIOUS
<1>2. IsFiniteSet(U) /\ Cardinality(U) <= Cardinality(T) /\ Cardinality(U) # Cardinality(T)
  BY <1>1, FS_Subset
<1>3. Cardinality(U) \in Nat /\ Cardinality(T) \in Nat
  BY <1>2, FS_CardinalityType
<1> QED
  BY <1>2, <1>3

LEMMA GreatestElement ==
    ASSUME NEW S, S \subseteq Nat, S # {}, IsFiniteSet(S)
    PROVE  Max(S) \in S
<1> DEFINE Above(x) == {y \in S : y > x}
           Counts == {Cardinality(Above(x)) : x \in S}
<1>1. \A x \in S : IsFiniteSet(Above(x)) /\ Cardinality(Above(x)) \in Nat
  BY FS_Subset, FS_CardinalityType
<1>2. Min(Counts) \in Counts /\ \A n \in Counts : Min(Counts) <= n
  <2>1. Counts \subseteq Nat /\ Counts # {}
    BY <1>1
  <2> HIDE DEF Counts
  <2> QED
    BY <2>1, LeastElement
<1>3. PICK x \in S : \A y \in S : Cardinality(Above(x)) <= Cardinality(Above(y))
  BY <1>2
<1>4. ASSUME NEW y \in S, y > x PROVE FALSE
  <2>1. x \in Nat /\ y \in Nat /\ \A z \in S : z \in Nat
    OBVIOUS
  <2>2. y \in Above(x) /\ y \notin Above(y)
    BY <1>4, <2>1
  <2>3. \A z \in Above(y) : z \in Above(x)
    BY <1>4, <2>1
  <2>4. Cardinality(Above(y)) < Cardinality(Above(x))
    <3>1. IsFiniteSet(Above(x)) /\ Above(y) \subseteq Above(x)
      BY <1>1, <2>3
    <3> HIDE DEF Above
    <3> QED
      BY <2>2, <3>1, Fewer
  <2> QED
    BY <1>1, <1>3, <2>4
<1>5. \A y \in S : x >= y
  BY <1>4
<1> QED
  BY <1>5 DEF Max

LEMMA Capped ==
    ASSUME NEW n \in 0..MaxTries
    PROVE  Min({n + 1, MaxTries}) \in 0..MaxTries
<1>1. {n + 1, MaxTries} \subseteq Nat /\ {n + 1, MaxTries} # {}
  BY BoundsAssumption
<1>2. Min({n + 1, MaxTries}) \in {n + 1, MaxTries}
      /\ \A x \in {n + 1, MaxTries} : Min({n + 1, MaxTries}) <= x
  BY <1>1, LeastElement
<1> QED
  BY <1>2, BoundsAssumption
--------------------------------------------------------------------------------
(* Functions that start *)

(* a step starts functions in free slots only; a single one is started for sure *)
LEMMA StartsFree ==
    ASSUME NEW js, NEW n \in Nat, Len(js) = n, Starts(js), NEW J, NEW K \in SUBSET J,
           \A s \in 1..Slots : job[s] \in J, \A i \in 1..n : js[i] \in K
    PROVE  /\ job' \in [1..Slots -> J]
           /\ \A s \in 1..Slots : job'[s] # job[s] => job[s].pc = "idle" /\ job'[s] \in K
           /\ n = 1 => \E s \in 1..Slots : job[s].pc = "idle" /\ job'[s] = js[1]
<1> DEFINE Upto(s) == {r \in FreeSlots : r <= s}
           New(s) == IF s \in FreeSlots /\ Cardinality(Upto(s)) <= n
                     THEN js[Cardinality(Upto(s))] ELSE job[s]
<1>1. job' = [s \in 1..Slots |-> New(s)]
  BY DEF Starts
<1>2. FreeSlots \subseteq 1..Slots /\ IsFiniteSet(1..Slots) /\ IsFiniteSet(FreeSlots)
  <2>1. FreeSlots \in SUBSET (1..Slots)
    BY DEF FreeSlots
  <2>2. IsFiniteSet(1..Slots)
    BY BoundsAssumption, FS_Interval
  <2> QED
    BY <2>1, <2>2, FS_Subset
<1>3. ASSUME NEW s \in FreeSlots
      PROVE  Cardinality(Upto(s)) \in Nat /\ Cardinality(Upto(s)) >= 1
  <2>1. IsFiniteSet(Upto(s)) /\ s \in Upto(s)
    <3>1. Upto(s) \in SUBSET FreeSlots
      OBVIOUS
    <3>2. s \in Int
      BY <1>2
    <3> QED
      BY <1>2, <3>1, <3>2, FS_Subset
  <2> HIDE DEF Upto
  <2> QED
    BY <2>1, FS_CardinalityType, FS_EmptySet
<1>4. ASSUME NEW s \in 1..Slots, New(s) # job[s]
      PROVE  job[s].pc = "idle" /\ New(s) \in K
  <2>1. CASE s \in FreeSlots /\ Cardinality(Upto(s)) <= n
    <3>1. Cardinality(Upto(s)) \in 1..n
      BY <1>3, <2>1
    <3>2. New(s) = js[Cardinality(Upto(s))]
      BY <2>1
    <3> HIDE DEF New, Upto
    <3> QED
      BY <2>1, <3>1, <3>2 DEF FreeSlots
  <2>2. CASE ~(s \in FreeSlots /\ Cardinality(Upto(s)) <= n)
    BY <1>4, <2>2
  <2> QED
    BY <2>1, <2>2
<1>5. ASSUME n = 1
      PROVE  \E s \in 1..Slots : job[s].pc = "idle" /\ New(s) = js[1]
  <2>1. FreeSlots # {}
    <3>1. Cardinality(FreeSlots) >= 1
      BY <1>5 DEF Starts
    <3> HIDE DEF Upto, New
    <3>2. FreeSlots = {} => Cardinality(FreeSlots) = 0
      BY <1>2, FS_EmptySet
    <3> QED
      BY <3>1, <3>2
  <2>2. FreeSlots \subseteq Nat
    BY <1>2
  <2> DEFINE s == Min(FreeSlots)
  <2>3. s \in FreeSlots /\ \A x \in FreeSlots : s <= x
    BY <2>1, <2>2, LeastElement
  <2>4. Upto(s) = {s}
    <3>1. s \in Nat /\ \A x \in FreeSlots : x \in Nat
      BY <2>2, <2>3
    <3>2. \A x \in FreeSlots : x <= s <=> x = s
      BY <2>3, <3>1
    <3> HIDE DEF s
    <3> QED
      BY <2>3, <3>2
  <2>5. Cardinality(Upto(s)) = 1
    BY <2>4, FS_Singleton
  <2>6. New(s) = js[1]
    BY <1>5, <2>3, <2>5
  <2> QED
    BY <1>2, <2>3, <2>6 DEF FreeSlots
<1> HIDE DEF New
<1>6. \A s \in 1..Slots : job'[s] = New(s)
  BY <1>1
<1>7. \A s \in 1..Slots : New(s) \in J
  BY <1>4
<1>8. job' \in [1..Slots -> J]
  BY <1>1, <1>7
<1> QED
  BY <1>4, <1>5, <1>6, <1>8

--------------------------------------------------------------------------------
(* Types *)

(* keys made of a private key of this browser *)
OwnKey == [mine : 0..MaxKey, theirs : Devs]

GoodKeys(cache) ==
    /\ cache \in [user : [Friends -> SUBSET OwnKey], device : [Devs -> SUBSET OwnKey]]
    /\ \A d \in Devs : \A k \in cache.device[d] : k.theirs = d

ServerOK ==
    /\ rows \subseteq Devs
    /\ pair \in [Convs -> Pair \union {None}]
    /\ sent \in Seq(Message) /\ Len(sent) <= MaxMessages
    /\ myKey \in 0..MaxKey

PageOK ==
    /\ list \in [Convs -> Pair \union {None}]
    /\ active \in Convs \union {None}
    /\ sel \in Friends \union {None}
    /\ mapped \in [Convs -> Friends \union {None}]
    /\ reload \in [list : BOOLEAN, due : SUBSET Convs]
    /\ pick \in Friends \union {None}

TextOK ==
    /\ text \in [Ids -> Texts]
    /\ effect \in BOOLEAN /\ (effect => FailedIn(active, text) # {})
    /\ unseen \subseteq Ids
    /\ tries \in [Ids -> 0..MaxTries]

(* a function under way is about messages there are *)
GoodJob(j, n) ==
    /\ j \in Busy \union {Idle}
    /\ j.pc # "idle" => j \in Busy /\ j.todo \subseteq 1..n
    /\ j.pc = "decrypt" => j.todo # {}

JobsOK ==
    /\ job \in [1..Slots -> Busy \union {Idle}]
    /\ \A s \in 1..Slots : GoodJob(job[s], Len(sent))

TimersOK ==
    /\ timers \subseteq Timer /\ \A t \in timers : t.msg \in 1..Len(sent)
    /\ read \subseteq 1..Len(sent)

CountsOK == faults \in 0..MaxFaults /\ acts \in 0..MaxActs

(* the inductive form of TypeOK *)
TInv == ServerOK /\ PageOK /\ TextOK /\ GoodKeys(keys) /\ JobsOK /\ TimersOK /\ CountsOK

LEMMA OwnKeyIsKey == OwnKey \subseteq Key
<1> SUFFICES ASSUME NEW k \in OwnKey PROVE k \in Key
  OBVIOUS
<1>1. k.mine \in Elsewhere .. MaxKey
  BY BoundsAssumption DEF OwnKey, Elsewhere
<1> QED
  BY <1>1 DEF OwnKey, Key

LEMMA TInvTypeOK == TInv => TypeOK
<1> SUFFICES ASSUME TInv PROVE TypeOK
  OBVIOUS
<1>1. \A i \in 1..Len(sent) : i \in Ids
  BY BoundsAssumption DEF TInv, ServerOK, Ids
<1>2. keys \in [user : [Friends -> SUBSET Key], device : [Devs -> SUBSET Key]]
  BY OwnKeyIsKey DEF TInv, GoodKeys
<1>3. read \subseteq Ids
  BY <1>1 DEF TInv, TimersOK
<1>4. \A s \in 1..Slots : job[s].pc = "decrypt" => job[s].todo # {}
  BY DEF TInv, JobsOK, GoodJob
<1> QED
  BY <1>2, <1>3, <1>4 DEF TInv, TypeOK, ServerOK, PageOK, TextOK, JobsOK, TimersOK, CountsOK

LEMMA Sent ==
    ASSUME TInv, NEW m \in 1..Len(sent)
    PROVE  /\ sent[m] \in Message /\ m \in Ids /\ m \in Nat
           /\ sent[m].conv \in Convs /\ sent[m].dev \in Devs \union {NoDev}
           /\ sent[m].key \in Key /\ With[sent[m].conv] \in Friends
<1>1. sent[m] \in Message /\ m \in Ids /\ m \in Nat
  BY BoundsAssumption DEF TInv, ServerOK, Ids
<1> QED
  BY <1>1, WithAssumption DEF Message

LEMMA LoadType ==
    ASSUME NEW c \in Convs, NEW l \in [Convs -> Pair \union {None}],
           NEW f \in Friends \union {None}, NEW n \in Nat
    PROVE  /\ Load(c, l, f) \in Busy /\ GoodJob(Load(c, l, f), n)
           /\ Load(c, l, f).pc = "get" /\ Load(c, l, f).conv = c /\ Load(c, l, f).friend = f
           /\ Load(c, l, f).access => l[c] # None /\ CanAccess(l[c])
<1>1. ListedDev(l, c) \in Devs \union {NoDev}
  BY DEF ListedDev, Pair
<1>2. Load(c, l, f) \in Busy
  BY <1>1 DEF Load, Busy
<1>3. Load(c, l, f).todo = {} /\ Load(c, l, f).pc = "get" /\ Load(c, l, f).conv = c
      /\ Load(c, l, f).friend = f
  BY DEF Load
<1>4. Load(c, l, f).access => l[c] # None /\ CanAccess(l[c])
  BY DEF Load
<1> QED
  BY <1>2, <1>3, <1>4 DEF GoodJob
--------------------------------------------------------------------------------
(* Keys *)

LEMMA NoKeysGood == GoodKeys(NoKeys)
BY DEF GoodKeys, NoKeys

LEMMA MyKeyOwn ==
    ASSUME TInv, NEW d \in Devs
    PROVE  MyKey(d) \in OwnKey /\ MyKey(d).theirs = d
BY DEF TInv, ServerOK, MyKey, OwnKey

LEMMA UserKeyOwn ==
    ASSUME TInv, NEW cache, GoodKeys(cache), NEW f \in Friends
    PROVE  UserKey(cache, f) \subseteq OwnKey /\ cache.user[f] \subseteq OwnKey
<1>1. cache.user[f] \subseteq OwnKey
  BY DEF GoodKeys
<1>2. CASE DevicesOf(f) # {}
  <2>1. DevicesOf(f) \subseteq Nat /\ DevicesOf(f) \in SUBSET Devs
    BY DevsAssumption DEF DevicesOf, TInv, ServerOK
  <2>2. IsFiniteSet(DevicesOf(f))
    BY <2>1, DevsAssumption, FS_Subset
  <2>3. Max(DevicesOf(f)) \in Devs
    BY <1>2, <2>1, <2>2, GreatestElement
  <2>4. MyKey(Max(DevicesOf(f))) \in OwnKey
    BY <2>3, MyKeyOwn
  <2> QED
    BY <1>1, <1>2, <2>4 DEF UserKey
<1>3. CASE DevicesOf(f) = {}
  BY <1>1, <1>3 DEF UserKey
<1> QED
  BY <1>1, <1>2, <1>3

LEMMA DeviceKeyOwn ==
    ASSUME TInv, NEW cache, GoodKeys(cache), NEW f \in Friends, NEW d \in Devs \union {NoDev}
    PROVE  /\ DeviceKey(cache, f, d) \subseteq OwnKey
           /\ \A k \in DeviceKey(cache, f, d) : k.theirs = d
           /\ d # NoDev => cache.device[d] \subseteq OwnKey /\ \A k \in cache.device[d] : k.theirs = d
<1>1. d # NoDev => cache.device[d] \subseteq OwnKey /\ \A k \in cache.device[d] : k.theirs = d
  BY DEF GoodKeys
<1>2. CASE d \in DevicesOf(f)
  <2>1. d \in Devs
    BY <1>2 DEF DevicesOf, TInv, ServerOK
  <2>2. MyKey(d) \in OwnKey /\ MyKey(d).theirs = d
    BY <2>1, MyKeyOwn
  <2>3. DeviceKey(cache, f, d) = {MyKey(d)}
        \/ (d # NoDev /\ DeviceKey(cache, f, d) = cache.device[d])
    BY <1>2 DEF DeviceKey
  <2> QED
    BY <1>1, <2>2, <2>3
<1>3. CASE d \notin DevicesOf(f)
  <2>1. DeviceKey(cache, f, d) = {} \/ (d # NoDev /\ DeviceKey(cache, f, d) = cache.device[d])
    BY <1>3 DEF DeviceKey
  <2> QED
    BY <1>1, <2>1
<1> QED
  BY <1>2, <1>3

LEMMA AllTriedOwn ==
    ASSUME TInv, NEW cache, GoodKeys(cache), NEW f \in Friends, NEW m
    PROVE  AllTried(cache, f, m) \subseteq OwnKey
<1> SUFFICES ASSUME NEW k \in AllTried(cache, f, m)
             PROVE  k \in OwnKey
  OBVIOUS
<1>1. PICK d \in DevicesOf(f) : k \in DeviceKey(cache, f, d)
  BY DEF AllTried
<1>2. d \in Devs \union {NoDev}
  BY DEF DevicesOf, TInv, ServerOK
<1> QED
  BY <1>1, <1>2, DeviceKeyOwn

LEMMA CacheUserGood ==
    ASSUME NEW cache, GoodKeys(cache), NEW f \in Friends, NEW k \in SUBSET OwnKey
    PROVE  GoodKeys(CacheUser(cache, f, k))
<1>1. CASE k = {}
  BY <1>1 DEF CacheUser
<1>2. CASE k # {}
  <2>1. CacheUser(cache, f, k) = [cache EXCEPT !.user[f] = k]
    BY <1>2 DEF CacheUser
  <2>2. cache = [user |-> cache.user, device |-> cache.device]
        /\ cache.user \in [Friends -> SUBSET OwnKey]
    BY DEF GoodKeys
  <2>3. [cache EXCEPT !.user[f] = k]
            = [user |-> [cache.user EXCEPT ![f] = k], device |-> cache.device]
    BY <2>2
  <2>4. [cache.user EXCEPT ![f] = k] \in [Friends -> SUBSET OwnKey]
    BY <2>2
  <2> QED
    BY <2>1, <2>3, <2>4 DEF GoodKeys
<1> QED
  BY <1>1, <1>2

LEMMA CacheDevicesGood ==
    ASSUME NEW cache, GoodKeys(cache), NEW ks \in SUBSET OwnKey
    PROVE  GoodKeys(CacheDevices(cache, ks))
<1> DEFINE Of2(d) == {x \in ks : x.theirs = d}
           New(d) == IF Of2(d) = {} THEN cache.device[d] ELSE Of2(d)
<1>1. cache = [user |-> cache.user, device |-> cache.device]
      /\ cache.user \in [Friends -> SUBSET OwnKey]
      /\ cache.device \in [Devs -> SUBSET OwnKey]
  BY DEF GoodKeys
<1>2. CacheDevices(cache, ks) = [user |-> cache.user, device |-> [d \in Devs |-> New(d)]]
  <2>1. CacheDevices(cache, ks) = [cache EXCEPT !.device = [d \in Devs |-> New(d)]]
    BY DEF CacheDevices
  <2> DEFINE D == [d \in Devs |-> New(d)]
  <2> HIDE DEF D
  <2>2. [cache EXCEPT !.device = D] = [user |-> cache.user, device |-> D]
    BY <1>1
  <2> QED
    BY <2>1, <2>2 DEF D
<1>3. ASSUME NEW d \in Devs
      PROVE  New(d) \in SUBSET OwnKey /\ \A k \in New(d) : k.theirs = d
  <2>1. CASE Of2(d) = {}
    BY <1>1, <2>1 DEF GoodKeys
  <2>2. CASE Of2(d) # {}
    BY <2>2
  <2> QED
    BY <2>1, <2>2
<1> HIDE DEF New
<1>4. [d \in Devs |-> New(d)] \in [Devs -> SUBSET OwnKey]
  BY <1>3
<1> QED
  BY <1>1, <1>2, <1>3, <1>4 DEF GoodKeys

LEMMA SharedKeysGood ==
    ASSUME TInv, NEW fresh
    PROVE  GoodKeys(SharedKeys(fresh))
BY NoKeysGood DEF SharedKeys, TInv
--------------------------------------------------------------------------------
(* Decryptions *)

LEMMA Trial ==
    ASSUME TInv, NEW s \in 1..Slots, job[s].pc = "decrypt"
    PROVE  /\ job[s] \in Busy
           /\ Min(job[s].todo) \in job[s].todo /\ job[s].todo \subseteq 1..Len(sent)
           /\ Min(job[s].todo) \in 1..Len(sent)
           /\ KeyUser(s, Min(job[s].todo)) \in Friends \union {None}
           /\ KeyDev(s, Min(job[s].todo)) \in Devs \union {NoDev}
<1>1. job[s] \in Busy /\ job[s].todo \subseteq 1..Len(sent) /\ job[s].todo # {}
  BY DEF TInv, JobsOK, GoodJob
<1>2. Min(job[s].todo) \in job[s].todo
  BY <1>1, LeastElement
<1> DEFINE m == Min(job[s].todo)
<1>3. m \in 1..Len(sent)
  BY <1>1, <1>2
<1> HIDE DEF m
<1>4. With[sent[m].conv] \in Friends /\ sent[m].dev \in Devs \union {NoDev}
  BY <1>3, Sent
<1>5. job[s].friend \in Friends \union {None} /\ job[s].dev \in Devs \union {NoDev}
  BY <1>1 DEF Busy
<1>6. KeyUser(s, m) \in Friends \union {None} /\ KeyDev(s, m) \in Devs \union {NoDev}
  BY <1>4, <1>5 DEF KeyUser, KeyDev
<1> QED
  BY <1>1, <1>2, <1>3, <1>6 DEF m

(* what a decryption of message m makes of it: a text, or a text and a retry *)
Outcome(m) ==
    /\ \/ Update(m, "plain") /\ UNCHANGED <<timers, tries>>
       \/ /\ Update(m, "unavailable")
          /\ \E t \in Timer : t.msg = m /\ timers' = timers \union {t}
          /\ tries' = [tries EXCEPT ![m] = Min({@ + 1, MaxTries})]
    /\ EffectDue(active, text')

LEMMA DecryptOutcome ==
    ASSUME TInv, NEW s \in 1..Slots, NEW ok \in BOOLEAN, Decrypt(s, ok)
    PROVE  GoodKeys(keys') /\ Outcome(Min(job[s].todo)) /\ NextMessage(s)
<1> DEFINE m == Min(job[s].todo)
           f == KeyUser(s, m)
           cache == SharedKeys(job[s].fresh)
           user == IF ok THEN UserKey(cache, f) ELSE cache.user[f]
           device == IF Opens(user, m) THEN {}
                     ELSE IF ok THEN DeviceKey(cache, f, KeyDev(s, m))
                     ELSE IF KeyDev(s, m) = NoDev THEN {} ELSE cache.device[KeyDev(s, m)]
           all == IF Opens(user \union device, m) \/ ~ok THEN {} ELSE AllTried(cache, f, m)
           retry == [msg |-> m, friend |-> f, dev |-> KeyDev(s, m), fresh |-> job[s].fresh,
                     attempt |-> 1]
<1>1. /\ f # None
      /\ keys' = CacheDevices(CacheUser(keys, f, user), device \union all)
      /\ \/ Update(m, "plain") /\ UNCHANGED <<timers, tries>>
         \/ /\ Update(m, "unavailable")
            /\ timers' = timers \union {retry}
            /\ tries' = [tries EXCEPT ![m] = Min({@ + 1, MaxTries})]
      /\ NextMessage(s) /\ EffectDue(active, text')
  BY DEF Decrypt
<1>2. /\ job[s] \in Busy /\ m \in 1..Len(sent) /\ f \in Friends
      /\ KeyDev(s, m) \in Devs \union {NoDev}
  BY <1>1, Trial DEF Decrypt
<1>3. GoodKeys(cache) /\ GoodKeys(keys)
  BY SharedKeysGood DEF TInv
<1>4. user \in SUBSET OwnKey
  <2> HIDE DEF cache, f, m
  <2> QED
    BY <1>2, <1>3, UserKeyOwn
<1>5. device \union all \in SUBSET OwnKey
  <2>1. device \subseteq OwnKey
    <3> HIDE DEF cache, f, m, user
    <3> QED
      BY <1>2, <1>3, DeviceKeyOwn
  <2>2. all \subseteq OwnKey
    <3> HIDE DEF cache, f, m, user, device
    <3> QED
      BY <1>2, <1>3, AllTriedOwn
  <2> QED
    BY <2>1, <2>2
<1>6. GoodKeys(keys')
  <2> HIDE DEF cache, f, m, user, device, all
  <2>1. GoodKeys(CacheUser(keys, f, user))
    BY <1>2, <1>3, <1>4, CacheUserGood
  <2> QED
    BY <1>1, <1>5, <2>1, CacheDevicesGood
<1>7. retry \in Timer /\ retry.msg = m
  <2>1. m \in Ids /\ job[s].fresh \in BOOLEAN
    BY <1>2, Sent DEF Busy
  <2> HIDE DEF f, m
  <2> QED
    BY <1>2, <2>1 DEF Timer
<1>8. Outcome(m)
  <2> HIDE DEF m, retry
  <2> QED
    BY <1>1, <1>7 DEF Outcome
<1> QED
  BY <1>1, <1>6, <1>8

(* what a retry of message m does *)
Retried(t) ==
    \/ /\ timers' = timers \ {t}
       /\ UNCHANGED <<text, keys, effect, read, tries>>
    \/ /\ text[t.msg] = "unavailable"
       /\ Update(t.msg, "plain")
       /\ read' = read \/ (read' = read \union {t.msg} /\ sent[t.msg].key \in OwnKey)
       /\ timers' = timers \ {t}
       /\ EffectDue(active, text')
       /\ UNCHANGED tries
    \/ /\ \/ timers' = timers \ {t}
          \/ \E u \in Timer : u.msg = t.msg /\ timers' = (timers \ {t}) \union {u}
       /\ tries' = [tries EXCEPT ![t.msg] = Min({@ + 1, MaxTries})]
       /\ UNCHANGED <<text, read, effect>>

LEMMA RetryOutcome ==
    ASSUME TInv, NEW t \in timers, NEW ok \in BOOLEAN, RetryFires(t, ok)
    PROVE  GoodKeys(keys') /\ Retried(t)
<1> DEFINE cache == SharedKeys(t.fresh)
           device == IF ok THEN DeviceKey(cache, t.friend, t.dev) ELSE {}
           all == IF ok /\ ~Opens(device, t.msg) THEN AllTried(cache, t.friend, t.msg) ELSE {}
           again == [t EXCEPT !.attempt = 2]
<1>1. t \in Timer /\ t.friend \in Friends /\ t.dev \in Devs \union {NoDev}
  BY DEF TInv, TimersOK, Timer
<1>2. GoodKeys(cache) /\ GoodKeys(keys)
  BY SharedKeysGood DEF TInv
<1>3. device \in SUBSET OwnKey
  <2> HIDE DEF cache
  <2> QED
    BY <1>1, <1>2, DeviceKeyOwn
<1>4. all \in SUBSET OwnKey
  <2> HIDE DEF cache, device
  <2> QED
    BY <1>1, <1>2, AllTriedOwn
<1>5. CASE text[t.msg] # "unavailable"
  BY <1>2, <1>5 DEF RetryFires, Retried
<1>6. CASE text[t.msg] = "unavailable"
  <2>1. /\ keys' = CacheDevices(keys, device \union all)
        /\ \/ /\ Update(t.msg, "plain")
              /\ read' = read \/ (read' = read \union {t.msg} /\ Opens(all, t.msg))
              /\ timers' = timers \ {t}
              /\ EffectDue(active, text')
              /\ UNCHANGED tries
           \/ /\ timers' = (timers \ {t}) \union {again} \/ timers' = (timers \ {t}) \union {}
              /\ tries' = [tries EXCEPT ![t.msg] = Min({@ + 1, MaxTries})]
              /\ UNCHANGED <<text, read, effect>>
    BY <1>6 DEF RetryFires
  <2>2. again \in Timer /\ again.msg = t.msg
    BY <1>1 DEF Timer
  <2> HIDE DEF cache, device, all, again
  <2>3. GoodKeys(keys')
    BY <1>2, <1>3, <1>4, <2>1, CacheDevicesGood
  <2>4. Opens(all, t.msg) => sent[t.msg].key \in OwnKey
    BY <1>4 DEF Opens
  <2> QED
    BY <1>6, <2>1, <2>2, <2>3, <2>4 DEF Retried
<1> QED
  BY <1>5, <1>6
--------------------------------------------------------------------------------
(* Functions under way *)

(* the functions of the other slots go on *)
LEMMA NextMessageJobs ==
    ASSUME TInv, NEW s \in 1..Slots, job[s].pc = "decrypt", NextMessage(s)
    PROVE  /\ job' \in [1..Slots -> Busy \union {Idle}]
           /\ \A r \in (1..Slots) \ {s} : job'[r] = job[r]
           /\ \/ job'[s] = Idle /\ job[s].todo = {Min(job[s].todo)}
              \/ /\ job'[s] \in Busy /\ job'[s].pc = "decrypt"
                 /\ job'[s].todo = job[s].todo \ {Min(job[s].todo)} /\ job'[s].todo # {}
                 /\ job'[s].conv = job[s].conv /\ job'[s].access = job[s].access
<1> DEFINE m == Min(job[s].todo)
           rest == job[s].todo \ {m}
           more == [job[s] EXCEPT !.todo = rest]
<1>1. job[s] \in Busy /\ m \in job[s].todo /\ job \in [1..Slots -> Busy \union {Idle}]
  BY Trial DEF TInv, JobsOK
<1>2. /\ more \in Busy /\ more.pc = "decrypt" /\ more.todo = rest
      /\ more.conv = job[s].conv /\ more.access = job[s].access
  <2>1. rest \in SUBSET Ids
    BY <1>1 DEF Busy
  <2> HIDE DEF rest
  <2> QED
    BY <1>1, <2>1 DEF Busy
<1>3. job' = [job EXCEPT ![s] = IF rest = {} THEN Idle ELSE more]
  BY DEF NextMessage
<1> HIDE DEF more
<1>4. CASE rest = {}
  <2>1. job' = [job EXCEPT ![s] = Idle]
    BY <1>3, <1>4
  <2>2. job[s].todo = {m}
    BY <1>1, <1>4
  <2> QED
    BY <1>1, <2>1, <2>2
<1>5. CASE rest # {}
  <2>1. job' = [job EXCEPT ![s] = more]
    BY <1>3, <1>5
  <2> HIDE DEF rest
  <2> QED
    BY <1>1, <1>2, <1>5, <2>1 DEF rest
<1> QED
  BY <1>4, <1>5

LEMMA TwoTogether ==
    ASSUME NEW a, NEW b
    PROVE  Len(<<a>> \o <<b>>) = 2 /\ \A i \in 1..2 : (<<a>> \o <<b>>)[i] \in {a, b}
<1>1. <<a>> \in Seq({a, b}) /\ <<b>> \in Seq({a, b}) /\ Len(<<a>>) = 1 /\ Len(<<b>>) = 1
  OBVIOUS
<1>2. <<a>> \o <<b>> \in Seq({a, b}) /\ Len(<<a>> \o <<b>>) = Len(<<a>>) + Len(<<b>>)
  BY <1>1
<1>3. Len(<<a>> \o <<b>>) = 2
  BY <1>1, <1>2
<1>4. \A i \in 1..Len(<<a>> \o <<b>>) : (<<a>> \o <<b>>)[i] \in {a, b}
  BY <1>2
<1> QED
  BY <1>3, <1>4

(* a slot is as it was, or has taken up "j" *)
Takes(s, j) == job'[s] = job[s] \/ (job[s].pc = "idle" /\ job'[s] = j)

LEMMA OpenJobs ==
    ASSUME TInv, NEW c \in Convs, NEW l \in [Convs -> Pair \union {None}],
           NEW f \in Friends \union {None}, Open(c, l, f)
    PROVE  /\ job' \in [1..Slots -> Busy \union {Idle}]
           /\ \A s \in 1..Slots :
                 Takes(s, Load(c, list, mapped[c])) \/ Takes(s, Load(c, l, f))
<1> DEFINE one == Load(c, list, mapped[c])
           two == Load(c, l, f)
<1>1. one \in Busy /\ two \in Busy
  <2>1. list \in [Convs -> Pair \union {None}] /\ mapped[c] \in Friends \union {None}
    BY DEF TInv, PageOK
  <2> QED
    BY <2>1, LoadType
<1> DEFINE both == <<one>> \o IF c = active THEN <<>> ELSE <<two>>
           n == IF c = active THEN 1 ELSE 2
<1>2. PICK js : js = both /\ Starts(js)
  BY DEF Open, Starts
<1> HIDE DEF one, two
<1>3. Len(js) = n /\ n \in Nat /\ \A i \in 1..n : js[i] \in {one, two}
  <2>1. CASE c = active
    <3>1. js = <<one>> /\ n = 1
      <4>1. both = <<one>> /\ n = 1
        BY <2>1
      <4> HIDE DEF both
      <4> QED
        BY <1>2, <4>1
    <3>2. Len(<<one>>) = 1 /\ <<one>>[1] = one
      OBVIOUS
    <3> HIDE DEF n
    <3>3. \A i \in 1..n : js[i] \in {one, two}
      BY <3>1, <3>2
    <3> QED
      BY <3>1, <3>2, <3>3
  <2>2. CASE c # active
    <3>1. js = <<one>> \o <<two>> /\ n = 2
      <4>1. both = <<one>> \o <<two>> /\ n = 2
        BY <2>2
      <4> HIDE DEF both
      <4> QED
        BY <1>2, <4>1
    <3>2. Len(<<one>> \o <<two>>) = 2 /\ \A i \in 1..2 : (<<one>> \o <<two>>)[i] \in {one, two}
      BY TwoTogether
    <3> HIDE DEF n
    <3> QED
      BY <3>1, <3>2
  <2> QED
    BY <2>1, <2>2
<1> HIDE DEF n
<1>4. job \in [1..Slots -> Busy \union {Idle}]
  BY DEF TInv, JobsOK
<1> DEFINE J == Busy \union {Idle}
           K == {one, two}
<1>5. /\ job' \in [1..Slots -> J]
      /\ \A s \in 1..Slots : job'[s] # job[s] => job[s].pc = "idle" /\ job'[s] \in K
  <2>1. \A s \in 1..Slots : job[s] \in J
    BY <1>4
  <2>2. K \in SUBSET J /\ \A i \in 1..n : js[i] \in K
    BY <1>1, <1>3
  <2>3. Starts(js) /\ Len(js) = n /\ n \in Nat
    BY <1>2, <1>3
  <2> HIDE DEF J, K
  <2> QED
    BY <2>1, <2>2, <2>3, StartsFree
<1>6. \A s \in 1..Slots : Takes(s, one) \/ Takes(s, two)
  BY <1>3, <1>5 DEF Takes
<1> QED
  BY <1>5, <1>6 DEF one, two

(* onMessage *)
Decryption(m, friend) ==
    [pc |-> "decrypt", conv |-> m.conv, todo |-> {Len(sent) + 1}, fresh |-> TRUE,
     friend |-> friend, dev |-> NoDev, access |-> FALSE]

(* what comes with a message: the store has it, and it is decrypted or untried *)
Stored(m, id) ==
    /\ id = Len(sent) + 1 /\ id \in Ids
    /\ sent' = Append(sent, m)
    /\ \E t \in {"no recipient", "decrypting"} : text' = [text EXCEPT ![id] = t]
    /\ unseen' \subseteq unseen \union {id} /\ unseen \subseteq unseen'
    /\ reload' \in {[reload EXCEPT !.list = TRUE], reload}
    /\ EffectDue(active, text')

LEMMA ReceiveJobs ==
    ASSUME TInv, NEW m \in Message, Receive(m)
    PROVE  /\ Stored(m, Len(sent) + 1)
           /\ job' \in [1..Slots -> Busy \union {Idle}]
           /\ \/ (\A s \in 1..Slots : job'[s] = job[s]) /\ Len(sent) + 1 \in unseen'
              \/ \E friend \in Friends \union {None} :
                    /\ Decryption(m, friend) \in Busy
                    /\ \A s \in 1..Slots : Takes(s, Decryption(m, friend))
                    /\ \E s \in 1..Slots : job'[s] = Decryption(m, friend)
<1> DEFINE id == Len(sent) + 1
           friend == IF m.conv = active THEN sel ELSE mapped[m.conv]
           lost == friend = None /\ m.own
           new == Decryption(m, friend)
<1>1. id \in Ids /\ friend \in Friends \union {None} /\ m.conv \in Convs
  <2>1. Len(sent) \in Nat
    BY DEF TInv, ServerOK
  <2>2. Len(sent) < MaxMessages
    BY DEF Receive
  <2>3. m.conv \in Convs
    BY DEF Message
  <2>4. friend \in Friends \union {None}
    BY <2>3 DEF TInv, PageOK
  <2> HIDE DEF friend
  <2> QED
    BY <2>1, <2>2, <2>3, <2>4, BoundsAssumption DEF Ids
<1>2. Stored(m, id)
  BY <1>1 DEF Receive, Stored, ReloadDue
<1>3. job \in [1..Slots -> Busy \union {Idle}]
  BY DEF TInv, JobsOK
<1> DEFINE J == Busy \union {Idle}
<1>4. \A s \in 1..Slots : job[s] \in J
  BY <1>3
<1>5. CASE lost
  <2>1. id \in unseen'
    BY <1>5 DEF Receive
  <2>2. PICK js : js = <<>> /\ Starts(js)
    BY <1>5 DEF Receive, Starts
  <2>3. job' \in [1..Slots -> J] /\ \A s \in 1..Slots : job'[s] = job[s]
    <3>1. 0 \in Nat /\ Len(js) = 0 /\ Starts(js)
      BY <2>2
    <3>2. {} \in SUBSET J /\ \A i \in 1..0 : js[i] \in {}
      OBVIOUS
    <3> HIDE DEF J
    <3>3. job' \in [1..Slots -> J]
      BY <1>4, <3>1, <3>2, StartsFree
    <3>4. \A s \in 1..Slots : job'[s] # job[s] => job'[s] \in {}
      BY <1>4, <3>1, <3>2, StartsFree
    <3> QED
      BY <3>3, <3>4
  <2> QED
    BY <1>2, <2>1, <2>3
<1>6. CASE ~lost
  <2>1. new \in Busy
    <3>1. {id} \in SUBSET Ids
      BY <1>1
    <3> HIDE DEF friend
    <3> QED
      BY <1>1, <3>1 DEF Decryption, Busy
  <2>2. PICK js : js = <<new>> /\ Starts(js)
    BY <1>6 DEF Receive, Decryption, Starts
  <2> HIDE DEF new
  <2>3. Len(js) = 1 /\ js[1] = new
    BY <2>2
  <2>4. \A i \in 1..1 : js[i] = new
    BY <2>3
  <2> DEFINE K == {new}
  <2>5. K \in SUBSET J /\ \A i \in 1..1 : js[i] \in K
    BY <2>1, <2>4
  <2>6. /\ job' \in [1..Slots -> J]
        /\ \A s \in 1..Slots : job'[s] # job[s] => job[s].pc = "idle" /\ job'[s] \in K
        /\ \E s \in 1..Slots : job[s].pc = "idle" /\ job'[s] = js[1]
    <3>1. 1 \in Nat /\ Len(js) = 1 /\ Starts(js)
      BY <2>2, <2>3
    <3> HIDE DEF J, K
    <3> QED
      BY <1>4, <2>5, <3>1, StartsFree
  <2>7. \A s \in 1..Slots : Takes(s, new)
    BY <2>6 DEF Takes
  <2>8. \E s \in 1..Slots : job'[s] = new
    BY <2>3, <2>6
  <2> HIDE DEF friend
  <2> QED
    BY <1>1, <1>2, <2>1, <2>6, <2>7, <2>8 DEF new
<1> QED
  BY <1>5, <1>6
--------------------------------------------------------------------------------
(* Types are kept *)

LEMMA Counted ==
    ASSUME TInv
    PROVE  /\ Act => acts' \in 0..MaxActs
           /\ \A ok : Request(ok) => faults' \in 0..MaxFaults
<1>1. faults \in Int /\ acts \in Int /\ MaxFaults \in Int /\ MaxActs \in Int
  BY BoundsAssumption DEF TInv, CountsOK
<1>2. Act => acts' \in 0..MaxActs
  BY <1>1 DEF TInv, CountsOK, Act
<1>3. ASSUME NEW ok, Request(ok) PROVE faults' \in 0..MaxFaults
  BY <1>1, <1>3 DEF TInv, CountsOK, Request
<1> QED
  BY <1>2, <1>3

LEMMA EffectGood ==
    ASSUME TInv, EffectDue(active', text'),
           UNCHANGED sent \/ \E m \in Message : sent' = Append(sent, m)
    PROVE  effect' \in BOOLEAN /\ (effect' => FailedIn(active, text)' # {})
<1>1. effect' = (FailedIn(active', text') # {})
  BY DEF EffectDue
<1>2. ASSUME NEW m \in FailedIn(active', text')
      PROVE  m \in FailedIn(active, text)'
  <2>1. m \in 1..Len(sent') /\ sent'[m] = sent[m]
    BY <1>2 DEF FailedIn, TInv, ServerOK
  <2> QED
    BY <1>2, <2>1 DEF FailedIn
<1> QED
  BY <1>1, <1>2

LEMMA LongerJob ==
    ASSUME NEW j, NEW n \in Nat, NEW k \in Nat, n <= k, GoodJob(j, n)
    PROVE  GoodJob(j, k)
BY DEF GoodJob

LEMMA UpdateTyped ==
    ASSUME TInv, NEW m \in Ids, NEW t \in Texts, Update(m, t)
    PROVE  /\ text' \in [Ids -> Texts]
           /\ \A x \in Ids : x # m => text'[x] = text[x]
           /\ text[m] # "absent" => text'[m] = t
           /\ text[m] = "absent" => text'[m] = "absent"
BY DEF TInv, TextOK, Update

(* actions that leave the store, the keys and the functions under way alone *)
LEMMA LightTInv ==
    ASSUME TInv, ServerOK', PageOK', CountsOK',
           UNCHANGED <<sent, active, text, keys, job, effect, timers, read, unseen, tries>>
    PROVE  TInv'
<1>1. TextOK'
  BY DEF TInv, TextOK, FailedIn
<1>2. GoodKeys(keys')
  BY DEF TInv
<1>3. JobsOK' /\ TimersOK'
  BY DEF TInv, JobsOK, TimersOK
<1> QED
  BY <1>1, <1>2, <1>3 DEF TInv

LEMMA NextMessageJobsOK ==
    ASSUME TInv, NEW s \in 1..Slots, job[s].pc = "decrypt", NextMessage(s), UNCHANGED sent
    PROVE  JobsOK'
<1>1. job' \in [1..Slots -> Busy \union {Idle}]
  BY NextMessageJobs
<1>2. ASSUME NEW r \in 1..Slots
      PROVE  GoodJob(job'[r], Len(sent))
  <2>1. CASE r # s
    <3>1. job'[r] = job[r]
      BY <2>1, NextMessageJobs
    <3> QED
      BY <3>1 DEF TInv, JobsOK
  <2>2. CASE r = s
    <3>1. job[s].todo \subseteq 1..Len(sent)
      BY Trial
    <3>2. CASE job'[s] = Idle
      BY <2>2, <3>2 DEF GoodJob, Idle
    <3>3. CASE job'[s] # Idle
      BY <2>2, <3>1, <3>3, NextMessageJobs DEF GoodJob
    <3> QED
      BY <3>2, <3>3
  <2> QED
    BY <2>1, <2>2
<1> QED
  BY <1>1, <1>2 DEF JobsOK

LEMMA OutcomeTyped ==
    ASSUME TInv, NEW m \in 1..Len(sent), Outcome(m), UNCHANGED <<sent, active, unseen, read>>
    PROVE  TextOK' /\ TimersOK'
<1>1. m \in Ids
  BY Sent
<1>2. PICK t \in {"plain", "unavailable"} : Update(m, t)
  BY DEF Outcome
<1>3. text' \in [Ids -> Texts]
  BY <1>1, <1>2, UpdateTyped DEF Texts
<1>4. effect' \in BOOLEAN /\ (effect' => FailedIn(active, text)' # {})
  BY EffectGood DEF Outcome
<1>5. tries' \in [Ids -> 0..MaxTries]
  <2>1. tries[m] \in 0..MaxTries
    BY <1>1 DEF TInv, TextOK
  <2>2. Min({tries[m] + 1, MaxTries}) \in 0..MaxTries
    BY <2>1, Capped
  <2>3. tries' = tries \/ tries' = [tries EXCEPT ![m] = Min({tries[m] + 1, MaxTries})]
    BY <1>1 DEF Outcome, TInv, TextOK
  <2> QED
    BY <2>2, <2>3 DEF TInv, TextOK
<1>6. TimersOK'
  BY DEF Outcome, TInv, TimersOK
<1> QED
  BY <1>3, <1>4, <1>5, <1>6 DEF TextOK, TInv, FailedIn

LEMMA DecryptTInv ==
    ASSUME TInv, NEW s \in 1..Slots, NEW ok \in BOOLEAN, Decrypt(s, ok)
    PROVE  TInv'
<1>1. job[s].pc = "decrypt" /\ UNCHANGED <<server, page, reload, pick, read, unseen, acts>>
      /\ Request(ok)
  BY DEF Decrypt
<1>2. GoodKeys(keys') /\ Outcome(Min(job[s].todo)) /\ NextMessage(s)
  BY DecryptOutcome
<1>3. JobsOK'
  BY <1>1, <1>2, NextMessageJobsOK DEF server
<1>4. TextOK' /\ TimersOK'
  <2>1. Min(job[s].todo) \in 1..Len(sent)
    BY <1>1, Trial
  <2> QED
    BY <1>1, <1>2, <2>1, OutcomeTyped DEF server, page
<1>5. CountsOK'
  BY <1>1, Counted DEF TInv, CountsOK
<1>6. ServerOK' /\ PageOK'
  BY <1>1 DEF TInv, ServerOK, PageOK, server, page
<1> QED
  BY <1>2, <1>3, <1>4, <1>5, <1>6 DEF TInv

LEMMA NoRecipientTInv ==
    ASSUME TInv, NEW s \in 1..Slots, NoRecipient(s)
    PROVE  TInv'
<1> DEFINE m == Min(job[s].todo)
<1>1. /\ job[s].pc = "decrypt" /\ Update(m, "no recipient") /\ unseen' = unseen \union {m}
      /\ NextMessage(s) /\ EffectDue(active, text')
      /\ UNCHANGED <<server, page, keys, reload, pick, timers, read, tries, faults, acts>>
  BY DEF NoRecipient
<1>2. m \in 1..Len(sent)
  BY <1>1, Trial
<1> HIDE DEF m
<1>3. m \in Ids
  BY <1>2, Sent
<1>4. JobsOK'
  BY <1>1, NextMessageJobsOK DEF server
<1>5. text' \in [Ids -> Texts]
  BY <1>1, <1>3, UpdateTyped DEF Texts
<1>6. effect' \in BOOLEAN /\ (effect' => FailedIn(active, text)' # {})
  BY <1>1, EffectGood DEF page, server
<1>7. TextOK'
  BY <1>1, <1>3, <1>5, <1>6 DEF TInv, TextOK, FailedIn
<1> QED
  BY <1>1, <1>4, <1>7
     DEF TInv, ServerOK, PageOK, TimersOK, CountsOK, server, page

LEMMA SentSubset ==
    ASSUME TInv, NEW ms, ms \subseteq 1..Len(sent)
    PROVE  ms \subseteq Ids
BY Sent

(* attempts are counted again from a message that is stored *)
LEMMA Recounted ==
    ASSUME TInv, NEW ms, tries' = [m \in Ids |-> IF m \in ms THEN 0 ELSE tries[m]]
    PROVE  tries' \in [Ids -> 0..MaxTries]
<1>1. 0 \in 0..MaxTries /\ \A m \in Ids : tries[m] \in 0..MaxTries
  BY BoundsAssumption DEF TInv, TextOK
<1> QED
  BY <1>1

LEMMA ReloadMessagesTInv ==
    ASSUME TInv, NEW c \in Convs, NEW ok \in BOOLEAN, ReloadMessages(c, ok)
    PROVE  TInv'
<1> DEFINE ms == IF ok THEN Of(c) ELSE {}
<1>1. /\ text' = [m \in Ids |-> IF m \in ms THEN "decrypting" ELSE text[m]]
      /\ unseen' = unseen \union ms
      /\ tries' = [m \in Ids |-> IF m \in ms THEN 0 ELSE tries[m]]
      /\ reload' = [reload EXCEPT !.due = @ \ {c}]
      /\ EffectDue(active, text') /\ Request(ok)
      /\ UNCHANGED <<server, page, keys, pick, job, timers, read, acts>>
  BY DEF ReloadMessages
<1>2. ms \subseteq Ids
  BY SentSubset DEF Of
<1> HIDE DEF ms
<1>3. text' \in [Ids -> Texts] /\ tries' \in [Ids -> 0..MaxTries]
  <2>1. text' \in [Ids -> Texts]
    BY <1>1 DEF TInv, TextOK, Texts
  <2> QED
    BY <1>1, <2>1, Recounted
<1>4. effect' \in BOOLEAN /\ (effect' => FailedIn(active, text)' # {})
  BY <1>1, EffectGood DEF page, server
<1>5. CountsOK'
  BY <1>1, Counted DEF TInv, CountsOK
<1> QED
  BY <1>1, <1>2, <1>3, <1>4, <1>5
     DEF TInv, ServerOK, PageOK, TextOK, JobsOK, TimersOK, server, page

LEMMA LoadAnswerTInv ==
    ASSUME TInv, NEW s \in 1..Slots, NEW ok \in BOOLEAN, LoadAnswer(s, ok)
    PROVE  TInv'
<1>1. /\ job[s].pc = "get" /\ Request(ok)
      /\ UNCHANGED <<server, page, keys, reload, pick, timers, acts>>
  BY DEF LoadAnswer
<1>2. ServerOK' /\ PageOK' /\ CountsOK' /\ GoodKeys(keys')
  BY <1>1, Counted DEF TInv, ServerOK, PageOK, CountsOK, server, page
<1>3. GoodJob(Idle, Len(sent)) /\ Idle \in Busy \union {Idle}
  BY DEF GoodJob, Idle
<1> DEFINE ms == Of(job[s].conv)
           next == IF job[s].access THEN [job[s] EXCEPT !.pc = "decrypt", !.todo = ms]
                                    ELSE Idle
<1>4. CASE ~ok \/ ms = {}
  <2>1. Finish(s) /\ UNCHANGED <<text, unseen, tries, read, effect>>
    BY <1>4 DEF LoadAnswer
  <2>2. JobsOK'
    BY <1>1, <1>3, <2>1 DEF TInv, JobsOK, Finish, server
  <2> QED
    BY <1>1, <1>2, <2>1, <2>2 DEF TInv, TextOK, TimersOK, FailedIn, server, page
<1>5. CASE ~(~ok \/ ms = {})
  <2>1. /\ text' = [m \in Ids |-> IF m \notin ms THEN text[m]
                                  ELSE IF job[s].access THEN "decrypting" ELSE "redacted"]
        /\ unseen' = IF job[s].access THEN unseen \ ms ELSE unseen \union ms
        /\ tries' = [m \in Ids |-> IF m \in ms THEN 0 ELSE tries[m]]
        /\ read' = read \union Reads(s, ms)
        /\ job' = [job EXCEPT ![s] = next]
        /\ EffectDue(active, text')
    BY <1>5 DEF LoadAnswer
  <2>2. ms \subseteq 1..Len(sent) /\ ms # {}
    BY <1>5 DEF Of
  <2> HIDE DEF ms
  <2>3. ms \subseteq Ids
    BY <2>2, SentSubset
  <2>4. text' \in [Ids -> Texts] /\ tries' \in [Ids -> 0..MaxTries] /\ unseen' \subseteq Ids
    <3>1. text' \in [Ids -> Texts]
      BY <2>1 DEF TInv, TextOK, Texts
    <3>2. unseen' \subseteq Ids
      BY <2>1, <2>3 DEF TInv, TextOK
    <3> QED
      BY <2>1, <3>1, <3>2, Recounted
  <2>5. effect' \in BOOLEAN /\ (effect' => FailedIn(active, text)' # {})
    BY <1>1, <2>1, EffectGood DEF page, server
  <2>6. GoodJob(next, Len(sent))
    <3>1. job[s] \in Busy
      BY <1>1 DEF TInv, JobsOK, GoodJob
    <3>2. CASE job[s].access
      <4>1. next = [job[s] EXCEPT !.pc = "decrypt", !.todo = ms]
        BY <3>2
      <4>2. [job[s] EXCEPT !.pc = "decrypt", !.todo = ms] \in Busy
        BY <2>3, <3>1 DEF Busy
      <4>3. /\ [job[s] EXCEPT !.pc = "decrypt", !.todo = ms].todo = ms
            /\ [job[s] EXCEPT !.pc = "decrypt", !.todo = ms].pc = "decrypt"
        BY <3>1 DEF Busy
      <4> HIDE DEF next
      <4> QED
        BY <2>2, <4>1, <4>2, <4>3 DEF GoodJob
    <3>3. CASE ~job[s].access
      BY <1>3, <3>3
    <3> QED
      BY <3>2, <3>3
  <2> HIDE DEF next
  <2>7. JobsOK'
    BY <1>1, <2>1, <2>6 DEF TInv, JobsOK, GoodJob, server
  <2>8. TimersOK'
    <3>1. Reads(s, ms) \subseteq 1..Len(sent)
      BY <2>2 DEF Reads
    <3> QED
      BY <1>1, <2>1, <3>1 DEF TInv, TimersOK, server
  <2> QED
    BY <1>1, <1>2, <2>4, <2>5, <2>7, <2>8 DEF TInv, TextOK
<1> QED
  BY <1>4, <1>5

LEMMA RetryFiresTInv ==
    ASSUME TInv, NEW t \in timers, NEW ok \in BOOLEAN, RetryFires(t, ok)
    PROVE  TInv'
<1>1. /\ UNCHANGED <<server, page, reload, pick, job, unseen, acts>>
      /\ Request(ok) \/ UNCHANGED faults
  BY DEF RetryFires
<1>2. ServerOK' /\ PageOK' /\ CountsOK'
  BY <1>1, Counted DEF TInv, ServerOK, PageOK, CountsOK, server, page
<1>3. GoodKeys(keys') /\ Retried(t)
  BY RetryOutcome
<1>4. t.msg \in 1..Len(sent) /\ t.msg \in Ids
  BY Sent DEF TInv, TimersOK
<1>5. TimersOK'
  <2>1. timers' \subseteq Timer /\ \A u \in timers' : u.msg \in 1..Len(sent)
    BY <1>3, <1>4 DEF TInv, TimersOK, Retried
  <2>2. read' \subseteq 1..Len(sent)
    BY <1>3, <1>4 DEF TInv, TimersOK, Retried
  <2> QED
    BY <1>1, <2>1, <2>2 DEF TimersOK, server
<1>6. tries' \in [Ids -> 0..MaxTries]
  <2>1. tries[t.msg] \in 0..MaxTries
    BY <1>4 DEF TInv, TextOK
  <2>2. Min({tries[t.msg] + 1, MaxTries}) \in 0..MaxTries
    BY <2>1, Capped
  <2>3. tries' = tries \/ tries' = [tries EXCEPT ![t.msg] = Min({tries[t.msg] + 1, MaxTries})]
    BY <1>3, <1>4 DEF Retried, TInv, TextOK
  <2> QED
    BY <2>2, <2>3 DEF TInv, TextOK
<1>7. TextOK'
  <2>1. CASE UNCHANGED <<text, effect>>
    BY <1>1, <1>6, <2>1 DEF TInv, TextOK, FailedIn, server, page
  <2>2. CASE Update(t.msg, "plain") /\ EffectDue(active, text')
    <3>1. text' \in [Ids -> Texts]
      BY <1>4, <2>2, UpdateTyped DEF Texts
    <3>2. effect' \in BOOLEAN /\ (effect' => FailedIn(active, text)' # {})
      BY <1>1, <2>2, EffectGood DEF page, server
    <3> QED
      BY <1>1, <1>6, <3>1, <3>2 DEF TInv, TextOK
  <2> QED
    BY <1>3, <2>1, <2>2 DEF Retried
<1>8. JobsOK'
  BY <1>1 DEF TInv, JobsOK, server
<1> QED
  BY <1>2, <1>3, <1>5, <1>7, <1>8 DEF TInv

LEMMA RetryFailedTInv ==
    ASSUME TInv, RetryFailed
    PROVE  /\ TInv'
           /\ \A s \in 1..Slots : job'[s] # job[s] =>
                 /\ job[s].pc = "idle"
                 /\ job'[s].conv = active /\ (job'[s].access => list[active] # None
                                                               /\ CanAccess(list[active]))
           /\ \E s \in 1..Slots : job'[s].pc = "decrypt" /\ job'[s].todo = FailedIn(active, text)
<1> DEFINE failed == FailedIn(active, text)
           load == Load(active, list, mapped[active])
           new == [load EXCEPT !.pc = "decrypt", !.todo = failed]
<1>1. /\ effect /\ effect' = FALSE
      /\ UNCHANGED <<server, page, text, keys, reload, pick, timers, read, history, acts>>
  BY DEF RetryFailed
<1>2. failed # {} /\ failed \subseteq 1..Len(sent) /\ active \in Convs
  <2>1. failed # {}
    BY <1>1 DEF TInv, TextOK
  <2>2. failed \subseteq 1..Len(sent) /\ \A m \in failed : sent[m].conv = active
    BY DEF FailedIn
  <2> QED
    BY <2>1, <2>2, Sent
<1> HIDE DEF failed
<1>3. load \in Busy /\ load.conv = active /\ (load.access => list[active] # None
                                                            /\ CanAccess(list[active]))
  <2>1. list \in [Convs -> Pair \union {None}] /\ mapped[active] \in Friends \union {None}
    BY <1>2 DEF TInv, PageOK
  <2>2. 0 \in Nat
    OBVIOUS
  <2> QED
    BY <1>2, <2>1, <2>2, LoadType
<1> HIDE DEF load
<1>4. /\ new \in Busy /\ GoodJob(new, Len(sent)) /\ new.conv = active /\ new.access = load.access
      /\ new.pc = "decrypt" /\ new.todo = failed
  <2>1. failed \in SUBSET Ids
    BY <1>2, SentSubset
  <2>2. /\ new \in Busy /\ new.conv = active /\ new.access = load.access
        /\ new.pc = "decrypt" /\ new.todo = failed
    BY <1>3, <2>1 DEF Busy
  <2> HIDE DEF new
  <2> QED
    BY <1>2, <2>2 DEF GoodJob
<1>5. PICK js : js = <<new>> /\ Starts(js)
  BY DEF RetryFailed, Starts, failed, load
<1> HIDE DEF new
<1>6. Len(js) = 1 /\ js[1] = new
  BY <1>5
<1> DEFINE J == Busy \union {Idle}
           K == {new}
<1>7. /\ job' \in [1..Slots -> J]
      /\ \A s \in 1..Slots : job'[s] # job[s] => job[s].pc = "idle" /\ job'[s] \in K
      /\ \E s \in 1..Slots : job[s].pc = "idle" /\ job'[s] = js[1]
  <2>1. \A s \in 1..Slots : job[s] \in J
    BY DEF TInv, JobsOK
  <2>2. K \in SUBSET J /\ \A i \in 1..1 : js[i] \in K
    BY <1>4, <1>6
  <2>3. 1 \in Nat /\ Len(js) = 1 /\ Starts(js)
    BY <1>5, <1>6
  <2> HIDE DEF J, K
  <2> QED
    BY <2>1, <2>2, <2>3, StartsFree
<1>8. JobsOK'
  <2>1. \A s \in 1..Slots : GoodJob(job'[s], Len(sent))
    BY <1>4, <1>7 DEF TInv, JobsOK
  <2> QED
    BY <1>1, <1>7, <2>1 DEF JobsOK, server
<1>9. TInv'
  BY <1>1, <1>8 DEF TInv, ServerOK, PageOK, TextOK, TimersOK, CountsOK, server, page, history
<1>10. \A s \in 1..Slots : job'[s] # job[s] => job[s].pc = "idle" /\ job'[s] = new
  BY <1>7
<1>11. \E s \in 1..Slots : job'[s] = new
  BY <1>6, <1>7
<1> QED
  BY <1>3, <1>4, <1>9, <1>10, <1>11 DEF failed

LEMMA ReceiveTInv ==
    ASSUME TInv, NEW m \in Message, Receive(m), GoodKeys(keys'), CountsOK',
           mapped' \in [Convs -> Friends \union {None}],
           UNCHANGED <<rows, pair, myKey, list, active, sel, pick, timers, read, tries>>
    PROVE  TInv'
<1> DEFINE id == Len(sent) + 1
<1>1. id \in Ids /\ sent' = Append(sent, m) /\ unseen' \subseteq unseen \union {id}
      /\ reload' \in {[reload EXCEPT !.list = TRUE], reload} /\ EffectDue(active, text')
      /\ \E t \in {"no recipient", "decrypting"} : text' = [text EXCEPT ![id] = t]
  BY ReceiveJobs DEF Stored
<1>2. Len(sent) \in Nat /\ Len(sent') = Len(sent) + 1 /\ Len(sent') <= MaxMessages
      /\ sent' \in Seq(Message)
  <2>1. Len(sent) < MaxMessages
    BY DEF Receive
  <2>2. sent \in Seq(Message) /\ Len(sent) \in Nat /\ MaxMessages \in Nat
    BY BoundsAssumption DEF TInv, ServerOK
  <2>3. Append(sent, m) \in Seq(Message) /\ Len(Append(sent, m)) = Len(sent) + 1
    BY <2>2
  <2>4. sent' = Append(sent, m)
    BY <1>1
  <2> QED
    BY <2>1, <2>2, <2>3, <2>4
<1>3. ServerOK' /\ PageOK'
  BY <1>1, <1>2 DEF TInv, ServerOK, PageOK
<1>4. TimersOK'
  <2>1. \A i \in 1..Len(sent) : i \in 1..Len(sent')
    BY <1>2
  <2> QED
    BY <2>1 DEF TInv, TimersOK
<1>5. TextOK'
  <2>1. text' \in [Ids -> Texts]
    BY <1>1 DEF TInv, TextOK, Texts
  <2>2. effect' \in BOOLEAN /\ (effect' => FailedIn(active, text)' # {})
    BY <1>1, EffectGood
  <2> QED
    BY <1>1, <2>1, <2>2 DEF TInv, TextOK
<1>6. \A s \in 1..Slots : GoodJob(job[s], Len(sent'))
  BY <1>2, LongerJob DEF TInv, JobsOK
<1>7. JobsOK'
  <2>1. CASE \A s \in 1..Slots : job'[s] = job[s]
    BY <1>6, <2>1, ReceiveJobs DEF JobsOK
  <2>2. ASSUME NEW f \in Friends \union {None}, Decryption(m, f) \in Busy,
               \A s \in 1..Slots : Takes(s, Decryption(m, f))
        PROVE  JobsOK'
    <3>1. Decryption(m, f).todo = {id} /\ Decryption(m, f).pc = "decrypt"
      BY DEF Decryption
    <3>2. {id} \subseteq 1..Len(sent')
      BY <1>2
    <3>3. GoodJob(Decryption(m, f), Len(sent'))
      BY <2>2, <3>1, <3>2 DEF GoodJob
    <3>4. \A s \in 1..Slots : GoodJob(job'[s], Len(sent'))
      BY <1>6, <2>2, <3>3 DEF Takes
    <3> QED
      BY <3>4, ReceiveJobs DEF JobsOK
  <2> QED
    BY <2>1, <2>2, ReceiveJobs
<1> QED
  BY <1>3, <1>4, <1>5, <1>7 DEF TInv

LEMMA OpenTInv ==
    ASSUME TInv, NEW c \in Convs, NEW l \in [Convs -> Pair \union {None}],
           NEW f \in Friends \union {None}, Open(c, l, f),
           ServerOK', PageOK', CountsOK',
           UNCHANGED <<sent, text, keys, timers, read, unseen, tries>>
    PROVE  TInv'
<1>1. active' = c /\ EffectDue(active', text')
  BY DEF Open
<1>2. effect' \in BOOLEAN /\ (effect' => FailedIn(active, text)' # {})
  BY <1>1, EffectGood
<1>3. TextOK'
  BY <1>2 DEF TInv, TextOK
<1>4. Len(sent) \in Nat /\ list \in [Convs -> Pair \union {None}]
      /\ mapped[c] \in Friends \union {None}
  BY DEF TInv, ServerOK, PageOK
<1>5. GoodJob(Load(c, list, mapped[c]), Len(sent)) /\ GoodJob(Load(c, l, f), Len(sent))
  BY <1>4, LoadType
<1>6. \A s \in 1..Slots : GoodJob(job'[s], Len(sent))
  BY <1>5, OpenJobs DEF TInv, JobsOK, Takes
<1>7. JobsOK'
  BY <1>6, OpenJobs DEF JobsOK
<1> QED
  BY <1>3, <1>7 DEF TInv, TimersOK
--------------------------------------------------------------------------------
(* What is sealed *)

LEMMA SendKeyOwn ==
    ASSUME TInv, active # None, sel # None, NEW k \in SendKey(ListedDev(list, active))
    PROVE  /\ k \in OwnKey
           /\ ListedDev(list, active) # NoDev => k.theirs = ListedDev(list, active)
<1> DEFINE d == ListedDev(list, active)
<1>1. d \in Devs \union {NoDev} /\ sel \in Friends /\ GoodKeys(keys)
  BY DEF ListedDev, Pair, TInv, PageOK
<1> HIDE DEF d
<1>2. CASE d # NoDev
  <2>1. k \in DeviceKey(keys, sel, d)
    BY <1>2 DEF SendKey, d
  <2>2. DeviceKey(keys, sel, d) \subseteq OwnKey /\ \A x \in DeviceKey(keys, sel, d) : x.theirs = d
    BY <1>1, DeviceKeyOwn
  <2> QED
    BY <2>1, <2>2 DEF d
<1>3. CASE d = NoDev
  <2>1. k \in UserKey(keys, sel)
    BY <1>3 DEF SendKey, d
  <2>2. UserKey(keys, sel) \subseteq OwnKey
    BY <1>1, UserKeyOwn
  <2> QED
    BY <1>3, <2>1, <2>2 DEF d
<1> QED
  BY <1>2, <1>3

LEMMA SendTInv ==
    ASSUME TInv, NEW k \in Key, Send(k)
    PROVE  TInv'
<1> DEFINE m == [conv |-> active, own |-> TRUE, dev |-> NoDev, key |-> k]
           d == ListedDev(list, active)
<1>1. /\ Act /\ active # None /\ sel # None /\ k \in SendKey(d) /\ Receive(m)
      /\ mapped' = [mapped EXCEPT ![active] = sel]
      /\ keys' = IF d # NoDev THEN CacheDevices(keys, {k}) ELSE CacheUser(keys, sel, {k})
      /\ UNCHANGED <<rows, pair, myKey, list, active, sel, pick, timers, read, tries, faults>>
  BY DEF Send
<1>2. active \in Convs /\ sel \in Friends /\ GoodKeys(keys)
  BY <1>1 DEF TInv, PageOK
<1>3. {k} \in SUBSET OwnKey
  BY <1>1, SendKeyOwn
<1>4. m \in Message
  BY <1>2 DEF Message
<1> HIDE DEF m, d
<1>5. GoodKeys(keys')
  <2>1. GoodKeys(CacheDevices(keys, {k})) /\ GoodKeys(CacheUser(keys, sel, {k}))
    BY <1>2, <1>3, CacheDevicesGood, CacheUserGood
  <2> QED
    BY <1>1, <2>1
<1>6. mapped' \in [Convs -> Friends \union {None}]
  BY <1>1, <1>2 DEF TInv, PageOK
<1>7. CountsOK'
  BY <1>1, Counted DEF TInv, CountsOK
<1> QED
  BY <1>1, <1>4, <1>5, <1>6, <1>7, ReceiveTInv

LEMMA FriendSendsTInv ==
    ASSUME TInv, NEW c \in Convs, NEW d \in Devs, NEW k \in Key, FriendSends(c, d, k)
    PROVE  TInv'
<1> DEFINE m == [conv |-> c, own |-> FALSE, dev |-> d, key |-> k]
<1>1. /\ Act /\ Receive(m)
      /\ UNCHANGED <<rows, pair, myKey, page, keys, pick, timers, read, tries, faults>>
  BY DEF FriendSends
<1>2. m \in Message
  BY DEF Message
<1> HIDE DEF m
<1>3. GoodKeys(keys') /\ mapped' \in [Convs -> Friends \union {None}] /\ CountsOK'
  BY <1>1, Counted DEF TInv, CountsOK, PageOK, page
<1> QED
  BY <1>1, <1>2, <1>3, ReceiveTInv DEF page

LEMMA OtherPageSendsTInv ==
    ASSUME TInv, NEW c \in Convs, NEW k \in Key, OtherPageSends(c, k)
    PROVE  TInv'
<1> DEFINE m == [conv |-> c, own |-> TRUE, dev |-> NoDev, key |-> k]
<1>1. /\ Act /\ Receive(m)
      /\ UNCHANGED <<rows, pair, myKey, page, keys, pick, timers, read, tries, faults>>
  BY DEF OtherPageSends
<1>2. m \in Message
  BY DEF Message
<1> HIDE DEF m
<1>3. GoodKeys(keys') /\ mapped' \in [Convs -> Friends \union {None}] /\ CountsOK'
  BY <1>1, Counted DEF TInv, CountsOK, PageOK, page
<1> QED
  BY <1>1, <1>2, <1>3, ReceiveTInv DEF page
--------------------------------------------------------------------------------
(* Selections, and what others do *)

LEMMA SelectConversationTInv ==
    ASSUME TInv, NEW c \in Convs, SelectConversation(c)
    PROVE  TInv'
<1>1. /\ Act /\ sel' = With[c] /\ mapped' = [mapped EXCEPT ![c] = With[c]]
      /\ Open(c, list, With[c])
      /\ UNCHANGED <<server, list, text, keys, reload, pick, timers, read, history>>
  BY DEF SelectConversation
<1>2. With[c] \in Friends \union {None} /\ With[c] \in Friends
      /\ list \in [Convs -> Pair \union {None}]
  BY WithAssumption DEF TInv, PageOK
<1>3. active' = c
  BY <1>1 DEF Open
<1>4. ServerOK' /\ PageOK'
  BY <1>1, <1>2, <1>3 DEF TInv, ServerOK, PageOK, server
<1>5. CountsOK'
  BY <1>1, Counted DEF TInv, CountsOK, history
<1> QED
  BY <1>1, <1>2, <1>4, <1>5, OpenTInv DEF server, history

LEMMA FriendOpensTInv ==
    ASSUME TInv, NEW c \in Convs, FriendOpens(c)
    PROVE  TInv'
<1>1. /\ With[c] = pick /\ pick' = None /\ mapped' = [mapped EXCEPT ![c] = pick]
      /\ Open(c, list, pick)
      /\ UNCHANGED <<server, list, sel, text, keys, reload, timers, read, history, acts>>
  BY DEF FriendOpens
<1>2. pick \in Friends \union {None} /\ list \in [Convs -> Pair \union {None}]
  BY DEF TInv, PageOK
<1>3. active' = c
  BY <1>1 DEF Open
<1>4. ServerOK' /\ PageOK' /\ CountsOK'
  BY <1>1, <1>2, <1>3 DEF TInv, ServerOK, PageOK, CountsOK, server, history
<1> QED
  BY <1>1, <1>2, <1>4, OpenTInv DEF server, history

(* the conversation that is created, or the one there is *)
LEMMA CreatedPair ==
    ASSUME TInv, NEW c \in Convs, NEW d \in Devs, FriendCreated(c, d)
    PROVE  /\ pair' \in [Convs -> Pair \union {None}] /\ pair'[c] \in Pair
           /\ pair'[c].mine = "this" /\ pair'[c].theirs = d
           /\ \A x \in Convs : x # c => pair'[x] = pair[x]
           /\ pair[c] # None => pair' = pair
           /\ list' \in [Convs -> Pair \union {None}] /\ list'[c] = pair'[c]
           /\ \A x \in Convs : x # c => list'[x] = list[x]
<1>1. /\ \/ /\ pair[c] = None
            /\ pair' = [pair EXCEPT ![c] = [mine |-> "this", theirs |-> d, byMe |-> TRUE]]
         \/ pair[c] # None /\ pair[c].mine = "this" /\ pair[c].theirs = d /\ UNCHANGED pair
      /\ list' = [list EXCEPT ![c] = pair'[c]]
  BY DEF FriendCreated
<1> DEFINE new == [mine |-> "this", theirs |-> d, byMe |-> TRUE]
<1>2. new \in Pair /\ new.mine = "this" /\ new.theirs = d
  BY DEF Pair
<1> HIDE DEF new
<1>3. pair \in [Convs -> Pair \union {None}] /\ list \in [Convs -> Pair \union {None}]
  BY DEF TInv, ServerOK, PageOK
<1>4. CASE pair[c] = None
  <2>1. pair' = [pair EXCEPT ![c] = new]
    BY <1>1, <1>4 DEF new
  <2>2. /\ pair' \in [Convs -> Pair \union {None}] /\ pair'[c] = new
        /\ \A x \in Convs : x # c => pair'[x] = pair[x]
    BY <1>2, <1>3, <2>1
  <2> QED
    BY <1>1, <1>2, <1>3, <1>4, <2>2
<1>5. CASE pair[c] # None
  BY <1>1, <1>3, <1>5
<1> QED
  BY <1>4, <1>5

LEMMA FriendCreatedTInv ==
    ASSUME TInv, NEW c \in Convs, NEW d \in Devs, FriendCreated(c, d)
    PROVE  TInv'
<1>1. /\ pick' = None /\ Open(c, list', mapped[c]) /\ reload' = [reload EXCEPT !.list = TRUE]
      /\ UNCHANGED <<rows, sent, myKey, sel, mapped, text, keys, timers, read, history, acts>>
  BY DEF FriendCreated, ReloadDue
<1>2. /\ pair' \in [Convs -> Pair \union {None}] /\ list' \in [Convs -> Pair \union {None}]
      /\ mapped[c] \in Friends \union {None}
  BY CreatedPair DEF TInv, PageOK
<1>3. active' = c
  BY <1>1 DEF Open
<1>4. ServerOK' /\ PageOK' /\ CountsOK'
  BY <1>1, <1>2, <1>3 DEF TInv, ServerOK, PageOK, CountsOK, history
<1>5. UNCHANGED <<sent, text, keys, timers, read, unseen, tries>>
  BY <1>1 DEF history
<1> HIDE DEF ServerOK, PageOK, CountsOK
<1> QED
  BY <1>1, <1>2, <1>4, <1>5, OpenTInv

LEMMA ReloadListTInv ==
    ASSUME TInv, NEW ok \in BOOLEAN, ReloadList(ok)
    PROVE  TInv'
<1>1. /\ Request(ok)
      /\ reload' \in [list : BOOLEAN, due : SUBSET Convs]
      /\ list' \in {pair, list}
      /\ mapped' \in {[c \in Convs |-> IF c \in Created THEN With[c] ELSE None], mapped}
      /\ UNCHANGED <<server, active, sel, text, keys, pick, job, effect, timers, read,
                     unseen, tries, acts>>
  BY DEF ReloadList, TInv, PageOK, Created
<1>2. ServerOK' /\ CountsOK'
  BY <1>1, Counted DEF TInv, ServerOK, CountsOK, server
<1>3. mapped' \in [Convs -> Friends \union {None}]
  BY <1>1, WithAssumption DEF TInv, PageOK
<1>4. PageOK'
  BY <1>1, <1>3 DEF TInv, ServerOK, PageOK, server
<1> QED
  BY <1>1, <1>2, <1>4, LightTInv DEF server

LEMMA FriendDeletesPair ==
    ASSUME TInv, NEW d \in Devs, FriendDeletes(d)
    PROVE  /\ pair' \in [Convs -> Pair \union {None}]
           /\ \A c \in Convs :
                 \/ pair'[c] = pair[c] /\ (pair[c] # None => pair[c].theirs # d)
                 \/ /\ pair[c] # None /\ pair'[c] # None /\ pair'[c].theirs = NoDev
                    /\ pair'[c].mine = pair[c].mine /\ pair'[c].byMe = pair[c].byMe
<1>1. pair' = [c \in Convs |-> IF pair[c] # None /\ pair[c].theirs = d
                               THEN [pair[c] EXCEPT !.theirs = NoDev] ELSE pair[c]]
  BY DEF FriendDeletes
<1>2. ASSUME NEW c \in Convs
      PROVE  /\ pair'[c] \in Pair \union {None}
             /\ \/ pair'[c] = pair[c] /\ (pair[c] # None => pair[c].theirs # d)
                \/ /\ pair[c] # None /\ pair'[c] # None /\ pair'[c].theirs = NoDev
                   /\ pair'[c].mine = pair[c].mine /\ pair'[c].byMe = pair[c].byMe
  <2>1. pair[c] \in Pair \union {None}
    BY DEF TInv, ServerOK
  <2>2. CASE pair[c] # None /\ pair[c].theirs = d
    <3>1. pair'[c] = [pair[c] EXCEPT !.theirs = NoDev] /\ pair[c] \in Pair
      BY <1>1, <2>1, <2>2
    <3>2. /\ pair'[c] \in Pair /\ pair'[c].theirs = NoDev
          /\ pair'[c].mine = pair[c].mine /\ pair'[c].byMe = pair[c].byMe
      BY <3>1 DEF Pair
    <3> QED
      BY <2>2, <3>2, NoneIsNoPair
  <2>3. CASE ~(pair[c] # None /\ pair[c].theirs = d)
    BY <1>1, <2>1, <2>3
  <2> QED
    BY <2>2, <2>3
<1>3. pair' \in [Convs -> Pair \union {None}]
  BY <1>1, <1>2
<1> QED
  BY <1>2, <1>3

LEMMA OthersTInv ==
    ASSUME TInv, Others
    PROVE  TInv'
<1>1. ASSUME NEW c \in Convs, NEW d \in Devs, FriendCreates(c, d)
      PROVE  TInv'
  <2>1. /\ Act /\ reload' = [reload EXCEPT !.list = TRUE]
        /\ pair' = [pair EXCEPT ![c] = [mine |-> "this", theirs |-> d, byMe |-> FALSE]]
        /\ UNCHANGED <<rows, sent, myKey, page, text, keys, pick, job, effect, timers, read,
                       history>>
    BY <1>1 DEF FriendCreates, ReloadDue
  <2>2. [mine |-> "this", theirs |-> d, byMe |-> FALSE] \in Pair
    BY DEF Pair
  <2>3. ServerOK' /\ PageOK' /\ CountsOK'
    BY <2>1, <2>2, Counted DEF TInv, ServerOK, PageOK, CountsOK, page, history
  <2> QED
    BY <2>1, <2>3, LightTInv DEF page, history
<1>2. ASSUME NEW d \in Devs, FriendRegisters(d)
      PROVE  TInv'
  <2>1. /\ Act /\ rows' = rows \union {d}
        /\ UNCHANGED <<pair, sent, myKey, page, text, keys, reload, pick, job, effect, timers,
                       read, history>>
    BY <1>2 DEF FriendRegisters
  <2>2. ServerOK' /\ PageOK' /\ CountsOK'
    BY <2>1, Counted DEF TInv, ServerOK, PageOK, CountsOK, page, history
  <2> QED
    BY <2>1, <2>2, LightTInv DEF page, history
<1>3. ASSUME NEW d \in Devs, FriendDeletes(d)
      PROVE  TInv'
  <2>1. /\ Act /\ rows' = rows \ {d}
        /\ UNCHANGED <<sent, myKey, page, text, keys, reload, pick, job, effect, timers,
                       read, history>>
    BY <1>3 DEF FriendDeletes
  <2>2. pair' \in [Convs -> Pair \union {None}]
    BY <1>3, FriendDeletesPair
  <2>3. ServerOK' /\ PageOK' /\ CountsOK'
    BY <2>1, <2>2, Counted DEF TInv, ServerOK, PageOK, CountsOK, page, history
  <2> QED
    BY <2>1, <2>3, LightTInv DEF page, history
<1>4. CASE Notified
  <2>1. /\ Act /\ reload' = [reload EXCEPT !.list = TRUE]
        /\ UNCHANGED <<server, page, text, keys, pick, job, effect, timers, read, history>>
    BY <1>4 DEF Notified, ReloadDue
  <2>2. ServerOK' /\ PageOK' /\ CountsOK'
    BY <2>1, Counted DEF TInv, ServerOK, PageOK, CountsOK, server, page, history
  <2> QED
    BY <2>1, <2>2, LightTInv DEF server, page, history
<1>5. CASE Regenerate
  <2>1. /\ Act /\ myKey < MaxKey /\ myKey' = myKey + 1
        /\ UNCHANGED <<rows, pair, sent, page, text, keys, reload, pick, job, effect, timers,
                       read, history>>
    BY <1>5 DEF Regenerate
  <2>2. myKey' \in 0..MaxKey
    BY <2>1, BoundsAssumption DEF TInv, ServerOK
  <2>3. ServerOK' /\ PageOK' /\ CountsOK'
    BY <2>1, <2>2, Counted DEF TInv, ServerOK, PageOK, CountsOK, page, history
  <2> QED
    BY <2>1, <2>3, LightTInv DEF page, history
<1> QED
  BY <1>1, <1>2, <1>3, <1>4, <1>5, FriendSendsTInv, OtherPageSendsTInv DEF Others

LEMMA UserTInv ==
    ASSUME TInv, User \/ Picking
    PROVE  TInv'
<1>1. ASSUME NEW f \in Friends, SelectFriend(f)
      PROVE  TInv'
  <2>1. /\ Act /\ sel' = f /\ pick' = f
        /\ UNCHANGED <<server, list, active, mapped, text, keys, reload, job, effect, timers,
                       read, history>>
    BY <1>1 DEF SelectFriend
  <2>2. ServerOK' /\ PageOK' /\ CountsOK'
    BY <2>1, Counted DEF TInv, ServerOK, PageOK, CountsOK, server, history
  <2> QED
    BY <2>1, <2>2, LightTInv DEF server, history
<1>2. CASE SendFails
  <2>1. /\ Act /\ active # None /\ sel # None /\ mapped' = [mapped EXCEPT ![active] = sel]
        /\ UNCHANGED <<server, list, active, sel, text, keys, reload, pick, job, effect, timers,
                       read, history>>
    BY <1>2 DEF SendFails
  <2>2. mapped' \in [Convs -> Friends \union {None}]
    BY <2>1 DEF TInv, PageOK
  <2>3. ServerOK' /\ PageOK' /\ CountsOK'
    BY <2>1, <2>2, Counted DEF TInv, ServerOK, PageOK, CountsOK, server, history
  <2> QED
    BY <2>1, <2>3, LightTInv DEF server, history
<1>3. CASE FriendFails
  <2>1. /\ pick' = None
        /\ UNCHANGED <<server, page, text, keys, reload, job, effect, timers, read, history, acts>>
    BY <1>3 DEF FriendFails
  <2>2. ServerOK' /\ PageOK' /\ CountsOK'
    BY <2>1 DEF TInv, ServerOK, PageOK, CountsOK, server, page, history
  <2> QED
    BY <2>1, <2>2, LightTInv DEF server, page, history
<1> QED
  BY <1>1, <1>2, <1>3, SelectConversationTInv, SendTInv, FriendOpensTInv, FriendCreatedTInv
     DEF User, Picking

LEMMA TInvInit == Init => TInv
<1> SUFFICES ASSUME Init PROVE TInv
  OBVIOUS
<1>1. pair \in [Convs -> Pair \union {None}]
  BY StartAssumption DEF Init
<1>2. ServerOK
  BY <1>1, StartAssumption, BoundsAssumption DEF Init, ServerOK
<1>3. PageOK
  BY <1>1, WithAssumption DEF Init, PageOK
<1>4. TextOK
  <2>1. text \in [Ids -> Texts] /\ effect = FALSE /\ unseen = {}
    BY DEF Init, Texts
  <2>2. 0 \in 0..MaxTries
    BY BoundsAssumption
  <2>3. tries \in [Ids -> 0..MaxTries]
    BY <2>2 DEF Init
  <2> QED
    BY <2>1, <2>3 DEF TextOK
<1>5. GoodKeys(keys)
  BY NoKeysGood DEF Init
<1>6. JobsOK
  <2>1. Idle \in Busy \union {Idle} /\ GoodJob(Idle, 0)
    BY DEF GoodJob, Idle
  <2> QED
    BY <2>1 DEF Init, JobsOK
<1>7. TimersOK /\ CountsOK
  BY BoundsAssumption DEF Init, TimersOK, CountsOK
<1> QED
  BY <1>2, <1>3, <1>4, <1>5, <1>6, <1>7 DEF TInv

LEMMA TInvNext == TInv /\ [Next]_vars => TInv'
<1> SUFFICES ASSUME TInv, [Next]_vars PROVE TInv'
  OBVIOUS
<1>1. CASE UNCHANGED vars
  BY <1>1, LightTInv
     DEF vars, server, page, history, TInv, ServerOK, PageOK, CountsOK
<1>2. CASE Reloading
  BY <1>2, ReloadListTInv, ReloadMessagesTInv DEF Reloading
<1>3. ASSUME NEW s \in 1..Slots, Step(s) PROVE TInv'
  BY <1>3, LoadAnswerTInv, DecryptTInv, NoRecipientTInv DEF Step
<1>4. CASE RetryFailed
  BY <1>4, RetryFailedTInv
<1>5. ASSUME NEW t \in timers, NEW ok \in BOOLEAN, RetryFires(t, ok) PROVE TInv'
  BY <1>5, RetryFiresTInv
<1>6. CASE Picking \/ User
  BY <1>6, UserTInv
<1>7. CASE Others
  BY <1>7, OthersTInv
<1> QED
  BY <1>1, <1>2, <1>3, <1>4, <1>5, <1>6, <1>7 DEF Next

(* Every variable of the page keeps its type: a decryption always has a message *)
(* to decrypt, and the history and the counts stay within their bounds.         *)
THEOREM TypeCorrect == Spec => []TypeOK
<1>1. Init => TInv
  BY TInvInit
<1>2. TInv /\ [Next]_vars => TInv'
  BY TInvNext
<1>3. TInv => TypeOK
  BY TInvTypeOK
<1> QED
  BY <1>1, <1>2, <1>3, PTL DEF Spec
--------------------------------------------------------------------------------
(* Who is written to, and what is read *)

(* the device a conversation names is one of its friend's *)
Named(p, c) == p # None => p.theirs = NoDev \/ Owner[p.theirs] = With[c]

(* what was known of a conversation still holds, up to a device since deleted *)
Later(old, new) ==
    old # None => /\ new # None /\ new.mine = old.mine /\ new.byMe = old.byMe
                  /\ new.theirs \in {old.theirs, NoDev}

Accessible(p) == p # None /\ CanAccess(p)

SealedFor(m) == m.own => \/ Owner[m.key.theirs] = With[m.conv]
                         \/ pair[m.conv].theirs = NoDev

(* the inductive form of SealedForFriend and ReadOnlyHere *)
PairInv ==
    /\ \A c \in Convs : Named(pair[c], c) /\ Later(list[c], pair[c])
    /\ active # None => list[active] # None
    /\ \A m \in 1..Len(sent) : pair[sent[m].conv] # None /\ SealedFor(sent[m])
    /\ \A m \in read : Locked(pair[sent[m].conv]) => sent[m].key.mine # Elsewhere
    /\ \A s \in 1..Slots :
          job[s].pc # "idle" /\ job[s].access => Accessible(pair[job[s].conv])

(* what a step may do to the conversations, and with a message *)
PairStep ==
    /\ \A c \in Convs : Named(pair'[c], c) /\ Later(pair[c], pair'[c])
    /\ \A c \in Convs : list'[c] \in {list[c], pair'[c]}
    /\ active' = active \/ (active' \in Convs /\ list'[active'] # None)
SentStep ==
    \/ sent' = sent
    \/ \E m \in Message : /\ sent' = Append(sent, m) /\ pair' = pair
                          /\ pair[m.conv] # None /\ SealedFor(m)
ReadStep ==
    \A m \in read' : m \in read \/ /\ m \in 1..Len(sent)
                                   /\ \/ ~Locked(pair[sent[m].conv])
                                      \/ sent[m].key.mine # Elsewhere
JobStep ==
    \A s \in 1..Slots :
        job'[s].pc # "idle" /\ job'[s].access =>
            \/ job[s].pc # "idle" /\ job[s].access /\ job'[s].conv = job[s].conv
            \/ job'[s].conv \in Convs /\ Accessible(pair'[job'[s].conv])

LEMMA LaterAccess ==
    ASSUME NEW p \in Pair, NEW q \in Pair, Later(p, q)
    PROVE  (CanAccess(p) => CanAccess(q)) /\ (Locked(q) => Locked(p))
<1>1. q.mine = p.mine /\ q.byMe = p.byMe /\ q.theirs \in {p.theirs, NoDev}
  BY NoneIsNoPair DEF Later
<1> QED
  BY <1>1 DEF CanAccess, Locked

LEMMA PairInvStep ==
    ASSUME TInv, TInv', PairInv, PairStep, SentStep, ReadStep, JobStep
    PROVE  PairInv'
<1>1. \A c \in Convs : /\ pair[c] \in Pair \union {None} /\ pair'[c] \in Pair \union {None}
                       /\ list[c] \in Pair \union {None} /\ list'[c] \in Pair \union {None}
  BY DEF TInv, ServerOK, PageOK
<1>2. \A c \in Convs : Named(pair'[c], c) /\ Later(list'[c], pair'[c])
  <2>1. ASSUME NEW c \in Convs PROVE Later(list'[c], pair'[c])
    BY DEF PairInv, PairStep, Later
  <2> QED
    BY <2>1 DEF PairStep
<1>3. active' # None => list'[active'] # None
  <2>1. active \in Convs \union {None}
    BY DEF TInv, PageOK
  <2>2. ASSUME active # None PROVE list'[active] # None
    BY <2>1, <2>2 DEF PairInv, PairStep, Later
  <2> QED
    BY <2>2 DEF PairStep
<1>4. ASSUME NEW m \in 1..Len(sent')
      PROVE  pair'[sent'[m].conv] # None /\ SealedFor(sent[m])'
  <2>1. CASE m \in 1..Len(sent) /\ sent'[m] = sent[m]
    <3>1. sent[m].conv \in Convs
      BY <2>1, Sent
    <3>2. pair[sent[m].conv] # None /\ SealedFor(sent[m])
      BY <2>1 DEF PairInv
    <3>3. Later(pair[sent[m].conv], pair'[sent[m].conv])
      BY <3>1 DEF PairStep
    <3> QED
      BY <2>1, <3>2, <3>3 DEF Later, SealedFor
  <2>2. ASSUME NEW n \in Message, sent' = Append(sent, n), pair' = pair,
               pair[n.conv] # None, SealedFor(n)
        PROVE  \/ m \in 1..Len(sent) /\ sent'[m] = sent[m]
               \/ pair'[sent'[m].conv] # None /\ SealedFor(sent[m])'
    <3>1. sent \in Seq(Message)
      BY DEF TInv, ServerOK
    <3>2. (m \in 1..Len(sent) /\ sent'[m] = sent[m]) \/ sent'[m] = n
      BY <2>2, <3>1
    <3> QED
      BY <2>2, <3>2 DEF SealedFor
  <2> QED
    BY <2>1, <2>2 DEF SentStep
<1>5. ASSUME NEW m \in read'
      PROVE  Locked(pair'[sent'[m].conv]) => sent'[m].key.mine # Elsewhere
  <2>1. m \in 1..Len(sent) /\ (Locked(pair[sent[m].conv]) => sent[m].key.mine # Elsewhere)
    BY DEF ReadStep, PairInv, TInv, TimersOK
  <2>2. sent'[m] = sent[m]
    BY <2>1 DEF SentStep, TInv, ServerOK
  <2>3. sent[m].conv \in Convs /\ pair[sent[m].conv] # None
    BY <2>1, Sent DEF PairInv
  <2> DEFINE p == pair[sent[m].conv]
             q == pair'[sent[m].conv]
  <2>4. Later(p, q) /\ p \in Pair /\ q \in Pair
    BY <1>1, <2>3 DEF PairStep, Later
  <2> HIDE DEF p, q
  <2>5. Locked(q) => Locked(p)
    BY <2>4, LaterAccess
  <2> QED
    BY <2>1, <2>2, <2>5 DEF p, q
<1>6. ASSUME NEW s \in 1..Slots, job'[s].pc # "idle", job'[s].access
      PROVE  Accessible(pair'[job'[s].conv])
  <2>1. CASE job[s].pc # "idle" /\ job[s].access /\ job'[s].conv = job[s].conv
    <3>1. job[s].conv \in Convs
      BY <2>1 DEF TInv, JobsOK, GoodJob, Busy
    <3> DEFINE p == pair[job[s].conv]
               q == pair'[job[s].conv]
    <3>2. Accessible(p) /\ Later(p, q)
      BY <2>1, <3>1 DEF PairInv, PairStep
    <3>3. p \in Pair /\ q \in Pair
      BY <1>1, <3>1, <3>2 DEF Accessible, Later
    <3> HIDE DEF p, q
    <3>4. Accessible(q)
      BY <3>2, <3>3, LaterAccess, NoneIsNoPair DEF Accessible
    <3> QED
      BY <2>1, <3>4 DEF q
  <2>2. CASE Accessible(pair'[job'[s].conv])
    BY <2>2
  <2> QED
    BY <1>6, <2>1, <2>2 DEF JobStep
<1> QED
  BY <1>2, <1>3, <1>4, <1>5, <1>6 DEF PairInv

LEMMA PairsSame ==
    ASSUME TInv, PairInv
    PROVE  /\ UNCHANGED pair => \A c \in Convs : Named(pair'[c], c) /\ Later(pair[c], pair'[c])
           /\ UNCHANGED <<pair, list, active>> => PairStep
           /\ UNCHANGED read => ReadStep
           /\ UNCHANGED job => JobStep
<1>1. \A c \in Convs : Later(pair[c], pair[c]) /\ Named(pair[c], c)
  BY DEF Later, PairInv
<1> QED
  BY <1>1 DEF PairStep, ReadStep, JobStep

LEMMA ListedAccess ==
    ASSUME TInv, PairInv, NEW c \in Convs, list[c] # None, CanAccess(list[c])
    PROVE  Accessible(pair[c])
<1>1. list[c] \in Pair /\ Later(list[c], pair[c]) /\ pair[c] \in Pair
  BY DEF PairInv, Later, TInv, ServerOK, PageOK
<1> QED
  BY <1>1, LaterAccess, NoneIsNoPair DEF Accessible

LEMMA NextMessageJobStep ==
    ASSUME TInv, NEW s \in 1..Slots, job[s].pc = "decrypt", NextMessage(s)
    PROVE  JobStep
<1> SUFFICES ASSUME NEW r \in 1..Slots, job'[r].pc # "idle", job'[r].access
             PROVE  job[r].pc # "idle" /\ job[r].access /\ job'[r].conv = job[r].conv
  BY DEF JobStep
<1>1. CASE r # s
  BY <1>1, NextMessageJobs
<1>2. CASE r = s
  BY <1>2, NextMessageJobs DEF Idle
<1> QED
  BY <1>1, <1>2

LEMMA ReceiveJobStep ==
    ASSUME TInv, NEW m \in Message, Receive(m)
    PROVE  JobStep
<1> SUFFICES ASSUME NEW s \in 1..Slots, job'[s].pc # "idle", job'[s].access
             PROVE  job'[s] = job[s]
  BY DEF JobStep
<1>1. ASSUME NEW f \in Friends \union {None}
      PROVE  Decryption(m, f).access = FALSE
  BY DEF Decryption
<1> QED
  BY <1>1, ReceiveJobs DEF Takes

LEMMA OpenJobStep ==
    ASSUME TInv, PairInv, NEW c \in Convs, NEW l \in [Convs -> Pair \union {None}],
           NEW f \in Friends \union {None}, Open(c, l, f),
           \A x \in Convs : Later(pair[x], pair'[x]),
           TInv',
           l[c] # None /\ CanAccess(l[c]) => Accessible(pair'[c])
    PROVE  JobStep
<1>1. list \in [Convs -> Pair \union {None}] /\ mapped[c] \in Friends \union {None} /\ 0 \in Nat
  BY DEF TInv, PageOK
<1>2. list[c] # None /\ CanAccess(list[c]) => Accessible(pair'[c])
  <2> SUFFICES ASSUME list[c] # None /\ CanAccess(list[c]) PROVE Accessible(pair'[c])
    OBVIOUS
  <2> DEFINE p == pair[c]
             q == pair'[c]
  <2>1. Accessible(p)
    BY ListedAccess
  <2>2. p \in Pair /\ q \in Pair /\ Later(p, q)
    BY <2>1 DEF Accessible, Later, TInv, ServerOK
  <2> HIDE DEF p, q
  <2>3. Accessible(q)
    BY <2>1, <2>2, LaterAccess, NoneIsNoPair DEF Accessible
  <2> QED
    BY <2>3 DEF q
<1> SUFFICES ASSUME NEW s \in 1..Slots, job'[s].pc # "idle", job'[s].access
             PROVE  \/ job'[s] = job[s]
                    \/ job'[s].conv \in Convs /\ Accessible(pair'[job'[s].conv])
  BY DEF JobStep
<1>3. \/ job'[s] = job[s] \/ job'[s] = Load(c, list, mapped[c]) \/ job'[s] = Load(c, l, f)
  BY OpenJobs DEF Takes
<1>4. job'[s] = Load(c, list, mapped[c])
        => job'[s].conv = c /\ (job'[s].access => list[c] # None /\ CanAccess(list[c]))
  BY <1>1, LoadType
<1>5. job'[s] = Load(c, l, f)
        => job'[s].conv = c /\ (job'[s].access => l[c] # None /\ CanAccess(l[c]))
  BY <1>1, LoadType
<1>6. CASE job'[s] = Load(c, list, mapped[c])
  BY <1>2, <1>4, <1>6
<1>7. CASE job'[s] = Load(c, l, f)
  BY <1>5, <1>7
<1> QED
  BY <1>3, <1>6, <1>7
--------------------------------------------------------------------------------
(* The actions, for PairInv *)

LEMMA StepPairInv ==
    ASSUME TInv, TInv', PairInv, NEW s \in 1..Slots, Step(s)
    PROVE  PairInv'
<1>1. ASSUME NEW ok \in BOOLEAN, LoadAnswer(s, ok) PROVE PairInv'
  <2>1. /\ job[s].pc = "get" /\ UNCHANGED <<server, page, keys, reload, pick, timers, acts>>
        /\ \/ Finish(s) /\ UNCHANGED read
           \/ /\ read' = read \union Reads(s, Of(job[s].conv))
              /\ job' = [job EXCEPT ![s] = IF job[s].access
                            THEN [@ EXCEPT !.pc = "decrypt", !.todo = Of(job[s].conv)]
                            ELSE Idle]
    BY <1>1 DEF LoadAnswer
  <2>2. job[s] \in Busy /\ job \in [1..Slots -> Busy \union {Idle}]
    BY <2>1 DEF TInv, JobsOK, GoodJob
  <2>3. PairStep /\ SentStep
    BY <2>1, PairsSame DEF server, page, SentStep
  <2>4. JobStep
    <3> SUFFICES ASSUME NEW r \in 1..Slots, job'[r].pc # "idle", job'[r].access
                 PROVE  job[r].pc # "idle" /\ job[r].access /\ job'[r].conv = job[r].conv
      BY DEF JobStep
    <3>1. CASE r # s
      BY <2>1, <2>2, <3>1 DEF Finish
    <3>2. CASE r = s
      <4> DEFINE ms == Of(job[s].conv)
                 new == [job[s] EXCEPT !.pc = "decrypt", !.todo = ms]
      <4> HIDE DEF ms
      <4>1. job'[s] = Idle \/ (job[s].access /\ job'[s] = new)
        BY <2>1, <2>2 DEF Finish, ms
      <4>2. new.conv = job[s].conv
        BY <2>2 DEF Busy
      <4> HIDE DEF new
      <4> QED
        BY <2>1, <3>2, <4>1, <4>2 DEF Idle
    <3> QED
      BY <3>1, <3>2
  <2>5. ReadStep
    <3> SUFFICES ASSUME NEW m \in Reads(s, Of(job[s].conv)), job[s].access
                 PROVE  m \in 1..Len(sent) /\ ~Locked(pair[sent[m].conv])
      BY <2>1 DEF ReadStep, Reads
    <3>1. m \in 1..Len(sent) /\ sent[m].conv = job[s].conv
      BY DEF Reads, Of
    <3>2. Accessible(pair[job[s].conv])
      BY <2>1 DEF PairInv
    <3> QED
      BY <3>1, <3>2 DEF Accessible, Locked
  <2> QED
    BY <2>3, <2>4, <2>5, PairInvStep
<1>2. ASSUME NEW ok \in BOOLEAN, Decrypt(s, ok) PROVE PairInv'
  <2>1. job[s].pc = "decrypt" /\ NextMessage(s) /\ UNCHANGED <<server, page, read>>
    BY <1>2 DEF Decrypt
  <2>2. JobStep
    BY <2>1, NextMessageJobStep
  <2> QED
    BY <2>1, <2>2, PairsSame, PairInvStep DEF server, page, SentStep
<1>3. CASE NoRecipient(s)
  <2>1. job[s].pc = "decrypt" /\ NextMessage(s) /\ UNCHANGED <<server, page, read>>
    BY <1>3 DEF NoRecipient
  <2>2. JobStep
    BY <2>1, NextMessageJobStep
  <2> QED
    BY <2>1, <2>2, PairsSame, PairInvStep DEF server, page, SentStep
<1> QED
  BY <1>1, <1>2, <1>3 DEF Step

LEMMA ReloadingPairInv ==
    ASSUME TInv, TInv', PairInv, Reloading
    PROVE  PairInv'
<1>1. /\ UNCHANGED <<pair, sent, active, job, read>>
      /\ list' = pair \/ list' = list
  BY DEF Reloading, ReloadList, ReloadMessages, server, page
<1>2. PairStep
  BY <1>1, PairsSame DEF PairStep
<1> QED
  BY <1>1, <1>2, PairsSame, PairInvStep DEF SentStep

LEMMA RetryPairInv ==
    ASSUME TInv, TInv', PairInv,
           RetryFailed \/ \E t \in timers, ok \in BOOLEAN : RetryFires(t, ok)
    PROVE  PairInv'
<1>1. CASE RetryFailed
  <2>1. UNCHANGED <<server, page, read>>
    BY <1>1 DEF RetryFailed
  <2>2. active \in Convs
    <3>1. FailedIn(active, text) # {}
      BY <1>1 DEF RetryFailed, TInv, TextOK
    <3>2. \A m \in FailedIn(active, text) : m \in 1..Len(sent) /\ sent[m].conv = active
      BY DEF FailedIn
    <3> QED
      BY <3>1, <3>2, Sent
  <2>3. JobStep
    <3> SUFFICES ASSUME NEW s \in 1..Slots, job'[s].pc # "idle", job'[s].access,
                        job'[s] # job[s]
                 PROVE  job'[s].conv \in Convs /\ Accessible(pair'[job'[s].conv])
      BY DEF JobStep
    <3>1. job'[s].conv = active /\ list[active] # None /\ CanAccess(list[active])
      BY <1>1, RetryFailedTInv
    <3>2. Accessible(pair[active])
      BY <2>2, <3>1, ListedAccess
    <3> QED
      BY <2>1, <2>2, <3>1, <3>2 DEF server
  <2> QED
    BY <2>1, <2>3, PairsSame, PairInvStep DEF server, page, SentStep
<1>2. ASSUME NEW t \in timers, NEW ok \in BOOLEAN, RetryFires(t, ok)
      PROVE  PairInv'
  <2>1. UNCHANGED <<server, page, job>>
    BY <1>2 DEF RetryFires
  <2>2. t.msg \in 1..Len(sent)
    BY DEF TInv, TimersOK
  <2>3. ReadStep
    <3> SUFFICES ASSUME sent[t.msg].key \in OwnKey
                 PROVE  sent[t.msg].key.mine # Elsewhere
      BY <1>2, <2>2, RetryOutcome DEF Retried, ReadStep
    <3>1. sent[t.msg].key.mine \in 0..MaxKey
      BY DEF OwnKey
    <3> QED
      BY <3>1, BoundsAssumption DEF Elsewhere
  <2> QED
    BY <2>1, <2>3, PairsSame, PairInvStep DEF server, page, SentStep
<1> QED
  BY <1>1, <1>2

LEMMA SentPairInv ==
    ASSUME TInv, TInv', PairInv, NEW m \in Message, Receive(m),
           UNCHANGED <<pair, list, active, read>>, pair[m.conv] # None, SealedFor(m)
    PROVE  PairInv'
<1>1. SentStep
  BY ReceiveJobs DEF Stored, SentStep
<1>2. JobStep
  BY ReceiveJobStep
<1> QED
  BY <1>1, <1>2, PairsSame, PairInvStep

LEMMA UserPairInv ==
    ASSUME TInv, TInv', PairInv, User
    PROVE  PairInv'
<1>1. ASSUME NEW c \in Convs, SelectConversation(c)
      PROVE  PairInv'
  <2>1. /\ Listed(c) /\ Open(c, list, With[c]) /\ active' = c
        /\ UNCHANGED <<server, list, read>>
    BY <1>1 DEF SelectConversation, Open
  <2>2. PairStep
    BY <2>1, PairsSame DEF PairStep, server, Listed
  <2>3. list \in [Convs -> Pair \union {None}] /\ With[c] \in Friends \union {None}
    BY WithAssumption DEF TInv, PageOK
  <2>4. list[c] # None /\ CanAccess(list[c]) => Accessible(pair'[c])
    BY <2>1, ListedAccess DEF server
  <2>5. \A x \in Convs : Later(pair[x], pair'[x])
    BY <2>2 DEF PairStep
  <2>6. JobStep
    BY <2>1, <2>3, <2>4, <2>5, OpenJobStep
  <2> QED
    BY <2>1, <2>2, <2>6, PairsSame, PairInvStep DEF server, SentStep
<1>2. ASSUME NEW f \in Friends, SelectFriend(f)
      PROVE  PairInv'
  <2>1. UNCHANGED <<pair, list, active, sent, read, job>>
    BY <1>2 DEF SelectFriend, server
  <2> QED
    BY <2>1, PairsSame, PairInvStep DEF SentStep
<1>3. CASE SendFails
  <2>1. UNCHANGED <<pair, list, active, sent, read, job>>
    BY <1>3 DEF SendFails, server
  <2> QED
    BY <2>1, PairsSame, PairInvStep DEF SentStep
<1>4. ASSUME NEW k \in Key, Send(k)
      PROVE  PairInv'
  <2> DEFINE m == [conv |-> active, own |-> TRUE, dev |-> NoDev, key |-> k]
             d == ListedDev(list, active)
  <2>1. /\ active # None /\ sel # None /\ k \in SendKey(d) /\ Receive(m)
        /\ UNCHANGED <<pair, list, active, read>>
    BY <1>4 DEF Send
  <2>2. active \in Convs /\ list[active] # None
    BY <2>1 DEF TInv, PageOK, PairInv
  <2>3. Later(list[active], pair[active]) /\ Named(pair[active], active)
    BY <2>2 DEF PairInv
  <2>4. d = list[active].theirs /\ pair[active] # None /\ pair[active].theirs \in {d, NoDev}
    BY <2>2, <2>3 DEF Later, ListedDev
  <2>5. m \in Message /\ m.conv = active /\ m.key = k
    BY <2>2 DEF Message
  <2> HIDE DEF m
  <2>6. d # NoDev => k.theirs = d
    BY <2>1, SendKeyOwn
  <2> HIDE DEF d
  <2>7. Owner[k.theirs] = With[active] \/ pair[active].theirs = NoDev
    <3>1. CASE pair[active].theirs = NoDev
      BY <3>1
    <3>2. CASE pair[active].theirs # NoDev
      <4>1. pair[active].theirs = d /\ d # NoDev
        BY <2>4, <3>2
      <4>2. Owner[pair[active].theirs] = With[active]
        BY <2>3, <2>4, <3>2 DEF Named
      <4> QED
        BY <2>6, <4>1, <4>2
    <3> QED
      BY <3>1, <3>2
  <2>8. SealedFor(m) /\ pair[m.conv] # None
    BY <2>4, <2>5, <2>7 DEF SealedFor
  <2> QED
    BY <2>1, <2>5, <2>8, SentPairInv
<1> QED
  BY <1>1, <1>2, <1>3, <1>4 DEF User

LEMMA PickingPairInv ==
    ASSUME TInv, TInv', PairInv, Picking
    PROVE  PairInv'
<1>1. ASSUME NEW c \in Convs, FriendOpens(c)
      PROVE  PairInv'
  <2>1. /\ Listed(c) /\ Open(c, list, pick) /\ active' = c
        /\ UNCHANGED <<server, list, read>>
    BY <1>1 DEF FriendOpens, Open
  <2>2. PairStep
    BY <2>1, PairsSame DEF PairStep, server, Listed
  <2>3. list \in [Convs -> Pair \union {None}] /\ pick \in Friends \union {None}
    BY DEF TInv, PageOK
  <2>4. list[c] # None /\ CanAccess(list[c]) => Accessible(pair'[c])
    BY <2>1, ListedAccess DEF server
  <2>5. \A x \in Convs : Later(pair[x], pair'[x])
    BY <2>2 DEF PairStep
  <2>6. JobStep
    BY <2>1, <2>3, <2>4, <2>5, OpenJobStep
  <2> QED
    BY <2>1, <2>2, <2>6, PairsSame, PairInvStep DEF server, SentStep
<1>2. ASSUME NEW c \in Convs, NEW d \in Devs, FriendCreated(c, d)
      PROVE  PairInv'
  <2>1. /\ Open(c, list', mapped[c]) /\ active' = c /\ d \in DevicesOf(pick) /\ With[c] = pick
        /\ UNCHANGED <<sent, read>>
    BY <1>2 DEF FriendCreated, Open
  <2>2. /\ pair'[c] \in Pair /\ pair'[c].mine = "this" /\ pair'[c].theirs = d
        /\ \A x \in Convs : x # c => pair'[x] = pair[x]
        /\ pair[c] # None => pair' = pair
        /\ list' \in [Convs -> Pair \union {None}] /\ list'[c] = pair'[c]
        /\ \A x \in Convs : x # c => list'[x] = list[x]
    BY <1>2, CreatedPair
  <2>3. pair'[c] # None /\ Accessible(pair'[c]) /\ Named(pair'[c], c)
    <3>1. Owner[d] = With[c]
      BY <2>1 DEF DevicesOf
    <3> QED
      BY <2>2, <3>1, NoneIsNoPair DEF Accessible, CanAccess, Named
  <2>4. \A x \in Convs : Named(pair'[x], x) /\ Later(pair[x], pair'[x])
    <3> SUFFICES ASSUME NEW x \in Convs PROVE Named(pair'[x], x) /\ Later(pair[x], pair'[x])
      OBVIOUS
    <3>1. CASE pair'[x] = pair[x]
      BY <3>1 DEF PairInv, Later
    <3>2. CASE pair'[x] # pair[x]
      BY <2>2, <2>3, <3>2 DEF Later
    <3> QED
      BY <3>1, <3>2
  <2>5. PairStep
    BY <2>1, <2>2, <2>3, <2>4 DEF PairStep
  <2>6. mapped[c] \in Friends \union {None}
    BY DEF TInv, PageOK
  <2>7. JobStep
    BY <2>1, <2>2, <2>3, <2>4, <2>6, OpenJobStep
  <2> QED
    BY <2>1, <2>5, <2>7, PairsSame, PairInvStep DEF SentStep
<1>3. CASE FriendFails
  <2>1. UNCHANGED <<pair, list, active, sent, read, job>>
    BY <1>3 DEF FriendFails, server, page
  <2> QED
    BY <2>1, PairsSame, PairInvStep DEF SentStep
<1> QED
  BY <1>1, <1>2, <1>3 DEF Picking

LEMMA OthersPairInv ==
    ASSUME TInv, TInv', PairInv, Others
    PROVE  PairInv'
<1>1. ASSUME NEW c \in Convs, NEW k \in Key, OtherPageSends(c, k)
      PROVE  PairInv'
  <2> DEFINE m == [conv |-> c, own |-> TRUE, dev |-> NoDev, key |-> k]
  <2>1. /\ c \in Created /\ k.theirs \in DevicesOf(With[c]) /\ Receive(m)
        /\ UNCHANGED <<pair, list, active, read>>
    BY <1>1 DEF OtherPageSends, page
  <2>2. m \in Message /\ m.conv = c /\ m.key = k
    BY DEF Message
  <2> HIDE DEF m
  <2>3. pair[m.conv] # None /\ SealedFor(m)
    BY <2>1, <2>2 DEF Created, DevicesOf, SealedFor
  <2> QED
    BY <2>1, <2>2, <2>3, SentPairInv
<1>2. ASSUME NEW c \in Convs, NEW d \in Devs, NEW k \in Key, FriendSends(c, d, k)
      PROVE  PairInv'
  <2> DEFINE m == [conv |-> c, own |-> FALSE, dev |-> d, key |-> k]
  <2>1. /\ c \in Created /\ Receive(m)
        /\ UNCHANGED <<pair, list, active, read>>
    BY <1>2 DEF FriendSends, page
  <2>2. m \in Message /\ m.conv = c /\ m.own = FALSE
    BY DEF Message
  <2> HIDE DEF m
  <2>3. pair[m.conv] # None /\ SealedFor(m)
    BY <2>1, <2>2 DEF Created, SealedFor
  <2> QED
    BY <2>1, <2>2, <2>3, SentPairInv
<1>3. ASSUME NEW c \in Convs, NEW d \in Devs, FriendCreates(c, d)
      PROVE  PairInv'
  <2> DEFINE new == [mine |-> "this", theirs |-> d, byMe |-> FALSE]
  <2>1. /\ pair[c] = None /\ d \in DevicesOf(With[c]) /\ pair' = [pair EXCEPT ![c] = new]
        /\ UNCHANGED <<list, active, sent, read, job>>
    BY <1>3 DEF FriendCreates, page, history
  <2>2. new \in Pair /\ new.theirs = d
    BY DEF Pair
  <2> HIDE DEF new
  <2>3. \A x \in Convs : Named(pair'[x], x) /\ Later(pair[x], pair'[x])
    <3> SUFFICES ASSUME NEW x \in Convs PROVE Named(pair'[x], x) /\ Later(pair[x], pair'[x])
      OBVIOUS
    <3>1. pair \in [Convs -> Pair \union {None}]
      BY DEF TInv, ServerOK
    <3>2. CASE x # c
      <4>1. pair'[x] = pair[x]
        BY <2>1, <3>1, <3>2
      <4> QED
        BY <4>1 DEF PairInv, Later
    <3>3. CASE x = c
      <4>1. pair'[x] = new
        BY <2>1, <3>1, <3>3
      <4>2. Owner[d] = With[x]
        BY <2>1, <3>3 DEF DevicesOf
      <4> QED
        BY <2>1, <2>2, <3>3, <4>1, <4>2 DEF Named, Later
    <3> QED
      BY <3>2, <3>3
  <2>4. PairStep
    BY <2>1, <2>3 DEF PairStep
  <2> QED
    BY <2>1, <2>4, PairsSame, PairInvStep DEF SentStep
<1>4. ASSUME NEW d \in Devs, FriendDeletes(d)
      PROVE  PairInv'
  <2>1. UNCHANGED <<list, active, sent, read, job>>
    BY <1>4 DEF FriendDeletes, page, history
  <2>2. \A x \in Convs : Named(pair'[x], x) /\ Later(pair[x], pair'[x])
    <3> SUFFICES ASSUME NEW x \in Convs PROVE Named(pair'[x], x) /\ Later(pair[x], pair'[x])
      OBVIOUS
    <3>1. CASE pair'[x] = pair[x]
      BY <3>1 DEF PairInv, Later
    <3>2. CASE pair'[x] # pair[x]
      BY <1>4, <3>2, FriendDeletesPair DEF Named, Later
    <3> QED
      BY <3>1, <3>2
  <2>3. PairStep
    BY <2>1, <2>2 DEF PairStep
  <2> QED
    BY <2>1, <2>3, PairsSame, PairInvStep DEF SentStep
<1>5. ASSUME NEW d \in Devs, FriendRegisters(d)
      PROVE  PairInv'
  <2>1. UNCHANGED <<pair, list, active, sent, read, job>>
    BY <1>5 DEF FriendRegisters, page
  <2> QED
    BY <2>1, PairsSame, PairInvStep DEF SentStep
<1>6. CASE Notified \/ Regenerate
  <2>1. UNCHANGED <<pair, list, active, sent, read, job>>
    BY <1>6 DEF Notified, Regenerate, server, page
  <2> QED
    BY <2>1, PairsSame, PairInvStep DEF SentStep
<1> QED
  BY <1>1, <1>2, <1>3, <1>4, <1>5, <1>6 DEF Others

LEMMA PairInvInit == Init => PairInv
<1> SUFFICES ASSUME Init PROVE PairInv
  OBVIOUS
<1>1. \A c \in Convs : Named(pair[c], c) /\ Later(list[c], pair[c])
  <2> SUFFICES ASSUME NEW c \in Convs PROVE Named(pair[c], c) /\ Later(pair[c], pair[c])
    BY DEF Init
  <2>1. pair[c] # None => pair[c].theirs \in {NoDev} \union {d \in Rows0 : Owner[d] = With[c]}
    BY StartAssumption DEF Init
  <2> QED
    BY <2>1 DEF Named, Later
<1>2. \A s \in 1..Slots : job[s].pc = "idle"
  BY DEF Init, Idle
<1>3. Len(sent) = 0
  BY DEF Init
<1> QED
  BY <1>1, <1>2, <1>3 DEF Init, PairInv

LEMMA PairInvNext == TInv /\ TInv' /\ PairInv /\ [Next]_vars => PairInv'
<1> SUFFICES ASSUME TInv, TInv', PairInv, [Next]_vars PROVE PairInv'
  OBVIOUS
<1>1. CASE UNCHANGED vars
  <2>1. UNCHANGED <<pair, list, active, sent, read, job>>
    BY <1>1 DEF vars, server, page
  <2> QED
    BY <2>1, PairsSame, PairInvStep DEF SentStep
<1>2. CASE Next
  BY <1>2, ReloadingPairInv, StepPairInv, RetryPairInv, PickingPairInv, UserPairInv,
     OthersPairInv DEF Next
<1> QED
  BY <1>1, <1>2

(* A message written in this browser, or in another of the user's, is sealed for *)
(* the friend it is written to - whoever is selected when it is, and whatever    *)
(* the key cache holds - unless the conversation names no device.                *)
THEOREM SealedCorrect == Spec => []SealedForFriend
<1>1. Init => TInv /\ PairInv
  BY TInvInit, PairInvInit
<1>2. TInv /\ PairInv /\ [Next]_vars => TInv' /\ PairInv'
  BY TInvNext, PairInvNext
<1>3. PairInv => SealedForFriend
  BY DEF PairInv, SealedFor, SealedForFriend
<1> QED
  BY <1>1, <1>2, <1>3, PTL DEF Spec

(* What is marked read in a conversation of other devices was sealed for this *)
(* browser: nobody is told that such a message was read where it cannot be.   *)
THEOREM ReadCorrect == Spec => []ReadOnlyHere
<1>1. Init => TInv /\ PairInv
  BY TInvInit, PairInvInit
<1>2. TInv /\ PairInv /\ [Next]_vars => TInv' /\ PairInv'
  BY TInvNext, PairInvNext
<1>3. PairInv => ReadOnlyHere
  BY DEF PairInv, ReadOnlyHere
<1> QED
  BY <1>1, <1>2, <1>3, PTL DEF Spec
--------------------------------------------------------------------------------
(* What becomes of a message *)

UnderWay(m) == \E s \in 1..Slots : job[s].pc = "decrypt" /\ m \in job[s].todo

(* it is in plain, or never tried since it was stored, or about to be decrypted; *)
(* a failed one of the open conversation is retried by the effect that is due    *)
Tried(m) ==
    /\ text[m] # "absent"
    /\ \/ text[m] = "plain" \/ m \in unseen \/ UnderWay(m)
       \/ text[m] = "unavailable" /\ (sent[m].conv = active => effect)

(* the inductive form of NothingStuck *)
StuckInv == \A m \in 1..Len(sent) : Tried(m)

LEMMA StuckInvNothingStuck == StuckInv => NothingStuck
BY DEF StuckInv, Tried, UnderWay, NothingStuck, Quiet, Of

LEMMA EffectFor ==
    ASSUME NEW m \in 1..Len(sent), EffectDue(active', text'), text'[m] = "unavailable",
           sent[m].conv = active'
    PROVE  effect' = TRUE
<1>1. m \in FailedIn(active', text')
  BY DEF FailedIn
<1> QED
  BY <1>1 DEF EffectDue

(* a message that the step leaves as it was *)
LEMMA TriedKept ==
    ASSUME TInv, StuckInv, NEW m \in 1..Len(sent), sent'[m] = sent[m], text'[m] = text[m],
           m \in unseen => m \in unseen', UnderWay(m) => UnderWay(m)',
           EffectDue(active', text') \/ UNCHANGED <<active, effect>>
    PROVE  Tried(m)'
<1>1. Tried(m)
  BY DEF StuckInv
<1>2. CASE text[m] = "unavailable" /\ (sent[m].conv = active => effect)
  <2>1. CASE UNCHANGED <<active, effect>>
    BY <1>2, <2>1 DEF Tried
  <2>2. CASE EffectDue(active', text')
    <3>1. sent'[m].conv = active' => effect'
      BY <1>2, <2>2, EffectFor
    <3> QED
      BY <1>2, <3>1 DEF Tried
  <2> QED
    BY <2>1, <2>2
<1>3. CASE ~(text[m] = "unavailable" /\ (sent[m].conv = active => effect))
  BY <1>1, <1>3 DEF Tried
<1> QED
  BY <1>2, <1>3

(* nothing but functions that start: those under way go on *)
LEMMA JobsKept ==
    ASSUME TInv, \A s \in 1..Slots : job'[s] # job[s] => job[s].pc # "decrypt", NEW m
    PROVE  UnderWay(m) => UnderWay(m)'
BY DEF UnderWay

(* actions that leave the messages of the store alone *)
LEMMA StuckInvKept ==
    ASSUME TInv, StuckInv, UNCHANGED <<sent, text, unseen>>,
           \A s \in 1..Slots : job'[s] # job[s] => job[s].pc # "decrypt",
           EffectDue(active', text') \/ UNCHANGED <<active, effect>>
    PROVE  StuckInv'
<1> SUFFICES ASSUME NEW m \in 1..Len(sent) PROVE Tried(m)'
  BY DEF StuckInv
<1>1. UnderWay(m) => UnderWay(m)'
  BY JobsKept
<1> QED
  BY <1>1, TriedKept

LEMMA NextMessageUnderWay ==
    ASSUME TInv, NEW s \in 1..Slots, job[s].pc = "decrypt", NextMessage(s), NEW m,
           m # Min(job[s].todo)
    PROVE  UnderWay(m) => UnderWay(m)'
<1> SUFFICES ASSUME NEW r \in 1..Slots, job[r].pc = "decrypt", m \in job[r].todo
             PROVE  UnderWay(m)'
  BY DEF UnderWay
<1>1. CASE r # s
  <2>1. job'[r] = job[r]
    BY <1>1, NextMessageJobs
  <2> QED
    BY <2>1 DEF UnderWay
<1>2. CASE r = s
  <2>1. job'[s].pc = "decrypt" /\ m \in job'[s].todo
    BY <1>2, NextMessageJobs
  <2> QED
    BY <2>1 DEF UnderWay
<1> QED
  BY <1>1, <1>2

LEMMA StepStuckInv ==
    ASSUME TInv, StuckInv, NEW s \in 1..Slots, Step(s)
    PROVE  StuckInv'
<1>1. ASSUME NEW ok \in BOOLEAN, LoadAnswer(s, ok) PROVE StuckInv'
  <2> DEFINE ms == Of(job[s].conv)
             next == IF job[s].access THEN [job[s] EXCEPT !.pc = "decrypt", !.todo = ms]
                                      ELSE Idle
  <2>1. job[s].pc = "get" /\ UNCHANGED <<sent, active>>
    BY <1>1 DEF LoadAnswer, server, page
  <2>2. job[s] \in Busy /\ job \in [1..Slots -> Busy \union {Idle}]
    BY <2>1 DEF TInv, JobsOK, GoodJob
  <2>3. CASE ~ok \/ ms = {}
    <3>1. Finish(s) /\ UNCHANGED <<text, unseen, effect>>
      BY <1>1, <2>3 DEF LoadAnswer
    <3>2. \A r \in 1..Slots : job'[r] # job[r] => job[r].pc # "decrypt"
      BY <2>1, <2>2, <3>1 DEF Finish
    <3> QED
      BY <2>1, <3>1, <3>2, StuckInvKept
  <2>4. CASE ~(~ok \/ ms = {})
    <3>1. /\ text' = [m \in Ids |-> IF m \notin ms THEN text[m]
                                    ELSE IF job[s].access THEN "decrypting" ELSE "redacted"]
          /\ unseen' = IF job[s].access THEN unseen \ ms ELSE unseen \union ms
          /\ job' = [job EXCEPT ![s] = next]
          /\ EffectDue(active, text')
      BY <1>1, <2>4 DEF LoadAnswer
    <3> HIDE DEF ms
    <3>2. \A r \in 1..Slots : job'[r] # job[r] => job[r].pc # "decrypt"
      <4> HIDE DEF next
      <4> QED
        BY <2>1, <2>2, <3>1
    <3> SUFFICES ASSUME NEW m \in 1..Len(sent) PROVE Tried(m)'
      BY <2>1 DEF StuckInv
    <3>3. m \in Ids
      BY Sent
    <3>4. CASE m \notin ms
      <4>1. text'[m] = text[m] /\ (m \in unseen => m \in unseen')
        BY <3>1, <3>3, <3>4
      <4>2. UnderWay(m) => UnderWay(m)'
        BY <3>2, JobsKept
      <4> QED
        BY <2>1, <3>1, <4>1, <4>2, TriedKept
    <3>5. CASE m \in ms /\ job[s].access
      <4>1. text'[m] = "decrypting"
        BY <3>1, <3>3, <3>5
      <4>2. job'[s] = [job[s] EXCEPT !.pc = "decrypt", !.todo = ms]
        BY <2>2, <3>1, <3>5
      <4>3. job'[s].pc = "decrypt" /\ job'[s].todo = ms
        BY <2>2, <4>2 DEF Busy
      <4> QED
        BY <3>5, <4>1, <4>3 DEF Tried, UnderWay
    <3>6. CASE m \in ms /\ ~job[s].access
      <4>1. text'[m] = "redacted" /\ m \in unseen'
        BY <3>1, <3>3, <3>6
      <4> QED
        BY <4>1 DEF Tried
    <3> QED
      BY <3>4, <3>5, <3>6
  <2> QED
    BY <2>3, <2>4
<1>2. ASSUME NEW ok \in BOOLEAN, Decrypt(s, ok) PROVE StuckInv'
  <2> DEFINE m0 == Min(job[s].todo)
  <2>1. job[s].pc = "decrypt" /\ NextMessage(s) /\ UNCHANGED <<sent, active, unseen>>
    BY <1>2 DEF Decrypt, server, page
  <2>2. Outcome(m0) /\ m0 \in 1..Len(sent)
    BY <1>2, <2>1, DecryptOutcome, Trial
  <2> HIDE DEF m0
  <2> SUFFICES ASSUME NEW m \in 1..Len(sent) PROVE Tried(m)'
    BY <2>1 DEF StuckInv
  <2>3. PICK t \in {"plain", "unavailable"} : Update(m0, t)
    BY <2>2 DEF Outcome
  <2>4. EffectDue(active', text')
    BY <2>1, <2>2 DEF Outcome
  <2>5. CASE m # m0
    <3>1. text'[m] = text[m]
      BY <2>2, <2>3, <2>5, Sent, UpdateTyped DEF Texts
    <3>2. UnderWay(m) => UnderWay(m)'
      BY <2>1, <2>5, NextMessageUnderWay DEF m0
    <3> QED
      BY <2>1, <2>4, <3>1, <3>2, TriedKept
  <2>6. CASE m = m0
    <3>1. text[m] # "absent"
      BY DEF StuckInv, Tried
    <3>2. text'[m] = t
      BY <2>2, <2>3, <2>6, <3>1, Sent, UpdateTyped DEF Texts
    <3>3. t = "unavailable" /\ sent'[m].conv = active' => effect'
      BY <2>1, <2>4, <3>2, EffectFor
    <3> QED
      BY <3>2, <3>3 DEF Tried
  <2> QED
    BY <2>5, <2>6
<1>3. CASE NoRecipient(s)
  <2> DEFINE m0 == Min(job[s].todo)
  <2>1. /\ job[s].pc = "decrypt" /\ NextMessage(s) /\ UNCHANGED <<sent, active>>
        /\ Update(m0, "no recipient") /\ unseen' = unseen \union {m0} /\ EffectDue(active', text')
    BY <1>3 DEF NoRecipient, server, page
  <2>2. m0 \in 1..Len(sent)
    BY <2>1, Trial
  <2> HIDE DEF m0
  <2> SUFFICES ASSUME NEW m \in 1..Len(sent) PROVE Tried(m)'
    BY <2>1 DEF StuckInv
  <2>3. CASE m # m0
    <3>1. text'[m] = text[m]
      BY <2>1, <2>2, <2>3, Sent, UpdateTyped DEF Texts
    <3>2. UnderWay(m) => UnderWay(m)'
      BY <2>1, <2>3, NextMessageUnderWay DEF m0
    <3> QED
      BY <2>1, <3>1, <3>2, TriedKept
  <2>4. CASE m = m0
    <3>1. text[m] # "absent"
      BY DEF StuckInv, Tried
    <3>2. text'[m] = "no recipient"
      BY <2>1, <2>2, <2>4, <3>1, Sent, UpdateTyped DEF Texts
    <3> QED
      BY <2>1, <2>4, <3>2 DEF Tried
  <2> QED
    BY <2>3, <2>4
<1> QED
  BY <1>1, <1>2, <1>3 DEF Step

LEMMA ReloadingStuckInv ==
    ASSUME TInv, StuckInv, Reloading
    PROVE  StuckInv'
<1>1. ASSUME NEW ok \in BOOLEAN, ReloadList(ok) PROVE StuckInv'
  <2>1. UNCHANGED <<sent, text, unseen, job, active, effect>>
    BY <1>1 DEF ReloadList, server
  <2> QED
    BY <2>1, StuckInvKept
<1>2. ASSUME NEW c \in Convs, NEW ok \in BOOLEAN, ReloadMessages(c, ok) PROVE StuckInv'
  <2> DEFINE ms == IF ok THEN Of(c) ELSE {}
  <2>1. /\ text' = [m \in Ids |-> IF m \in ms THEN "decrypting" ELSE text[m]]
        /\ unseen' = unseen \union ms
        /\ EffectDue(active', text') /\ UNCHANGED <<sent, active, job>>
    BY <1>2 DEF ReloadMessages, server, page
  <2> HIDE DEF ms
  <2> SUFFICES ASSUME NEW m \in 1..Len(sent) PROVE Tried(m)'
    BY <2>1 DEF StuckInv
  <2>2. m \in Ids
    BY Sent
  <2>3. CASE m \in ms
    BY <2>1, <2>2, <2>3 DEF Tried
  <2>4. CASE m \notin ms
    <3>1. text'[m] = text[m]
      BY <2>1, <2>2, <2>4
    <3>2. UnderWay(m) => UnderWay(m)'
      BY <2>1, JobsKept
    <3> QED
      BY <2>1, <3>1, <3>2, TriedKept
  <2> QED
    BY <2>3, <2>4
<1> QED
  BY <1>1, <1>2 DEF Reloading

LEMMA RetryStuckInv ==
    ASSUME TInv, StuckInv,
           RetryFailed \/ \E t \in timers, ok \in BOOLEAN : RetryFires(t, ok)
    PROVE  StuckInv'
<1>1. CASE RetryFailed
  <2>1. UNCHANGED <<sent, active, text, unseen>>
    BY <1>1 DEF RetryFailed, server, page, history
  <2>2. \A s \in 1..Slots : job'[s] # job[s] => job[s].pc # "decrypt"
    BY <1>1, RetryFailedTInv
  <2>3. PICK s \in 1..Slots : job'[s].pc = "decrypt" /\ job'[s].todo = FailedIn(active, text)
    BY <1>1, RetryFailedTInv
  <2> SUFFICES ASSUME NEW m \in 1..Len(sent) PROVE Tried(m)'
    BY <2>1 DEF StuckInv
  <2>4. Tried(m)
    BY DEF StuckInv
  <2>5. UnderWay(m) => UnderWay(m)'
    BY <2>2, JobsKept
  <2>6. CASE text[m] = "unavailable" /\ sent[m].conv = active
    <3>1. m \in FailedIn(active, text)
      BY <2>6 DEF FailedIn
    <3> QED
      BY <2>1, <2>3, <2>6, <3>1 DEF Tried, UnderWay
  <2>7. CASE ~(text[m] = "unavailable" /\ sent[m].conv = active)
    BY <2>1, <2>4, <2>5, <2>7 DEF Tried
  <2> QED
    BY <2>6, <2>7
<1>2. ASSUME NEW t \in timers, NEW ok \in BOOLEAN, RetryFires(t, ok)
      PROVE  StuckInv'
  <2>1. UNCHANGED <<sent, active, unseen, job>>
    BY <1>2 DEF RetryFires, server, page
  <2>2. t.msg \in 1..Len(sent)
    BY DEF TInv, TimersOK
  <2>3. CASE UNCHANGED <<text, effect>>
    BY <2>1, <2>3, StuckInvKept
  <2>4. CASE Update(t.msg, "plain") /\ EffectDue(active, text')
    <3> SUFFICES ASSUME NEW m \in 1..Len(sent) PROVE Tried(m)'
      BY <2>1 DEF StuckInv
    <3>1. CASE m # t.msg
      <4>1. text'[m] = text[m]
        BY <2>2, <2>4, <3>1, Sent, UpdateTyped DEF Texts
      <4>2. UnderWay(m) => UnderWay(m)'
        BY <2>1, JobsKept
      <4> QED
        BY <2>1, <2>4, <4>1, <4>2, TriedKept
    <3>2. CASE m = t.msg
      <4>1. text[m] # "absent"
        BY DEF StuckInv, Tried
      <4>2. text'[m] = "plain"
        BY <2>2, <2>4, <3>2, <4>1, Sent, UpdateTyped DEF Texts
      <4> QED
        BY <4>2 DEF Tried
    <3> QED
      BY <3>1, <3>2
  <2> QED
    BY <1>2, <2>3, <2>4, RetryOutcome DEF Retried
<1> QED
  BY <1>1, <1>2

LEMMA ReceiveStuckInv ==
    ASSUME TInv, StuckInv, NEW n \in Message, Receive(n), UNCHANGED active
    PROVE  StuckInv'
<1>1. /\ Len(sent) + 1 \in Ids /\ sent' = Append(sent, n) /\ unseen \subseteq unseen'
      /\ EffectDue(active', text')
  BY ReceiveJobs DEF Stored
<1>2. \E x \in {"no recipient", "decrypting"} : text' = [text EXCEPT ![Len(sent) + 1] = x]
  BY ReceiveJobs DEF Stored
<1>3. sent \in Seq(Message) /\ Len(sent) \in Nat /\ text \in [Ids -> Texts]
  BY DEF TInv, ServerOK, TextOK
<1>4. \A s \in 1..Slots : job'[s] # job[s] => job[s].pc # "decrypt"
  BY ReceiveJobs DEF Takes
<1>5. ASSUME NEW m \in 1..Len(sent'), m \notin 1..Len(sent)
      PROVE  Tried(m)'
  <2>1. m = Len(sent) + 1
    BY <1>1, <1>3, <1>5
  <2>2. text'[m] # "absent"
    BY <1>1, <1>2, <1>3, <2>1
  <2>3. CASE Len(sent) + 1 \in unseen'
    BY <2>1, <2>2, <2>3 DEF Tried
  <2>4. ASSUME NEW f \in Friends \union {None}, NEW s \in 1..Slots, job'[s] = Decryption(n, f)
        PROVE  Tried(m)'
    <3>1. job'[s].pc = "decrypt" /\ m \in job'[s].todo
      BY <2>1, <2>4 DEF Decryption
    <3>2. UnderWay(m)'
      BY <3>1 DEF UnderWay
    <3> QED
      BY <2>2, <3>2 DEF Tried
  <2> QED
    BY <2>3, <2>4, ReceiveJobs
<1>6. ASSUME NEW m \in 1..Len(sent)
      PROVE  Tried(m)'
  <2>1. sent'[m] = sent[m] /\ m # Len(sent) + 1
    BY <1>1, <1>3
  <2>2. text'[m] = text[m]
    BY <1>2, <1>3, <2>1, Sent
  <2>3. UnderWay(m) => UnderWay(m)'
    BY <1>4, JobsKept
  <2> QED
    BY <1>1, <2>1, <2>2, <2>3, TriedKept
<1> QED
  BY <1>5, <1>6 DEF StuckInv

LEMMA OpenStuckInv ==
    ASSUME TInv, StuckInv, NEW c \in Convs, NEW l \in [Convs -> Pair \union {None}],
           NEW f \in Friends \union {None}, Open(c, l, f), UNCHANGED <<sent, text, unseen>>
    PROVE  StuckInv'
<1>1. \A s \in 1..Slots : job'[s] # job[s] => job[s].pc # "decrypt"
  BY OpenJobs DEF Takes
<1>2. EffectDue(active', text')
  BY DEF Open
<1> QED
  BY <1>1, <1>2, StuckInvKept

LEMMA UserStuckInv ==
    ASSUME TInv, TInv', StuckInv, User \/ Picking
    PROVE  StuckInv'
<1>1. ASSUME NEW c \in Convs, SelectConversation(c) PROVE StuckInv'
  <2>1. Open(c, list, With[c]) /\ UNCHANGED <<sent, text, unseen>>
    BY <1>1 DEF SelectConversation, server, history
  <2>2. list \in [Convs -> Pair \union {None}] /\ With[c] \in Friends \union {None}
    BY WithAssumption DEF TInv, PageOK
  <2> QED
    BY <2>1, <2>2, OpenStuckInv
<1>2. ASSUME NEW c \in Convs, FriendOpens(c) PROVE StuckInv'
  <2>1. Open(c, list, pick) /\ UNCHANGED <<sent, text, unseen>>
    BY <1>2 DEF FriendOpens, server, history
  <2>2. list \in [Convs -> Pair \union {None}] /\ pick \in Friends \union {None}
    BY DEF TInv, PageOK
  <2> QED
    BY <2>1, <2>2, OpenStuckInv
<1>3. ASSUME NEW c \in Convs, NEW d \in Devs, FriendCreated(c, d) PROVE StuckInv'
  <2>1. Open(c, list', mapped[c]) /\ UNCHANGED <<sent, text, unseen>>
    BY <1>3 DEF FriendCreated, history
  <2>2. list' \in [Convs -> Pair \union {None}] /\ mapped[c] \in Friends \union {None}
    BY DEF TInv, PageOK
  <2> QED
    BY <2>1, <2>2, OpenStuckInv
<1>4. ASSUME NEW k \in Key, Send(k) PROVE StuckInv'
  <2> DEFINE m == [conv |-> active, own |-> TRUE, dev |-> NoDev, key |-> k]
  <2>1. active \in Convs /\ Receive(m) /\ UNCHANGED active
    BY <1>4 DEF Send, TInv, PageOK
  <2>2. m \in Message
    BY <2>1 DEF Message
  <2> HIDE DEF m
  <2> QED
    BY <2>1, <2>2, ReceiveStuckInv
<1>5. ASSUME SendFails \/ FriendFails \/ \E f \in Friends : SelectFriend(f)
      PROVE  StuckInv'
  <2>1. UNCHANGED <<sent, text, unseen, job, active, effect>>
    BY <1>5 DEF SendFails, FriendFails, SelectFriend, server, page, history
  <2> QED
    BY <2>1, StuckInvKept
<1> QED
  BY <1>1, <1>2, <1>3, <1>4, <1>5 DEF User, Picking

LEMMA OthersStuckInv ==
    ASSUME TInv, StuckInv, Others
    PROVE  StuckInv'
<1>1. ASSUME NEW c \in Convs, NEW k \in Key, OtherPageSends(c, k) PROVE StuckInv'
  <2> DEFINE m == [conv |-> c, own |-> TRUE, dev |-> NoDev, key |-> k]
  <2>1. Receive(m) /\ UNCHANGED active
    BY <1>1 DEF OtherPageSends, page
  <2>2. m \in Message
    BY DEF Message
  <2> HIDE DEF m
  <2> QED
    BY <2>1, <2>2, ReceiveStuckInv
<1>2. ASSUME NEW c \in Convs, NEW d \in Devs, NEW k \in Key, FriendSends(c, d, k)
      PROVE  StuckInv'
  <2> DEFINE m == [conv |-> c, own |-> FALSE, dev |-> d, key |-> k]
  <2>1. Receive(m) /\ UNCHANGED active
    BY <1>2 DEF FriendSends, page
  <2>2. m \in Message
    BY DEF Message
  <2> HIDE DEF m
  <2> QED
    BY <2>1, <2>2, ReceiveStuckInv
<1>3. ASSUME \/ \E c \in Convs, d \in Devs : FriendCreates(c, d)
             \/ \E d \in Devs : FriendRegisters(d) \/ FriendDeletes(d)
             \/ Notified \/ Regenerate
      PROVE  StuckInv'
  <2>1. UNCHANGED <<sent, text, unseen, job, active, effect>>
    BY <1>3 DEF FriendCreates, FriendRegisters, FriendDeletes, Notified, Regenerate, server, page,
                history
  <2> QED
    BY <2>1, StuckInvKept
<1> QED
  BY <1>1, <1>2, <1>3 DEF Others

LEMMA StuckInvNext == TInv /\ TInv' /\ StuckInv /\ [Next]_vars => StuckInv'
<1> SUFFICES ASSUME TInv, TInv', StuckInv, [Next]_vars PROVE StuckInv'
  OBVIOUS
<1>1. CASE UNCHANGED vars
  <2>1. UNCHANGED <<sent, text, unseen, job, active, effect>>
    BY <1>1 DEF vars, server, page, history
  <2> QED
    BY <2>1, StuckInvKept
<1>2. CASE Next
  BY <1>2, ReloadingStuckInv, StepStuckInv, RetryStuckInv, UserStuckInv, OthersStuckInv DEF Next
<1> QED
  BY <1>1, <1>2

(* When nothing is under way, no message of the open conversation is left failed *)
(* or decrypting, unless it was stored without a key being tried: every failure  *)
(* leaves the effect that tries again due, and it finds the message.             *)
THEOREM NothingStuckCorrect == Spec => []NothingStuck
<1>1. Init => TInv /\ StuckInv
  <2>1. Init => StuckInv
    BY DEF Init, StuckInv
  <2> QED
    BY <2>1, TInvInit
<1>2. TInv /\ StuckInv /\ [Next]_vars => TInv' /\ StuckInv'
  BY TInvNext, StuckInvNext
<1>3. StuckInv => NothingStuck
  BY StuckInvNothingStuck
<1> QED
  BY <1>1, <1>2, <1>3, PTL DEF Spec
================================================================================
