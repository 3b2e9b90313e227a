-------------------------- MODULE Conversations_proofs --------------------------
(***************************************************************************)
(* Theorems about Conversations, checked by TLAPS.                         *)
(***************************************************************************)
EXTENDS Conversations, FiniteSetTheorems, TLAPS

--------------------------------------------------------------------------------
(* The locals of a function and the fields of a row *)

LEMMA MaxOfTwo ==
    ASSUME NEW m \in Nat, NEW n \in Nat
    PROVE  /\ Max({m, n}) \in Nat /\ m <= Max({m, n}) /\ n <= Max({m, n})
           /\ Max({m, n}) = m \/ Max({m, n}) = n
<1>1. \E x \in {m, n} : \A y \in {m, n} : x >= y
  OBVIOUS
<1> QED
  BY <1>1 DEF Max

LEMMA IdleType ==
    /\ Idle \in Process
    /\ Idle.pc = "idle" /\ Idle.via = "none" /\ Idle.entries = {} /\ Idle.theirs = NoDev
    /\ Idle.id = NoRow /\ Idle.after = 0 /\ Idle.clock = 0
BY BoundsAssumption DEF Idle, Process, Pcs, NoRow, Dev, Clock

LEMMA EntryType ==
    ASSUME NEW c \in Ids, NEW m \in Dev, NEW d \in Dev, NEW full \in BOOLEAN
    PROVE  LET e == [id |-> c, mine |-> m, theirs |-> d, full |-> full]
           IN  e \in Entry /\ e.id = c
BY DEF Entry

LEMMA EntryNotFull ==
    ASSUME NEW e \in Entry, NEW full \in BOOLEAN
    PROVE  [e EXCEPT !.full = full] \in Entry /\ [e EXCEPT !.full = full].id = e.id
BY DEF Entry

LEMMA RowWithout ==
    ASSUME NEW r \in Row, NEW mine \in Dev, NEW theirs \in Dev
    PROVE  LET x == [r EXCEPT !.mine = mine, !.theirs = theirs]
           IN  /\ x \in Row /\ x.by = r.by /\ x.mine = mine /\ x.theirs = theirs
               /\ x.members = r.members /\ x.after = r.after /\ x.left = r.left
BY DEF Row

(* the friend is the other of the two users *)
LEMMA FriendIsOther ==
    ASSUME NEW p \in Pages
    PROVE  Friend(p) \in Users /\ Friend(p) # UserOf[p] /\ UserOf[p] \in Users
<1>1. UserOf[p] \in Users
  BY PagesAssumption
<1>2. \E u \in Users : u # UserOf[p]
  <2>1. SUFFICES ASSUME Users = {UserOf[p]} PROVE FALSE
    BY <1>1
  <2>2. Cardinality(Users) = 1
    BY <2>1, FS_Singleton
  <2> QED
    BY <2>2, UsersAssumption
<1> QED
  BY <1>1, <1>2 DEF Friend

--------------------------------------------------------------------------------
(* Type correctness *)

Below(entries) == \A e \in entries : e.id <= Len(rows)

DevicesOK ==
    /\ friends \in BOOLEAN
    /\ status \in [Devs -> {"none", "active", "revoked", "deleted"}]
    /\ current \in [Users -> Devs] /\ default \in [Users -> Devs]

RowsOK == rows \in Seq(Row) /\ Len(rows) \in Nat /\ Len(rows) <= MaxRows

PagesOK ==
    /\ news \subseteq Pages
    /\ list \in [Pages -> SUBSET Entry] /\ \A p \in Pages : Below(list[p])
    /\ open \in [Pages -> 0..Len(rows)]
    /\ known \in [Pages -> [current : Dev, default : Dev]]
    /\ asked \in [Pages -> 0..MaxLoads]

AnswersOK ==
    /\ answers \in [Pages -> SUBSET [n : Clock, entries : SUBSET Entry]]
    /\ \A p \in Pages : \A x \in answers[p] : x.n <= clock /\ Below(x.entries)

GoodProc(q, n, k) ==
    /\ q \in Process
    /\ \A e \in q.entries : e.id <= n
    /\ q.id <= n /\ q.after <= n /\ q.clock <= k
    /\ q.pc \in {"publish", "answer"} <=> q.id # NoRow

ProcsOK ==
    /\ proc \in [Pages -> Process]
    /\ \A p \in Pages : GoodProc(proc[p], Len(rows), clock)

(* rows are created and left, and a user leaves one by an act *)
HistoryOK ==
    /\ clock \in Nat /\ clock <= Len(rows) + acts
    /\ seen \in [Pages -> 0..clock] /\ top \in [Pages -> 0..clock]
    /\ faults \in 0..MaxFaults /\ acts \in 0..MaxActs

(* the inductive form of TypeOK *)
TInv == DevicesOK /\ RowsOK /\ PagesOK /\ AnswersOK /\ ProcsOK /\ HistoryOK

LEMMA TInvTypeOK == TInv => TypeOK
<1> SUFFICES ASSUME TInv PROVE TypeOK
  OBVIOUS
<1>1. \A k \in 0..clock : k \in Clock
  BY BoundsAssumption DEF TInv, RowsOK, HistoryOK, Clock
<1>2. clock \in Clock /\ seen \in [Pages -> Clock] /\ top \in [Pages -> Clock]
  BY <1>1 DEF TInv, HistoryOK
<1>3. \A p \in Pages : /\ answers[p] \subseteq [n : Clock, entries : SUBSET Entry]
                       /\ proc[p].pc \in {"publish", "answer"} => proc[p].id # NoRow
  BY DEF TInv, AnswersOK, ProcsOK, GoodProc
<1> QED
  BY <1>2, <1>3 DEF TInv, DevicesOK, RowsOK, PagesOK, ProcsOK, HistoryOK, TypeOK

(* rows and the clock may only grow *)
Grows ==
    /\ RowsOK' /\ Len(rows) <= Len(rows')
    /\ clock' \in Nat /\ clock <= clock'

LEMMA Steady ==
    ASSUME TInv, rows' = rows, clock' = clock
    PROVE  Grows
BY DEF TInv, RowsOK, HistoryOK, Grows

(* what a step leaves alone stays well formed *)
LEMMA PagesKept ==
    ASSUME TInv, Grows, UNCHANGED <<news, list, open, known, asked>>
    PROVE  PagesOK'
BY DEF TInv, PagesOK, Grows, RowsOK, Below, Entry, Ids

LEMMA AnswersKept ==
    ASSUME TInv, Grows, answers' = answers
    PROVE  AnswersOK'
<1>1. ASSUME NEW p \in Pages, NEW x \in answers[p]
      PROVE  x.n <= clock' /\ Below(x.entries)'
  <2>1. /\ x \in [n : Clock, entries : SUBSET Entry] /\ x.n <= clock /\ Below(x.entries)
        /\ clock \in Nat /\ x.n \in Nat
    BY BoundsAssumption DEF TInv, AnswersOK, HistoryOK, Clock
  <2> QED
    BY <2>1 DEF TInv, Grows, RowsOK, Below, Entry, Ids
<1> QED
  BY <1>1 DEF TInv, AnswersOK

LEMMA GoodGrows ==
    ASSUME TInv, Grows, NEW q, GoodProc(q, Len(rows), clock)
    PROVE  GoodProc(q, Len(rows'), clock')
<1>1. /\ q.id \in Nat /\ q.after \in Nat /\ q.clock \in Nat
      /\ \A e \in q.entries : e.id \in Nat
  BY BoundsAssumption DEF GoodProc, Process, Clock, Entry, Ids
<1> QED
  BY <1>1 DEF GoodProc, Grows, TInv, RowsOK, HistoryOK

LEMMA ProcsStep ==
    ASSUME TInv, Grows, NEW p \in Pages, NEW q, Become(p, q),
           GoodProc(q, Len(rows'), clock')
    PROVE  ProcsOK' /\ proc'[p] = q /\ \A o \in Pages \ {p} : proc'[o] = proc[o]
<1>1. q \in Process /\ proc \in [Pages -> Process]
  BY DEF GoodProc, TInv, ProcsOK
<1>2. /\ proc' \in [Pages -> Process] /\ proc'[p] = q
      /\ \A o \in Pages \ {p} : proc'[o] = proc[o]
  BY <1>1 DEF Become
<1>3. \A o \in Pages : GoodProc(proc'[o], Len(rows'), clock')
  BY <1>2, GoodGrows DEF TInv, ProcsOK
<1> QED
  BY <1>2, <1>3 DEF ProcsOK

LEMMA ProcsKept ==
    ASSUME TInv, Grows, proc' = proc
    PROVE  ProcsOK'
BY GoodGrows DEF TInv, ProcsOK

LEMMA IdleGood ==
    ASSUME TInv, Grows
    PROVE  GoodProc(Idle, Len(rows'), clock')
BY IdleType DEF GoodProc, Grows, RowsOK, NoRow

LEMMA HistoryKept ==
    ASSUME TInv, Grows, clock' <= Len(rows') + acts',
           UNCHANGED <<seen, top>>, faults' \in 0..MaxFaults, acts' \in 0..MaxActs
    PROVE  HistoryOK'
<1>1. \A k \in 0..clock : k \in 0..clock'
  BY DEF TInv, HistoryOK, Grows
<1> QED
  BY <1>1 DEF TInv, HistoryOK, Grows

LEMMA Counters ==
    ASSUME TInv
    PROVE  /\ faults \in 0..MaxFaults /\ acts \in 0..MaxActs /\ acts \in Nat
           /\ Act => acts' \in 0..MaxActs /\ acts' = acts + 1
           /\ Fault => faults' \in 0..MaxFaults
<1>1. acts \in 0..MaxActs /\ faults \in 0..MaxFaults
  BY DEF TInv, HistoryOK
<1> QED
  BY <1>1, BoundsAssumption DEF Act, Fault

(* a page's list now shows what was there at time n *)
LEMMA ShowsOK ==
    ASSUME TInv, Grows, NEW p \in Pages, NEW n \in 0..clock', Shows(p, n),
           clock' <= Len(rows') + acts', faults' \in 0..MaxFaults, acts' \in 0..MaxActs
    PROVE  /\ HistoryOK'
           /\ top'[p] \in Nat /\ top[p] <= top'[p] /\ n <= top'[p]
           /\ \A o \in Pages \ {p} : top'[o] = top[o] /\ seen'[o] = seen[o]
           /\ seen[p] # top[p] => seen'[p] = seen[p]
           /\ seen[p] = top[p] => seen'[p] = top'[p]
<1>1. /\ seen \in [Pages -> 0..clock] /\ top \in [Pages -> 0..clock]
      /\ clock \in Nat /\ clock' \in Nat /\ clock <= clock'
  BY DEF TInv, HistoryOK, Grows
<1>2. \A k \in 0..clock : k \in 0..clock'
  BY <1>1
<1>3. seen[p] \in Nat /\ top[p] \in Nat /\ n \in Nat
  BY <1>1
<1> DEFINE t == Max({top[p], n})
           s == IF seen[p] = top[p] THEN Max({seen[p], n}) ELSE seen[p]
<1>4. /\ t \in 0..clock' /\ top[p] <= t /\ n <= t
      /\ s \in 0..clock' /\ (seen[p] = top[p] => s = t)
  BY <1>1, <1>2, <1>3, MaxOfTwo
<1>5. top' = [top EXCEPT ![p] = t] /\ seen' = [seen EXCEPT ![p] = s]
  BY DEF Shows
<1>6. s = seen[p] \/ seen[p] = top[p]
  OBVIOUS
<1> HIDE DEF t, s
<1>7. top' \in [Pages -> 0..clock'] /\ seen' \in [Pages -> 0..clock']
  BY <1>1, <1>2, <1>4, <1>5
<1> QED
  BY <1>1, <1>4, <1>5, <1>6, <1>7 DEF HistoryOK

--------------------------------------------------------------------------------
(* The steps of the loads *)

LEMMA RowOf ==
    ASSUME TInv, NEW c \in 1..Len(rows)
    PROVE  /\ rows[c] \in Row /\ c \in Ids /\ c \in 0..MaxRows
           /\ rows[c].by \in Users /\ rows[c].mine \in Dev /\ rows[c].theirs \in Dev
           /\ rows[c].members \in SUBSET Users /\ rows[c].left \in SUBSET Pages
           /\ rows[c].after \in 0..MaxRows
           /\ EntryOf(c) \in Entry /\ EntryOf(c).id = c
<1>1. rows[c] \in Row /\ c \in Ids /\ c \in 0..MaxRows
  BY BoundsAssumption DEF TInv, RowsOK, Ids
<1>2. /\ rows[c].by \in Users /\ rows[c].mine \in Dev /\ rows[c].theirs \in Dev
      /\ rows[c].members \in SUBSET Users /\ rows[c].left \in SUBSET Pages
      /\ rows[c].after \in 0..MaxRows
  BY <1>1 DEF Row
<1>3. TRUE \in BOOLEAN
  OBVIOUS
<1>4. EntryOf(c) \in Entry /\ EntryOf(c).id = c
  BY <1>1, <1>2, <1>3, EntryType DEF EntryOf
<1> QED
  BY <1>1, <1>2, <1>4

LEMMA AskType ==
    ASSUME TInv, NEW p \in Pages, AskLoad(p)
    PROVE  /\ asked' \in [Pages -> 0..MaxLoads] /\ asked'[p] = asked[p] + 1
           /\ \A o \in Pages \ {p} : asked'[o] = asked[o]
           /\ asked[p] \in Nat
<1>1. asked \in [Pages -> 0..MaxLoads] /\ asked[p] < MaxLoads /\ MaxLoads \in Nat
  BY BoundsAssumption DEF TInv, PagesOK, AskLoad
<1>2. asked[p] + 1 \in 0..MaxLoads
  BY <1>1
<1> QED
  BY <1>1, <1>2 DEF AskLoad

(* the answer a load reads *)
Read(p) == [n |-> clock, entries |-> {EntryOf(c) : c \in RowsOf(p)}]

LEMMA ReadType ==
    ASSUME TInv, NEW p \in Pages
    PROVE  /\ Read(p) \in [n : Clock, entries : SUBSET Entry]
           /\ Read(p).n = clock /\ Below(Read(p).entries)
           /\ \A c \in RowsOf(p) : \E e \in Read(p).entries : e.id = c
           /\ \A e \in Read(p).entries : e.id \in RowsOf(p)
<1> DEFINE es == {EntryOf(c) : c \in RowsOf(p)}
<1>1. \A c \in RowsOf(p) : c \in 1..Len(rows) /\ EntryOf(c) \in Entry /\ EntryOf(c).id = c
  BY RowOf DEF RowsOf
<1>2. clock \in Clock
  BY BoundsAssumption DEF TInv, RowsOK, HistoryOK, Clock
<1>3. es \in SUBSET Entry
  BY <1>1
<1>4. \A e \in es : e.id \in RowsOf(p) /\ e.id <= Len(rows)
  BY <1>1 DEF TInv, RowsOK
<1>5. \A c \in RowsOf(p) : \E e \in es : e.id = c
  BY <1>1
<1> HIDE DEF es
<1>6. Read(p) = [n |-> clock, entries |-> es]
  BY DEF Read, es
<1> QED
  BY <1>2, <1>3, <1>4, <1>5, <1>6 DEF Below

LEMMA LoadReadNow ==
    ASSUME TInv, NEW p \in Pages, LoadRead(p)
    PROVE  /\ asked[p] > 0 /\ asked' \in [Pages -> 0..MaxLoads]
           /\ answers' \in [Pages -> SUBSET [n : Clock, entries : SUBSET Entry]]
           /\ answers'[p] = answers[p] \union {Read(p)}
           /\ \A o \in Pages \ {p} : answers'[o] = answers[o] /\ asked'[o] = asked[o]
<1>1. asked \in [Pages -> 0..MaxLoads] /\ asked[p] > 0 /\ MaxLoads \in Nat
  BY BoundsAssumption DEF TInv, PagesOK, LoadRead
<1>2. asked[p] - 1 \in 0..MaxLoads
  BY <1>1
<1>3. /\ asked' = [asked EXCEPT ![p] = asked[p] - 1]
      /\ answers' = [answers EXCEPT ![p] = answers[p] \union {Read(p)}]
  BY DEF LoadRead, Read
<1>4. answers \in [Pages -> SUBSET [n : Clock, entries : SUBSET Entry]]
  BY DEF TInv, AnswersOK
<1>5. answers[p] \union {Read(p)} \in SUBSET [n : Clock, entries : SUBSET Entry]
  BY <1>4, ReadType
<1> QED
  BY <1>1, <1>2, <1>3, <1>4, <1>5

LEMMA LoadAnswerNow ==
    ASSUME TInv, NEW p \in Pages, NEW x \in answers[p], LoadAnswer(p, x)
    PROVE  /\ answers' \in [Pages -> SUBSET [n : Clock, entries : SUBSET Entry]]
           /\ answers'[p] = answers[p] \ {x}
           /\ list' \in [Pages -> SUBSET Entry] /\ list'[p] = x.entries
           /\ HistoryOK'
           /\ seen'[p] = x.n /\ top[p] <= top'[p] /\ x.n <= top'[p]
           /\ (top'[p] = top[p] \/ top'[p] = x.n) /\ top[p] \in Nat /\ x.n \in Nat
           /\ \A o \in Pages \ {p} : /\ answers'[o] = answers[o] /\ list'[o] = list[o]
                                     /\ seen'[o] = seen[o] /\ top'[o] = top[o]
<1>1. /\ answers \in [Pages -> SUBSET [n : Clock, entries : SUBSET Entry]]
      /\ x \in [n : Clock, entries : SUBSET Entry] /\ x.n <= clock
  BY DEF TInv, AnswersOK
<1>2. /\ list \in [Pages -> SUBSET Entry] /\ seen \in [Pages -> 0..clock]
      /\ top \in [Pages -> 0..clock] /\ clock \in Nat
  BY DEF TInv, PagesOK, HistoryOK
<1>3. x.n \in 0..clock /\ x.entries \in SUBSET Entry /\ top[p] \in 0..clock
  BY <1>1, <1>2, BoundsAssumption DEF Clock
<1> DEFINE t == Max({top[p], x.n})
<1>4. t \in 0..clock /\ top[p] <= t /\ x.n <= t /\ (t = top[p] \/ t = x.n)
  <2>1. top[p] \in Nat /\ x.n \in Nat
    BY <1>2, <1>3
  <2>2. top[p] <= t /\ x.n <= t /\ (t = top[p] \/ t = x.n)
    BY <2>1, MaxOfTwo
  <2> QED
    BY <1>3, <2>2
<1>5. /\ answers' = [answers EXCEPT ![p] = answers[p] \ {x}]
      /\ list' = [list EXCEPT ![p] = x.entries] /\ seen' = [seen EXCEPT ![p] = x.n]
      /\ top' = [top EXCEPT ![p] = t]
      /\ UNCHANGED <<rows, clock, acts, faults>>
  BY DEF LoadAnswer
<1> HIDE DEF t
<1>6. seen' \in [Pages -> 0..clock] /\ top' \in [Pages -> 0..clock]
  BY <1>2, <1>3, <1>4, <1>5
<1>7. HistoryOK'
  BY <1>2, <1>5, <1>6 DEF TInv, HistoryOK
<1>8. /\ list' \in [Pages -> SUBSET Entry] /\ list'[p] = x.entries
      /\ \A o \in Pages \ {p} : list'[o] = list[o]
  BY <1>2, <1>3, <1>5
<1>9. /\ answers' \in [Pages -> SUBSET [n : Clock, entries : SUBSET Entry]]
      /\ answers'[p] = answers[p] \ {x}
      /\ \A o \in Pages \ {p} : answers'[o] = answers[o]
  <2>1. answers[p] \ {x} \in SUBSET [n : Clock, entries : SUBSET Entry]
    BY <1>1
  <2> QED
    BY <1>1, <1>5, <2>1
<1>10. /\ seen'[p] = x.n /\ top'[p] = t
       /\ \A o \in Pages \ {p} : seen'[o] = seen[o] /\ top'[o] = top[o]
  BY <1>2, <1>5
<1> QED
  BY <1>2, <1>3, <1>4, <1>7, <1>8, <1>9, <1>10

LEMMA LoadingType ==
    ASSUME TInv, NEW p \in Pages, Loading(p)
    PROVE  TInv'
<1>1. rows' = rows /\ clock' = clock /\ proc' = proc /\ UNCHANGED <<friends, devices, acts>>
  BY DEF Loading, LoadRead, LoadAnswer, LoadFails, Notified, LoadFriendDevice, history
<1>2. Grows /\ DevicesOK' /\ ProcsOK' /\ RowsOK'
  BY <1>1, Steady, ProcsKept DEF TInv, DevicesOK, devices, Grows
<1>3. clock' <= Len(rows') + acts'
  BY <1>1 DEF TInv, HistoryOK
<1>4. CASE LoadRead(p)
  <2>1. UNCHANGED <<news, list, open, known, history>>
    BY <1>4 DEF LoadRead
  <2>2. PagesOK'
    BY <1>1, <1>4, <2>1, LoadReadNow DEF TInv, PagesOK, Below
  <2>3. AnswersOK'
    <3>1. ASSUME NEW o \in Pages, NEW x \in answers'[o]
          PROVE  x.n <= clock' /\ Below(x.entries)'
      <4>1. x \in answers[o] \/ x = Read(p)
        BY <1>4, LoadReadNow
      <4>2. x.n <= clock /\ Below(x.entries)
        BY <4>1, ReadType DEF TInv, AnswersOK, HistoryOK
      <4> QED
        BY <1>1, <4>2 DEF Below
    <3> QED
      BY <1>4, <3>1, LoadReadNow DEF AnswersOK
  <2>4. HistoryOK'
    BY <1>1, <2>1 DEF TInv, HistoryOK, history
  <2> QED
    BY <1>2, <2>2, <2>3, <2>4 DEF TInv
<1>5. ASSUME NEW x \in answers[p], LoadAnswer(p, x)
      PROVE  TInv'
  <2>1. UNCHANGED <<news, open, known, asked>>
    BY <1>5 DEF LoadAnswer
  <2>2. Below(x.entries)
    BY DEF TInv, AnswersOK
  <2>3. PagesOK'
    <3>1. /\ list' \in [Pages -> SUBSET Entry] /\ list'[p] = x.entries
          /\ \A o \in Pages \ {p} : list'[o] = list[o]
      BY <1>5, LoadAnswerNow
    <3> QED
      BY <1>1, <2>1, <2>2, <3>1 DEF TInv, PagesOK, Below
  <2>4. AnswersOK'
    BY <1>1, <1>5, LoadAnswerNow DEF TInv, AnswersOK, Below
  <2> QED
    BY <1>2, <1>5, <2>3, <2>4, LoadAnswerNow DEF TInv
<1>6. CASE LoadFails(p)
  <2>1. asked' \in [Pages -> 0..MaxLoads]
    <3>1. asked[p] - 1 \in 0..MaxLoads /\ asked \in [Pages -> 0..MaxLoads]
      BY <1>6, BoundsAssumption DEF LoadFails, TInv, PagesOK
    <3> QED
      BY <1>6, <3>1 DEF LoadFails
  <2>2. PagesOK'
    BY <1>1, <1>6, <2>1 DEF LoadFails, TInv, PagesOK, Below
  <2>3. AnswersOK'
    BY <1>2, <1>6, AnswersKept DEF LoadFails
  <2>4. HistoryOK'
    BY <1>1, <1>2, <1>3, <1>6, HistoryKept, Counters DEF LoadFails
  <2> QED
    BY <1>2, <2>2, <2>3, <2>4 DEF TInv
<1>7. CASE Notified(p)
  <2>1. PagesOK'
    BY <1>1, <1>7, AskType DEF Notified, TInv, PagesOK, Below
  <2>2. AnswersOK'
    BY <1>2, <1>7, AnswersKept DEF Notified
  <2>3. HistoryOK'
    BY <1>1, <1>7 DEF Notified, TInv, HistoryOK, history
  <2> QED
    BY <1>2, <2>1, <2>2, <2>3 DEF TInv
<1>8. ASSUME NEW online \in BOOLEAN, LoadFriendDevice(p, online)
      PROVE  TInv'
  <2> DEFINE d == Shown(default[Friend(p)])
             c == IF online THEN Shown(current[Friend(p)]) ELSE NoDev
             e == IF d = NoDev THEN known[p].default ELSE d
             k == [current |-> c, default |-> e]
  <2>1. known' = [known EXCEPT ![p] = k] /\ known \in [Pages -> [current : Dev, default : Dev]]
    BY <1>8 DEF LoadFriendDevice, TInv, PagesOK
  <2>2. d \in Dev /\ c \in Dev
    BY FriendIsOther DEF Shown, Dev, TInv, DevicesOK
  <2>3. e \in Dev
    BY <2>1, <2>2
  <2> HIDE DEF c, d, e
  <2>4. known' \in [Pages -> [current : Dev, default : Dev]]
    BY <2>1, <2>2, <2>3
  <2>5. UNCHANGED <<news, list, open, asked, answers, history>>
    BY <1>8 DEF LoadFriendDevice
  <2>6. PagesOK'
    BY <1>1, <2>4, <2>5 DEF TInv, PagesOK, Below
  <2>7. AnswersOK'
    BY <1>2, <2>5, AnswersKept
  <2>8. HistoryOK'
    BY <1>1, <2>5 DEF TInv, HistoryOK, history
  <2> QED
    BY <1>2, <2>6, <2>7, <2>8 DEF TInv
<1> QED
  BY <1>4, <1>5, <1>6, <1>7, <1>8 DEF Loading

--------------------------------------------------------------------------------
(* The steps of the page *)

(* steps that open a conversation or move a page's function only *)
LEMMA PageMoves ==
    ASSUME TInv, NEW p \in Pages, NEW c \in 0..Len(rows), NEW q,
           GoodProc(q, Len(rows), clock),
           open' = [open EXCEPT ![p] = c] \/ open' = open,
           Become(p, q) \/ proc' = proc,
           acts' \in 0..MaxActs, acts <= acts',
           UNCHANGED <<friends, devices, rows, news, list, known, asked, answers, clock, seen,
                       top, faults>>
    PROVE  TInv'
<1>1. Grows /\ DevicesOK' /\ AnswersOK' /\ RowsOK'
  BY Steady, AnswersKept DEF TInv, DevicesOK, devices, Grows
<1>2. ProcsOK'
  BY <1>1, ProcsKept, ProcsStep
<1>3. open' \in [Pages -> 0..Len(rows)]
  BY DEF TInv, PagesOK
<1>4. PagesOK'
  BY <1>3 DEF TInv, PagesOK, Below
<1>5. clock' <= Len(rows') + acts'
  BY BoundsAssumption DEF TInv, HistoryOK, RowsOK
<1>6. HistoryOK'
  BY <1>1, <1>5, HistoryKept, Counters
<1> QED
  BY <1>1, <1>2, <1>4, <1>6 DEF TInv

LEMMA EntryBelow ==
    ASSUME TInv, NEW es \in SUBSET Entry, Below(es), NEW e \in es
    PROVE  e.id \in 0..Len(rows) /\ e.id \in 1..Len(rows) /\ e.id \in Nat
BY DEF TInv, RowsOK, Below, Entry, Ids

LEMMA ProcNow ==
    ASSUME TInv, NEW p \in Pages
    PROVE  /\ proc[p] \in Process /\ GoodProc(proc[p], Len(rows), clock)
           /\ proc[p].pc \in Pcs /\ proc[p].theirs \in Dev /\ proc[p].entries \in SUBSET Entry
           /\ Below(proc[p].entries) /\ proc[p].id \in 0..Len(rows)
           /\ proc[p].via \in {"none", "friend", "current", "default"}
           /\ proc[p].after \in 0..Len(rows) /\ proc[p].clock \in 0..clock
           /\ (At(p, "publish") \/ At(p, "answer") <=> proc[p].id # NoRow)
           /\ At(p, "publish") \/ At(p, "answer") => proc[p].id \in 1..Len(rows)
<1>1. proc[p] \in Process /\ GoodProc(proc[p], Len(rows), clock)
  BY DEF TInv, ProcsOK
<1>2. /\ proc[p].pc \in Pcs /\ proc[p].theirs \in Dev /\ proc[p].entries \in SUBSET Entry
      /\ proc[p].via \in {"none", "friend", "current", "default"}
      /\ proc[p].id \in 0..MaxRows /\ proc[p].after \in 0..MaxRows /\ proc[p].clock \in Clock
  BY <1>1 DEF Process
<1>3. Len(rows) \in Nat /\ clock \in Nat
  BY DEF TInv, RowsOK, HistoryOK
<1> QED
  BY <1>1, <1>2, <1>3, BoundsAssumption DEF GoodProc, At, Below, Clock, NoRow

(* the function of a page calls createConversation *)
LEMMA GoodCall ==
    ASSUME TInv, NEW p \in Pages, NEW pc \in Pcs \ {"publish", "answer"}, NEW d \in Dev,
           NEW via \in {"none", "friend", "current", "default"},
           NEW es \in SUBSET Entry, Below(es)
    PROVE  /\ GoodProc([Idle EXCEPT !.pc = pc, !.via = via, !.entries = es], Len(rows), clock)
           /\ GoodProc([Idle EXCEPT !.pc = pc, !.via = via, !.theirs = d], Len(rows), clock)
<1>1. /\ [Idle EXCEPT !.pc = pc, !.via = via, !.entries = es] \in Process
      /\ [Idle EXCEPT !.pc = pc, !.via = via, !.theirs = d] \in Process
  <2>1. Idle \in Process /\ pc \in Pcs
    BY IdleType
  <2> QED
    BY <2>1 DEF Process
<1>2. /\ Len(rows) \in Nat /\ clock \in Nat /\ \A e \in es : e.id <= Len(rows)
  BY DEF TInv, RowsOK, HistoryOK, Below
<1> QED
  BY <1>1, <1>2 DEF GoodProc, Idle, NoRow

LEMMA GoodStep ==
    ASSUME TInv, NEW p \in Pages, ~At(p, "publish"), ~At(p, "answer"),
           NEW pc \in Pcs \ {"publish", "answer"}, NEW d \in Dev, NEW n \in 0..Len(rows)
    PROVE  /\ GoodProc([proc[p] EXCEPT !.pc = pc, !.theirs = d, !.entries = {}], Len(rows), clock)
           /\ GoodProc([proc[p] EXCEPT !.pc = pc, !.theirs = d], Len(rows), clock)
           /\ GoodProc([proc[p] EXCEPT !.pc = pc], Len(rows), clock)
           /\ GoodProc([proc[p] EXCEPT !.pc = pc, !.after = n], Len(rows), clock)
<1>1. /\ proc[p] \in Process /\ GoodProc(proc[p], Len(rows), clock) /\ proc[p].id = NoRow
      /\ n \in 0..MaxRows
  <2>1. Len(rows) \in Nat /\ Len(rows) <= MaxRows /\ MaxRows \in Nat
    BY BoundsAssumption DEF TInv, RowsOK
  <2> QED
    BY <2>1, ProcNow
<1>2. /\ [proc[p] EXCEPT !.pc = pc, !.theirs = d, !.entries = {}] \in Process
      /\ [proc[p] EXCEPT !.pc = pc, !.theirs = d] \in Process
      /\ [proc[p] EXCEPT !.pc = pc] \in Process
      /\ [proc[p] EXCEPT !.pc = pc, !.after = n] \in Process
  BY <1>1 DEF Process
<1>3. Len(rows) \in Nat /\ clock \in Nat
  BY DEF TInv, RowsOK, HistoryOK
<1>4. /\ proc[p].id = NoRow /\ NoRow <= Len(rows) /\ proc[p].after <= Len(rows)
      /\ proc[p].clock <= clock /\ \A e \in proc[p].entries : e.id <= Len(rows)
  BY <1>1, <1>3 DEF GoodProc, NoRow
<1>5. n <= Len(rows)
  BY <1>3
<1>6. proc[p] \in Process
  BY <1>1
<1>7. /\ GoodProc([proc[p] EXCEPT !.pc = pc, !.theirs = d, !.entries = {}], Len(rows), clock)
      /\ GoodProc([proc[p] EXCEPT !.pc = pc, !.theirs = d], Len(rows), clock)
  BY <1>2, <1>4, <1>6 DEF GoodProc, Process
<1>8. /\ GoodProc([proc[p] EXCEPT !.pc = pc], Len(rows), clock)
      /\ GoodProc([proc[p] EXCEPT !.pc = pc, !.after = n], Len(rows), clock)
  BY <1>2, <1>4, <1>5, <1>6 DEF GoodProc, Process
<1> QED
  BY <1>7, <1>8

LEMMA ChoosingType ==
    ASSUME TInv, NEW p \in Pages,
           (\E via \in {"friend", "current"} : Choose(p, via)) \/ Profile(p) \/ ChooseDefault(p)
           \/ (\E e \in list[p] : SelectConversation(p, e))
    PROVE  TInv'
<1>1. /\ Len(rows) \in Nat /\ list[p] \in SUBSET Entry /\ Below(list[p])
      /\ 0 \in 0..Len(rows) /\ NoDev \in Dev /\ acts \in Nat /\ acts \in 0..MaxActs
      /\ GoodProc(Idle, Len(rows), clock) /\ GoodProc(proc[p], Len(rows), clock)
  <2>1. /\ Len(rows) \in Nat /\ list[p] \in SUBSET Entry /\ Below(list[p])
        /\ NoDev \in Dev /\ clock \in Nat
    BY DEF TInv, RowsOK, PagesOK, Dev, HistoryOK
  <2>2. GoodProc(Idle, Len(rows), clock)
    BY <2>1, IdleType DEF GoodProc, NoRow
  <2> QED
    BY <2>1, <2>2, ProcNow, Counters
<1>2. Act => acts' \in 0..MaxActs /\ acts <= acts'
  BY <1>1, Counters
<1>3. \A e \in list[p] : e.id \in 0..Len(rows)
  BY <1>1, EntryBelow
<1>4. ASSUME NEW via \in {"friend", "current"}, Choose(p, via)
      PROVE  TInv'
  <2> DEFINE q == [Idle EXCEPT !.pc = "profile", !.via = via, !.entries = list[p]]
  <2>1. GoodProc(q, Len(rows), clock)
    BY <1>1, GoodCall DEF Pcs
  <2> QED
    BY <1>1, <1>2, <1>4, <2>1, PageMoves DEF Choose, pages
<1>5. CASE Profile(p)
  <2>1. Below(proc[p].entries) /\ proc[p].entries \in SUBSET Entry /\ At(p, "profile")
    BY <1>5, ProcNow DEF Profile
  <2> DEFINE d == Shown(current[Friend(p)])
             q == [proc[p] EXCEPT !.pc = "target", !.theirs = d, !.entries = {}]
  <2>2. d \in Dev
    BY FriendIsOther DEF Shown, Dev, TInv, DevicesOK
  <2>3. GoodProc(q, Len(rows), clock)
    BY <1>1, <2>1, <2>2, GoodStep DEF At, Pcs
  <2>4. \A e \in Listed(p, d, proc[p].via) : e.id \in 0..Len(rows)
    BY <2>1, EntryBelow DEF Listed
  <2>5. UNCHANGED <<friends, devices, rows, news, list, known, asked, answers, history>>
    BY <1>5 DEF Profile
  <2>6. \/ \E e \in Listed(p, d, proc[p].via) : open' = [open EXCEPT ![p] = e.id] /\ Become(p, Idle)
        \/ open' = open /\ (Become(p, Idle) \/ Become(p, q))
    BY <1>5 DEF Profile, ForDevice
  <2> HIDE DEF d, q
  <2> QED
    BY <1>1, <2>3, <2>4, <2>5, <2>6, PageMoves DEF history
<1>6. CASE ChooseDefault(p)
  <2> DEFINE d == known[p].default
             found == {e \in list[p] : PairOf(e) = Pair(DeviceOf[p], d)}
             q == [Idle EXCEPT !.pc = "target", !.via = "default", !.theirs = d]
  <2>1. d \in Dev
    BY DEF TInv, PagesOK
  <2>2. GoodProc(q, Len(rows), clock)
    BY <1>1, <2>1, GoodCall DEF Pcs, Below
  <2>3. found # {} => (CHOOSE e \in found : TRUE).id \in 0..Len(rows)
    BY <1>3
  <2>4. \/ found # {} /\ open' = [open EXCEPT ![p] = (CHOOSE e \in found : TRUE).id] /\ proc' = proc
        \/ open' = open /\ Become(p, q)
    BY <1>6 DEF ChooseDefault
  <2>5. /\ UNCHANGED <<friends, devices, rows, news, list, known, asked, answers, clock, seen,
                       top, faults>>
        /\ Act
    BY <1>6 DEF ChooseDefault
  <2> HIDE DEF d, q, found
  <2> QED
    BY <1>1, <1>2, <2>2, <2>3, <2>4, <2>5, PageMoves
<1>7. ASSUME NEW e \in list[p], SelectConversation(p, e)
      PROVE  TInv'
  <2>1. e.id \in 0..Len(rows)
    BY <1>3
  <2> QED
    BY <1>1, <1>2, <1>7, <2>1, PageMoves DEF SelectConversation
<1> QED
  BY <1>4, <1>5, <1>6, <1>7

--------------------------------------------------------------------------------
(* The steps of createConversation *)

LEMMA FindExistingNow ==
    ASSUME TInv, NEW p \in Pages, FindExisting(p)
    PROVE  /\ At(p, "find")
           /\ UNCHANGED <<friends, devices, rows, news, pages, history>>
           /\ \/ /\ Become(p, [proc[p] EXCEPT !.pc = "insert", !.after = Len(rows)])
                 /\ Candidates(p) = {} \/ \E c \in Candidates(p) : ~Complete(rows[c])
              \/ \E c \in Candidates(p) : /\ Complete(rows[c])
                                          /\ Become(p, WithRow(p, c))
BY DEF FindExisting

LEMMA GoodWithRow ==
    ASSUME TInv, NEW p \in Pages, At(p, "find"), NEW c \in 1..Len(rows)
    PROVE  /\ GoodProc(WithRow(p, c), Len(rows), clock)
           /\ WithRow(p, c).pc = "publish" /\ WithRow(p, c).id = c
           /\ WithRow(p, c).clock = clock /\ WithRow(p, c).entries = proc[p].entries
           /\ WithRow(p, c).via = proc[p].via
<1>1. /\ proc[p] \in Process /\ c \in 0..MaxRows /\ clock \in Clock
      /\ proc[p].after <= Len(rows) /\ \A e \in proc[p].entries : e.id <= Len(rows)
  BY ProcNow, BoundsAssumption DEF GoodProc, TInv, RowsOK, HistoryOK, Clock
<1>2. c <= Len(rows) /\ c # NoRow /\ clock <= clock
  BY DEF TInv, RowsOK, HistoryOK, NoRow
<1> QED
  BY <1>1, <1>2 DEF WithRow, GoodProc, Process, Pcs

(* the row a handler creates *)
NewRow(p) == [by |-> UserOf[p], mine |-> DeviceOf[p], theirs |-> proc[p].theirs,
              members |-> Users, after |-> proc[p].after, left |-> {}]

Created(p) == [proc[p] EXCEPT !.pc = "publish", !.id = Len(rows) + 1, !.clock = clock + 1,
                              !.after = 0]

LEMMA NewRowType ==
    ASSUME TInv, NEW p \in Pages
    PROVE  /\ NewRow(p) \in Row /\ NewRow(p).by = UserOf[p] /\ NewRow(p).mine = DeviceOf[p]
           /\ NewRow(p).theirs = proc[p].theirs /\ NewRow(p).members = Users
           /\ NewRow(p).after = proc[p].after /\ NewRow(p).left = {}
           /\ DeviceOf[p] \in Devs
<1>1. /\ proc[p].theirs \in Dev /\ proc[p].after \in 0..MaxRows /\ UserOf[p] \in Users
      /\ DeviceOf[p] \in Dev /\ DeviceOf[p] \in Devs
  <2>1. proc[p].theirs \in Dev /\ proc[p].after \in 0..MaxRows
    BY ProcNow DEF Process
  <2>2. UserOf[p] \in Users /\ DeviceOf[p] \in Devs
    BY PagesAssumption, DevsAssumption
  <2> QED
    BY <2>1, <2>2 DEF Dev
<1> QED
  BY <1>1 DEF NewRow, Row

(* an insert adds one row to the others *)
LEMMA InsertNow ==
    ASSUME TInv, NEW p \in Pages, Insert(p)
    PROVE  /\ At(p, "insert") /\ Len(rows) < MaxRows
           /\ UNCHANGED <<friends, devices, news, pages, seen, top, faults, acts>>
           /\ \/ Become(p, Idle) /\ UNCHANGED <<rows, clock>>
              \/ /\ proc[p].theirs # NoDev => Exists(proc[p].theirs)
                 /\ Exists(DeviceOf[p])
                 /\ rows' = Append(rows, NewRow(p)) /\ RowsOK' /\ Len(rows') = Len(rows) + 1
                 /\ rows'[Len(rows')] = NewRow(p)
                 /\ \A c \in 1..Len(rows) : rows'[c] = rows[c]
                 /\ clock' = clock + 1
                 /\ Become(p, Created(p))
                 /\ GoodProc(Created(p), Len(rows'), clock')
                 /\ Created(p).pc = "publish" /\ Created(p).id = Len(rows')
                 /\ Created(p).clock = clock' /\ Created(p).entries = proc[p].entries
                 /\ Created(p).via = proc[p].via
<1>1. /\ At(p, "insert") /\ Len(rows) < MaxRows
      /\ UNCHANGED <<friends, devices, news, pages, seen, top, faults, acts>>
  BY DEF Insert
<1>2. CASE Become(p, Idle) /\ UNCHANGED <<rows, clock>>
  BY <1>1, <1>2
<1>3. CASE /\ Exists(DeviceOf[p]) /\ (proc[p].theirs # NoDev => Exists(proc[p].theirs))
           /\ rows' = Append(rows, NewRow(p)) /\ clock' = clock + 1
           /\ Become(p, [proc[p] EXCEPT !.pc = "publish", !.id = Len(rows'), !.clock = clock',
                                        !.after = 0])
  <2>1. /\ rows \in Seq(Row) /\ Len(rows) \in Nat /\ NewRow(p) \in Row /\ MaxRows \in Nat
        /\ clock \in Nat /\ acts \in Nat /\ acts <= MaxActs /\ MaxActs \in Nat
        /\ clock <= Len(rows) + acts
    BY NewRowType, BoundsAssumption DEF TInv, RowsOK, HistoryOK
  <2>2. /\ RowsOK' /\ Len(rows') = Len(rows) + 1 /\ rows'[Len(rows')] = NewRow(p)
        /\ \A c \in 1..Len(rows) : rows'[c] = rows[c]
    BY <1>1, <1>3, <2>1 DEF RowsOK
  <2>3. Become(p, Created(p))
    BY <1>3, <2>2 DEF Created
  <2>4. /\ proc[p] \in Process /\ \A e \in proc[p].entries : e.id <= Len(rows)
        /\ \A e \in proc[p].entries : e.id \in Nat
    BY ProcNow DEF GoodProc, Process, Entry, Ids
  <2>5. Len(rows) + 1 \in 0..MaxRows /\ clock + 1 \in Clock /\ 0 \in 0..MaxRows
    BY <1>1, <2>1 DEF Clock
  <2>6. /\ Created(p) \in Process /\ Created(p).pc = "publish" /\ Created(p).id = Len(rows')
        /\ Created(p).clock = clock' /\ Created(p).entries = proc[p].entries
        /\ Created(p).via = proc[p].via /\ Created(p).after = 0
    BY <1>3, <2>2, <2>4, <2>5 DEF Created, Process, Pcs
  <2>7. GoodProc(Created(p), Len(rows'), clock')
    BY <1>3, <2>1, <2>2, <2>4, <2>6 DEF GoodProc, NoRow
  <2> QED
    BY <1>1, <1>3, <2>2, <2>3, <2>6, <2>7
<1> QED
  BY <1>2, <1>3 DEF Insert, NewRow

(* the entry create answers, which has no participants *)
Added(c) == [EntryOf(c) EXCEPT !.full = FALSE]

LEMMA AddedType ==
    ASSUME TInv, NEW c \in 1..Len(rows)
    PROVE  Added(c) \in Entry /\ Added(c).id = c
<1>1. EntryOf(c) \in Entry /\ EntryOf(c).id = c
  BY RowOf
<1>2. \A full \in BOOLEAN : /\ [EntryOf(c) EXCEPT !.full = full] \in Entry
                            /\ [EntryOf(c) EXCEPT !.full = full].id = c
  BY <1>1, EntryNotFull
<1> QED
  BY <1>2 DEF Added

LEMMA AnswerNow ==
    ASSUME TInv, NEW p \in Pages, Answer(p)
    PROVE  LET c == proc[p].id
           IN  /\ At(p, "answer") /\ c \in 1..Len(rows)
               /\ UNCHANGED <<friends, devices, rows, news, known, answers, clock, faults, acts>>
               /\ open' \in [Pages -> 0..Len(rows)] /\ open'[p] = c
               /\ \A o \in Pages \ {p} : /\ open'[o] = open[o] /\ list'[o] = list[o]
                                         /\ asked'[o] = asked[o]
               /\ asked' \in [Pages -> 0..MaxLoads]
               /\ asked'[p] > 0 \/ (asked' = asked /\ proc[p].via = "default")
               /\ asked'[p] >= asked[p]
               /\ list' \in [Pages -> SUBSET Entry]
               /\ \/ /\ UNCHANGED <<list, seen, top>> /\ proc[p].via = "current"
                     /\ asked'[p] > 0
                  \/ list'[p] = list[p] \union {Added(c)} /\ Shows(p, proc[p].clock)
               /\ Become(p, Idle)
<1> DEFINE c == proc[p].id
<1>1. At(p, "answer") /\ c \in 1..Len(rows) /\ Become(p, Idle)
  BY ProcNow DEF Answer
<1>2. /\ open \in [Pages -> 0..Len(rows)] /\ list \in [Pages -> SUBSET Entry]
      /\ asked \in [Pages -> 0..MaxLoads] /\ Added(c) \in Entry
      /\ c \in 0..Len(rows)
  BY <1>1, AddedType DEF TInv, PagesOK, RowsOK
<1>3. /\ open' = [open EXCEPT ![p] = c]
      /\ UNCHANGED <<friends, devices, rows, news, known, answers, clock, faults, acts>>
  BY DEF Answer
<1>4. \/ UNCHANGED <<list, seen, top>> /\ proc[p].via = "current"
      \/ /\ list' = [list EXCEPT ![p] = list[p] \union {Added(c)}] /\ Shows(p, proc[p].clock)
         /\ proc[p].via # "current"
  BY DEF Answer, Added
<1>5. (proc[p].via = "default" /\ asked' = asked) \/ (proc[p].via # "default" /\ AskLoad(p))
  BY DEF Answer
<1> HIDE DEF c
<1>6. /\ open' \in [Pages -> 0..Len(rows)] /\ open'[p] = c
      /\ \A o \in Pages \ {p} : open'[o] = open[o]
  BY <1>2, <1>3
<1>7. /\ list' \in [Pages -> SUBSET Entry]
      /\ list' = list \/ list'[p] = list[p] \union {Added(c)}
      /\ \A o \in Pages \ {p} : list'[o] = list[o]
  <2>1. list[p] \union {Added(c)} \in SUBSET Entry
    BY <1>2
  <2> QED
    BY <1>2, <1>4, <2>1
<1>8. /\ asked' \in [Pages -> 0..MaxLoads] /\ asked'[p] >= asked[p]
      /\ asked'[p] > 0 \/ (asked' = asked /\ proc[p].via = "default")
      /\ \A o \in Pages \ {p} : asked'[o] = asked[o]
  BY <1>2, <1>5, AskType, BoundsAssumption
<1>9. \/ UNCHANGED <<list, seen, top>> /\ proc[p].via = "current" /\ asked'[p] > 0
      \/ list'[p] = list[p] \union {Added(c)} /\ Shows(p, proc[p].clock)
  BY <1>2, <1>4, <1>8
<1> QED
  BY <1>1, <1>3, <1>6, <1>7, <1>8, <1>9 DEF c

(* a user leaves a conversation *)
Left(p, c) ==
    [rows[c] EXCEPT !.members = @ \ {UserOf[p]},
                    !.left = IF proc[p].id = c THEN @ ELSE @ \union {p}]

LEMMA LeaveNow ==
    ASSUME TInv, NEW p \in Pages, NEW c, Leave(p, c)
    PROVE  /\ c \in 1..Len(rows) /\ UserOf[p] \in rows[c].members
           /\ UNCHANGED <<friends, devices, news, known, asked, answers, proc, faults>>
           /\ acts' \in 0..MaxActs /\ acts' = acts + 1
           /\ RowsOK' /\ Len(rows') = Len(rows) /\ clock' = clock + 1
           /\ \A k \in 1..Len(rows) : k # c => rows'[k] = rows[k]
           /\ rows'[c].by = rows[c].by /\ rows'[c].mine = rows[c].mine
           /\ rows'[c].theirs = rows[c].theirs /\ rows'[c].after = rows[c].after
           /\ rows'[c].members = rows[c].members \ {UserOf[p]}
           /\ proc[p].id = c => rows'[c].left = rows[c].left
           /\ proc[p].id # c => rows'[c].left = rows[c].left \union {p}
           /\ Shows(p, clock')
<1>1. /\ c \in 1..Len(rows) /\ UserOf[p] \in rows[c].members
      /\ UNCHANGED <<friends, devices, news, known, asked, answers, proc, faults>>
      /\ Act /\ clock' = clock + 1 /\ Shows(p, clock')
      /\ list' = [list EXCEPT ![p] = {e \in list[p] : e.id # c}]
      /\ open' = [open EXCEPT ![p] = IF open[p] = c THEN NoRow ELSE open[p]]
  BY DEF Leave
<1> DEFINE members == rows[c].members \ {UserOf[p]}
           left == IF proc[p].id = c THEN rows[c].left ELSE rows[c].left \union {p}
           r == [rows[c] EXCEPT !.members = members, !.left = left]
<1>2. rows' = [rows EXCEPT ![c] = r]
  BY DEF Leave
<1>3. rows[c] \in Row /\ members \in SUBSET Users /\ left \in SUBSET Pages
  BY <1>1, RowOf
<1>4. /\ rows \in Seq(Row) /\ Len(rows) \in Nat /\ open \in [Pages -> 0..Len(rows)]
      /\ list \in [Pages -> SUBSET Entry] /\ NoRow \in 0..Len(rows) /\ c # NoRow
      /\ Len(rows) <= MaxRows
  BY <1>1 DEF TInv, RowsOK, PagesOK, NoRow
<1> HIDE DEF members, left
<1>5. /\ r \in Row /\ r.by = rows[c].by /\ r.mine = rows[c].mine /\ r.theirs = rows[c].theirs
      /\ r.members = members /\ r.after = rows[c].after /\ r.left = left
  BY <1>3 DEF Row
<1> HIDE DEF r
<1>6. /\ rows' \in Seq(Row) /\ Len(rows') = Len(rows) /\ rows'[c] = r
      /\ \A k \in 1..Len(rows) : k # c => rows'[k] = rows[k]
  BY <1>1, <1>2, <1>4, <1>5
<1>9. acts' \in 0..MaxActs /\ acts' = acts + 1
  BY <1>1, Counters
<1>10. RowsOK'
  BY <1>4, <1>6 DEF RowsOK
<1> QED
  BY <1>1, <1>5, <1>6, <1>9, <1>10 DEF members, left

LEMMA LeaveShown ==
    ASSUME TInv, NEW p \in Pages, NEW c, Leave(p, c)
    PROVE  /\ list' \in [Pages -> SUBSET Entry]
           /\ \A e : e \in list'[p] <=> e \in list[p] /\ e.id # c
           /\ open' \in [Pages -> 0..Len(rows)] /\ open'[p] \in {open[p], NoRow}
           /\ open'[p] # c
           /\ \A o \in Pages \ {p} : list'[o] = list[o] /\ open'[o] = open[o]
<1>1. /\ c \in 1..Len(rows)
      /\ list' = [list EXCEPT ![p] = {e \in list[p] : e.id # c}]
      /\ open' = [open EXCEPT ![p] = IF open[p] = c THEN NoRow ELSE open[p]]
  BY DEF Leave
<1>2. /\ Len(rows) \in Nat /\ open \in [Pages -> 0..Len(rows)]
      /\ list \in [Pages -> SUBSET Entry] /\ NoRow \in 0..Len(rows) /\ c # NoRow
  BY <1>1 DEF TInv, RowsOK, PagesOK, NoRow
<1>3. /\ list' \in [Pages -> SUBSET Entry] /\ list'[p] = {e \in list[p] : e.id # c}
      /\ \A o \in Pages \ {p} : list'[o] = list[o]
  BY <1>1, <1>2
<1>4. \A e : e \in list'[p] <=> e \in list[p] /\ e.id # c
  BY <1>3
<1>5. /\ open' \in [Pages -> 0..Len(rows)] /\ open'[p] \in {open[p], NoRow} /\ open'[p] # c
      /\ \A o \in Pages \ {p} : open'[o] = open[o]
  BY <1>1, <1>2
<1> QED
  BY <1>3, <1>4, <1>5

(* the conversations of a deleted device lose its id *)
LEMMA DeletedNow ==
    ASSUME TInv, NEW d \in Devs, Deleted(d)
    PROVE  /\ status[d] = "active" /\ d # NoDev
           /\ status' \in [Devs -> {"none", "active", "revoked", "deleted"}]
           /\ status'[d] = "deleted" /\ \A o \in Devs \ {d} : status'[o] = status[o]
           /\ UNCHANGED <<friends, current, default, news, pages, proc, clock, seen, top, faults>>
           /\ acts' \in 0..MaxActs /\ acts' = acts + 1
           /\ RowsOK' /\ Len(rows') = Len(rows)
           /\ \A c \in 1..Len(rows) :
                 /\ rows'[c].by = rows[c].by /\ rows'[c].members = rows[c].members
                 /\ rows'[c].after = rows[c].after /\ rows'[c].left = rows[c].left
                 /\ rows'[c].mine = IF rows[c].mine = d THEN NoDev ELSE rows[c].mine
                 /\ rows'[c].theirs = IF rows[c].theirs = d THEN NoDev ELSE rows[c].theirs
<1>1. /\ Act /\ status[d] = "active"
      /\ status' = [status EXCEPT ![d] = "deleted"]
      /\ UNCHANGED <<friends, current, default, news, pages, proc, clock, seen, top, faults>>
      /\ rows' = [c \in 1..Len(rows) |->
                    [rows[c] EXCEPT !.mine = IF rows[c].mine = d THEN NoDev ELSE rows[c].mine,
                                    !.theirs = IF rows[c].theirs = d THEN NoDev
                                               ELSE rows[c].theirs]]
  BY DEF Deleted
<1>2. /\ status \in [Devs -> {"none", "active", "revoked", "deleted"}] /\ d # NoDev
      /\ Len(rows) \in Nat /\ Len(rows) <= MaxRows /\ NoDev \in Dev
  BY DevsAssumption DEF TInv, DevicesOK, RowsOK, Dev
<1>3. /\ status' \in [Devs -> {"none", "active", "revoked", "deleted"}]
      /\ status'[d] = "deleted" /\ \A o \in Devs \ {d} : status'[o] = status[o]
  BY <1>1, <1>2
<1> DEFINE m(c) == IF rows[c].mine = d THEN NoDev ELSE rows[c].mine
           t(c) == IF rows[c].theirs = d THEN NoDev ELSE rows[c].theirs
           r(c) == [rows[c] EXCEPT !.mine = m(c), !.theirs = t(c)]
<1>4. ASSUME NEW c \in 1..Len(rows)
      PROVE  /\ r(c) \in Row /\ r(c).by = rows[c].by /\ r(c).members = rows[c].members
             /\ r(c).after = rows[c].after /\ r(c).left = rows[c].left
             /\ r(c).mine = m(c) /\ r(c).theirs = t(c)
  <2>1. rows[c] \in Row /\ m(c) \in Dev /\ t(c) \in Dev
    BY <1>2, RowOf
  <2> HIDE DEF m, t
  <2> QED
    BY <2>1 DEF Row
<1>5. rows' = [c \in 1..Len(rows) |-> r(c)]
  BY <1>1
<1> HIDE DEF m, t, r
<1>6. rows' \in Seq(Row) /\ Len(rows') = Len(rows) /\ \A c \in 1..Len(rows) : rows'[c] = r(c)
  BY <1>2, <1>4, <1>5
<1>7. acts' \in 0..MaxActs /\ acts' = acts + 1
  BY <1>1, Counters
<1>8. RowsOK'
  BY <1>2, <1>6 DEF RowsOK
<1>9. \A c \in 1..Len(rows) :
         /\ rows'[c].by = rows[c].by /\ rows'[c].members = rows[c].members
         /\ rows'[c].after = rows[c].after /\ rows'[c].left = rows[c].left
         /\ rows'[c].mine = m(c) /\ rows'[c].theirs = t(c)
  BY <1>4, <1>6
<1> QED
  BY <1>1, <1>2, <1>3, <1>6, <1>7, <1>8, <1>9 DEF m, t

--------------------------------------------------------------------------------
(* Type correctness of the other steps *)

LEMMA CreatingType ==
    ASSUME TInv, NEW p \in Pages, Creating(p)
    PROVE  TInv'
<1>1. /\ Len(rows) \in Nat /\ clock \in Nat /\ 0 \in 0..Len(rows) /\ acts \in 0..MaxActs
      /\ acts <= acts /\ GoodProc(Idle, Len(rows), clock) /\ proc[p].theirs \in Dev
      /\ GoodProc(proc[p], Len(rows), clock) /\ Len(rows) \in 0..Len(rows)
      /\ clock <= Len(rows) + acts /\ acts \in Nat
  BY ProcNow, Counters, IdleType DEF TInv, RowsOK, GoodProc, NoRow, HistoryOK
<1>2. CASE FindTarget(p)
  <2> DEFINE d == IF proc[p].theirs = NoDev THEN current[Friend(p)] ELSE proc[p].theirs
             q == [proc[p] EXCEPT !.pc = "friends", !.theirs = d]
  <2>1. d \in Dev
    BY <1>1, FriendIsOther DEF Dev, TInv, DevicesOK
  <2>2. Become(p, q) /\ At(p, "target")
    BY <1>2 DEF FindTarget
  <2> HIDE DEF d
  <2>3. GoodProc(q, Len(rows), clock)
    BY <1>1, <2>1, <2>2, GoodStep DEF At, Pcs
  <2> HIDE DEF q
  <2> QED
    BY <1>1, <1>2, <2>2, <2>3, PageMoves DEF FindTarget, pages, history
<1>3. CASE CheckFriends(p)
  <2> DEFINE q == [proc[p] EXCEPT !.pc = "find"]
  <2>1. (Become(p, q) \/ Become(p, Idle)) /\ At(p, "friends")
    BY <1>3 DEF CheckFriends, Goto, Become
  <2>2. GoodProc(q, Len(rows), clock)
    BY <1>1, <2>1, GoodStep DEF At, Pcs
  <2> HIDE DEF q
  <2> QED
    BY <1>1, <1>3, <2>1, <2>2, PageMoves DEF CheckFriends, pages, history
<1>4. CASE FindExisting(p)
  <2> DEFINE q == [proc[p] EXCEPT !.pc = "insert", !.after = Len(rows)]
  <2>1. At(p, "find") /\ GoodProc(q, Len(rows), clock)
    BY <1>1, <1>4, GoodStep, FindExistingNow DEF At, Pcs
  <2>3. \/ Become(p, q)
        \/ \E c \in 1..Len(rows) : Become(p, WithRow(p, c))
    BY <1>4, FindExistingNow DEF Candidates
  <2>4. UNCHANGED <<friends, devices, rows, news, pages, history>>
    BY <1>4 DEF FindExisting
  <2> HIDE DEF q
  <2>5. CASE Become(p, q)
    BY <1>1, <2>1, <2>4, <2>5, PageMoves DEF pages, history
  <2>6. ASSUME NEW c \in 1..Len(rows), Become(p, WithRow(p, c))
        PROVE  TInv'
    <3>1. GoodProc(WithRow(p, c), Len(rows), clock)
      BY <2>1, GoodWithRow
    <3> QED
      BY <1>1, <2>4, <2>6, <3>1, PageMoves DEF pages, history
  <2> QED
    BY <2>3, <2>5, <2>6
<1>5. CASE Insert(p)
  <2>1. CASE Become(p, Idle) /\ UNCHANGED <<rows, clock>>
    BY <1>1, <1>5, <2>1, InsertNow, PageMoves DEF pages
  <2>2. CASE ~(Become(p, Idle) /\ UNCHANGED <<rows, clock>>)
    <3>1. /\ UNCHANGED <<friends, devices, news, pages, seen, top, faults, acts>>
          /\ RowsOK' /\ Len(rows') = Len(rows) + 1 /\ clock' = clock + 1
          /\ Become(p, Created(p)) /\ GoodProc(Created(p), Len(rows'), clock')
      BY <1>5, <2>2, InsertNow
    <3>2. Grows
      BY <1>1, <3>1 DEF Grows
    <3>3. /\ DevicesOK' /\ AnswersOK' /\ ProcsOK'
      BY <3>1, <3>2, AnswersKept, ProcsStep DEF TInv, DevicesOK, devices, pages
    <3>4. PagesOK'
      BY <3>1, <3>2, PagesKept DEF pages
    <3>5. clock' <= Len(rows') + acts'
      BY <1>1, <3>1
    <3>6. HistoryOK'
      BY <3>1, <3>2, <3>5, HistoryKept, Counters
    <3> QED
      BY <3>1, <3>3, <3>4, <3>6 DEF TInv
  <2> QED
    BY <2>1, <2>2
<1>6. CASE Publish(p)
  <2> DEFINE q == [proc[p] EXCEPT !.pc = "answer"]
  <2>1. Become(p, q) /\ At(p, "publish")
    BY <1>6 DEF Publish, Goto, Become
  <2>2. GoodProc(q, Len(rows), clock)
    BY <1>1, <2>1 DEF GoodProc, Process, Pcs, At
  <2> HIDE DEF q
  <2>3. /\ UNCHANGED <<friends, devices, rows, pages, history>>
        /\ news' \subseteq Pages
    BY <1>6 DEF Publish, Receivers, TInv, PagesOK
  <2>4. Grows /\ DevicesOK' /\ AnswersOK' /\ RowsOK'
    BY <2>3, Steady, AnswersKept DEF TInv, DevicesOK, devices, Grows, pages, history
  <2>5. ProcsOK'
    BY <2>1, <2>2, <2>3, <2>4, ProcsStep DEF history
  <2>6. PagesOK'
    BY <2>3 DEF TInv, PagesOK, Below, pages
  <2>7. HistoryOK'
    BY <2>3 DEF TInv, HistoryOK, history
  <2> QED
    BY <2>4, <2>5, <2>6, <2>7 DEF TInv
<1>7. CASE Answer(p)
  <2>1. UNCHANGED <<friends, devices, rows, news, known, answers, clock, faults, acts>>
    BY <1>7, AnswerNow
  <2>2. Grows /\ DevicesOK' /\ AnswersOK' /\ RowsOK'
    BY <2>1, Steady, AnswersKept DEF TInv, DevicesOK, devices, Grows
  <2>3. ProcsOK'
    BY <1>1, <1>7, <2>1, <2>2, AnswerNow, ProcsStep
  <2>4. \A e \in list'[p] : e.id <= Len(rows)
    <3>1. list'[p] = list[p] \/ list'[p] = list[p] \union {Added(proc[p].id)}
      BY <1>7, AnswerNow
    <3>2. proc[p].id \in 1..Len(rows) /\ Added(proc[p].id).id = proc[p].id
      BY <1>7, AnswerNow, AddedType
    <3> QED
      BY <1>1, <3>1, <3>2 DEF TInv, PagesOK, Below
  <2>5. PagesOK'
    BY <1>7, <2>1, <2>4, AnswerNow DEF TInv, PagesOK, Below
  <2>6. HistoryOK'
    <3>1. CASE UNCHANGED <<seen, top>>
      BY <2>1, <3>1 DEF TInv, HistoryOK
    <3>2. CASE Shows(p, proc[p].clock)
      BY <1>1, <2>1, <2>2, <3>2, ShowsOK, ProcNow, Counters
    <3> QED
      BY <1>7, <3>1, <3>2, AnswerNow
  <2> QED
    BY <2>2, <2>3, <2>5, <2>6 DEF TInv
<1>8. CASE Fails(p)
  <2> DEFINE q == IF At(p, "profile") /\ proc[p].via = "friend" THEN ForDevice(p, NoDev)
                                                              ELSE Idle
  <2>1. GoodProc(q, Len(rows), clock)
    <3>1. At(p, "profile") => GoodProc(ForDevice(p, NoDev), Len(rows), clock)
      <4>1. "target" \in Pcs \ {"publish", "answer"} /\ NoDev \in Dev /\ 0 \in 0..Len(rows)
        BY DEF Pcs, Dev
      <4>2. At(p, "profile") => ~At(p, "publish") /\ ~At(p, "answer")
        BY DEF At
      <4> QED
        BY <4>1, <4>2, GoodStep DEF ForDevice
    <3> QED
      BY <1>1, <3>1
  <2>2. /\ Become(p, q) /\ faults' \in 0..MaxFaults
        /\ UNCHANGED <<friends, devices, rows, news, pages, clock, seen, top, acts>>
    BY <1>8, Counters DEF Fails
  <2> HIDE DEF q
  <2>3. Grows /\ DevicesOK' /\ AnswersOK' /\ RowsOK'
    BY <2>2, Steady, AnswersKept DEF TInv, DevicesOK, devices, Grows, pages
  <2>4. ProcsOK' /\ PagesOK'
    BY <1>1, <2>1, <2>2, <2>3, ProcsStep, PagesKept DEF pages
  <2>5. HistoryOK'
    BY <1>1, <2>2, <2>3, HistoryKept
  <2> QED
    BY <2>3, <2>4, <2>5 DEF TInv
<1> QED
  BY <1>2, <1>3, <1>4, <1>5, <1>6, <1>7, <1>8 DEF Creating

LEMMA LeaveType ==
    ASSUME TInv, NEW p \in Pages, NEW c, Leave(p, c)
    PROVE  TInv'
<1>1. /\ UNCHANGED <<friends, devices, news, known, asked, answers, proc, faults>>
      /\ RowsOK' /\ Len(rows') = Len(rows) /\ clock' = clock + 1 /\ acts' = acts + 1
      /\ acts' \in 0..MaxActs /\ Shows(p, clock')
  BY LeaveNow
<1>8. /\ list' \in [Pages -> SUBSET Entry] /\ \A e \in list'[p] : e \in list[p]
      /\ \A o \in Pages \ {p} : list'[o] = list[o]
      /\ open' \in [Pages -> 0..Len(rows)]
  BY LeaveShown
<1>2. Len(rows) \in Nat /\ clock \in Nat /\ acts \in Nat /\ clock <= Len(rows) + acts
  BY Counters DEF TInv, RowsOK, HistoryOK
<1>3. Grows
  BY <1>1, <1>2 DEF Grows
<1>4. DevicesOK' /\ AnswersOK' /\ ProcsOK'
  BY <1>1, <1>3, AnswersKept, ProcsKept DEF TInv, DevicesOK, devices
<1>5. PagesOK'
  BY <1>1, <1>8 DEF TInv, PagesOK, Below
<1>6. clock' <= Len(rows') + acts' /\ clock' \in 0..clock'
  BY <1>1, <1>2
<1>7. HistoryOK'
  BY <1>1, <1>3, <1>6, ShowsOK, Counters
<1> QED
  BY <1>1, <1>4, <1>5, <1>7 DEF TInv

LEMMA ElsewhereType ==
    ASSUME TInv, Elsewhere
    PROVE  TInv'
<1>1. /\ UNCHANGED <<news, pages, proc, clock, seen, top, faults>>
      /\ acts' \in 0..MaxActs /\ acts' = acts + 1
      /\ RowsOK' /\ Len(rows') = Len(rows)
  BY DeletedNow, Counters
     DEF Elsewhere, Unfriended, LogsIn, Revoked, TInv, RowsOK
<1>2. Len(rows) \in Nat /\ clock \in Nat /\ acts \in Nat /\ clock <= Len(rows) + acts
  BY Counters DEF TInv, RowsOK, HistoryOK
<1>3. Grows
  BY <1>1, <1>2 DEF Grows
<1>4. AnswersOK' /\ ProcsOK' /\ PagesOK'
  BY <1>1, <1>3, AnswersKept, ProcsKept, PagesKept DEF pages
<1>5. HistoryOK'
  BY <1>1, <1>2, <1>3, HistoryKept, Counters
<1>6. DevicesOK'
  <2>1. CASE Unfriended
    BY <2>1 DEF Unfriended, TInv, DevicesOK, devices
  <2>2. ASSUME NEW d \in Devs, LogsIn(d)
        PROVE  DevicesOK'
    <3>1. Owner[d] \in Users
      BY DevsAssumption
    <3> QED
      BY <2>2, <3>1 DEF LogsIn, TInv, DevicesOK
  <2>3. ASSUME NEW d \in Devs, Revoked(d)
        PROVE  DevicesOK'
    BY <2>3 DEF Revoked, TInv, DevicesOK
  <2>4. ASSUME NEW d \in Devs, Deleted(d)
        PROVE  DevicesOK'
    BY <2>4, DeletedNow DEF TInv, DevicesOK
  <2> QED
    BY <2>1, <2>2, <2>3, <2>4 DEF Elsewhere
<1> QED
  BY <1>1, <1>4, <1>5, <1>6 DEF TInv

--------------------------------------------------------------------------------
LEMMA TypeInit == Init => TInv
<1> SUFFICES ASSUME Init PROVE TInv
  OBVIOUS
<1>1. rows = <<>> /\ clock = 0 /\ faults = 0 /\ acts = 0 /\ news = {} /\ friends = TRUE
  BY DEF Init
<1>2. rows \in Seq(Row) /\ Len(rows) = 0
  BY <1>1
<1>3. DevicesOK
  BY DevsAssumption DEF Init, DevicesOK
<1>4. RowsOK
  BY <1>2, BoundsAssumption DEF RowsOK
<1>5. PagesOK
  BY <1>1, <1>2, BoundsAssumption DEF Init, PagesOK, Below, NoRow, Dev
<1>6. AnswersOK
  BY DEF Init, AnswersOK
<1>7. GoodProc(Idle, Len(rows), clock)
  BY <1>1, <1>2, IdleType DEF GoodProc, NoRow
<1>8. ProcsOK
  BY <1>7 DEF Init, ProcsOK, GoodProc
<1>9. HistoryOK
  BY <1>1, <1>2, BoundsAssumption DEF Init, HistoryOK
<1> QED
  BY <1>3, <1>4, <1>5, <1>6, <1>8, <1>9 DEF TInv

LEMMA TypeStep == TInv /\ [Next]_vars => TInv'
<1> SUFFICES ASSUME TInv, [Next]_vars PROVE TInv'
  OBVIOUS
<1>1. CASE UNCHANGED vars
  BY <1>1 DEF TInv, DevicesOK, RowsOK, PagesOK, AnswersOK, ProcsOK, HistoryOK, Below, vars,
              devices, pages, history
<1>2. ASSUME NEW p \in Pages, Loading(p) \/ Choosing(p) \/ Creating(p) PROVE TInv'
  BY <1>2, LoadingType, ChoosingType, CreatingType, LeaveType DEF Choosing
<1> QED
  BY <1>1, <1>2, ElsewhereType DEF Next

LEMMA TypeInvariant == Spec => []TInv
BY TypeInit, TypeStep, PTL DEF Spec

(* Every state is well typed: an id on a page, in an answer or in a handler is one of *)
(* a row there is, and what a handler publishes and answers is a row.                 *)
THEOREM TypeCorrect == Spec => []TypeOK
BY TypeInvariant, TInvTypeOK, PTL

--------------------------------------------------------------------------------
(* One conversation of a pair of devices *)

AllComplete(pair) == \A k \in 1..Len(rows) : PairOf(rows[k]) = pair => Complete(rows[k])

OneOf(pair) ==
    AllComplete(pair) =>
        \A i, j \in 1..Len(rows) :
            i < j /\ PairOf(rows[i]) = pair /\ PairOf(rows[j]) = pair => rows[j].after < i

Alive(pair) == NoDev \notin pair /\ \A d \in pair \intersect Devs : status[d] # "deleted"

(* a handler that has looked for a row of the pair, in the "n" rows there were, *)
(* and found none that is complete                                              *)
Past(pair, n) == Alive(pair) /\ AllComplete(pair) => \A i \in 1..n : PairOf(rows[i]) # pair

PastFind ==
    \A p \in Pages :
        At(p, "insert") => Past(Pair(DeviceOf[p], proc[p].theirs), proc[p].after)

OneInv == OnePerPair /\ PastFind

(* OnePerPair says so of each pair *)
LEMMA OneOfEach ==
    OnePerPair <=> \A pair : NoDev \notin pair => OneOf(pair)
<1>1. ASSUME OnePerPair, NEW pair, NoDev \notin pair PROVE OneOf(pair)
  BY <1>1 DEF OnePerPair, OneOf, AllComplete
<1>2. ASSUME \A pair : NoDev \notin pair => OneOf(pair) PROVE OnePerPair
  <2> SUFFICES ASSUME NEW i \in 1..Len(rows), NEW j \in 1..Len(rows),
                      i < j, PairOf(rows[i]) = PairOf(rows[j]), NoDev \notin PairOf(rows[i]),
                      AllComplete(PairOf(rows[i]))
               PROVE  rows[j].after < i
    BY DEF OnePerPair, AllComplete
  <2>1. OneOf(PairOf(rows[i]))
    BY <1>2
  <2> QED
    BY <2>1 DEF OneOf
<1> QED
  BY <1>1, <1>2

LEMMA OneOfEachNext ==
    ASSUME \A pair : NoDev \notin pair => OneOf(pair)'
    PROVE  OnePerPair'
<1> SUFFICES ASSUME NEW i \in 1..Len(rows'), NEW j \in 1..Len(rows'),
                    i < j, PairOf(rows'[i]) = PairOf(rows'[j]), NoDev \notin PairOf(rows'[i]),
                    \A k \in 1..Len(rows') :
                        PairOf(rows'[k]) = PairOf(rows'[i]) => Complete(rows'[k])
             PROVE  rows'[j].after < i
  BY DEF OnePerPair, PairOf, Complete, Pair
<1> DEFINE pair == PairOf(rows'[i])
<1>1. /\ NoDev \notin pair /\ PairOf(rows'[i]) = pair /\ PairOf(rows'[j]) = pair
      /\ \A k \in 1..Len(rows') : PairOf(rows'[k]) = pair => Complete(rows'[k])
  OBVIOUS
<1> HIDE DEF pair
<1> QED
  BY <1>1 DEF OneOf, AllComplete, PairOf, Complete, Pair

(* a step that changes no row, revives no device and sends no handler to insert *)
LEMMA OneKept ==
    ASSUME OneInv, rows' = rows,
           \A d \in Devs : status[d] = "deleted" => status'[d] = "deleted",
           \A p \in Pages : proc'[p] = proc[p] \/ proc'[p].pc # "insert"
    PROVE  OneInv'
<1>1. OnePerPair'
  BY DEF OneInv, OnePerPair, Complete, PairOf, Pair
<1>2. \A pair : /\ AllComplete(pair)' <=> AllComplete(pair)
                /\ Alive(pair)' => Alive(pair)
  BY DEF AllComplete, Alive, Complete, PairOf, Pair
<1>3. ASSUME NEW p \in Pages, At(p, "insert")'
      PROVE  Past(Pair(DeviceOf[p], proc[p].theirs), proc[p].after)'
  <2>1. proc'[p] = proc[p] /\ At(p, "insert")
    BY <1>3 DEF At
  <2>2. Past(Pair(DeviceOf[p], proc[p].theirs), proc[p].after)
    BY <2>1 DEF OneInv, PastFind
  <2> QED
    BY <1>2, <2>1, <2>2 DEF Past, Pair, PairOf
<1> QED
  BY <1>1, <1>3 DEF OneInv, PastFind

(* a step under which the rows of a pair stay its rows *)
LEMMA PairKept ==
    ASSUME TInv, Len(rows') = Len(rows), NEW pair, NEW n \in 0..Len(rows),
           \A c \in 1..Len(rows) : /\ PairOf(rows'[c]) = pair <=> PairOf(rows[c]) = pair
                                   /\ rows'[c].after = rows[c].after,
           AllComplete(pair)' => AllComplete(pair)
    PROVE  /\ OneOf(pair) => OneOf(pair)'
           /\ (Alive(pair)' => Alive(pair)) /\ Past(pair, n) => Past(pair, n)'
<1>1. Len(rows) \in Nat /\ \A i \in 1..n : i \in 1..Len(rows)
  BY DEF TInv, RowsOK
<1>2. OneOf(pair) => OneOf(pair)'
  BY <1>1 DEF OneOf
<1> QED
  BY <1>1, <1>2 DEF Past

(* a handler whose locals are still those it searched with *)
LEMMA PastNext ==
    ASSUME NEW q \in Pages, NEW s, NEW m, proc'[q].after = m,
           s = Pair(DeviceOf[q], proc'[q].theirs), Past(s, m)'
    PROVE  Past(Pair(DeviceOf[q], proc[q].theirs), proc[q].after)'
BY DEF Past, Pair, Alive, AllComplete, PairOf, Complete

LEMMA OneLeave ==
    ASSUME TInv, OneInv, NEW p \in Pages, NEW c, Leave(p, c)
    PROVE  OneInv'
<1>1. /\ c \in 1..Len(rows) /\ UserOf[p] \in Users
      /\ Len(rows') = Len(rows) /\ proc' = proc /\ status' = status
      /\ rows'[c].members = rows[c].members \ {UserOf[p]}
  BY LeaveNow, FriendIsOther DEF devices
<1>2. \A k \in 1..Len(rows) : /\ rows'[k].mine = rows[k].mine /\ rows'[k].theirs = rows[k].theirs
                              /\ rows'[k].after = rows[k].after
                              /\ k # c => rows'[k].members = rows[k].members
  <2>1. \A k \in 1..Len(rows) : k # c => rows'[k] = rows[k]
    BY LeaveNow
  <2>2. rows'[c].mine = rows[c].mine /\ rows'[c].theirs = rows[c].theirs
    BY LeaveNow
  <2>3. rows'[c].after = rows[c].after
    BY LeaveNow
  <2> QED
    BY <2>1, <2>2, <2>3
<1>3. ~Complete(rows'[c])
  BY <1>1 DEF Complete
<1>4. ASSUME NEW pair
      PROVE  /\ \A k \in 1..Len(rows) : /\ PairOf(rows'[k]) = pair <=> PairOf(rows[k]) = pair
                                        /\ rows'[k].after = rows[k].after
             /\ AllComplete(pair)' => AllComplete(pair)
             /\ Alive(pair)' <=> Alive(pair)
  BY <1>1, <1>2, <1>3 DEF PairOf, Pair, AllComplete, Complete, Alive
<1>5. OnePerPair'
  <2>1. \A pair : NoDev \notin pair => OneOf(pair)
    BY OneOfEach DEF OneInv
  <2>2. 0 \in 0..Len(rows)
    BY DEF TInv, RowsOK
  <2>3. \A pair : NoDev \notin pair => OneOf(pair)'
    BY <1>1, <1>4, <2>1, <2>2, PairKept
  <2> QED
    BY <2>3, OneOfEachNext
<1>6. PastFind'
  <2> SUFFICES ASSUME NEW q \in Pages, At(q, "insert")'
               PROVE  Past(Pair(DeviceOf[q], proc[q].theirs), proc[q].after)'
    BY DEF PastFind
  <2>1. proc'[q] = proc[q] /\ At(q, "insert") /\ proc[q].after \in 0..Len(rows)
    BY <1>1, ProcNow DEF At
  <2> DEFINE pair == Pair(DeviceOf[q], proc[q].theirs)
             n == proc[q].after
  <2>2. Past(pair, n)
    BY <2>1 DEF OneInv, PastFind
  <2>3. ASSUME NEW s, NEW m \in 0..Len(rows), Past(s, m) PROVE Past(s, m)'
    <3>1. Alive(s)' => Alive(s)
      BY <1>4
    <3> QED
      BY <1>1, <1>4, <2>3, <3>1, PairKept
  <2>4. \E s : \E m : proc'[q].after = m /\ s = Pair(DeviceOf[q], proc'[q].theirs) /\ Past(s, m)'
    BY <2>1, <2>2, <2>3
  <2> HIDE DEF pair, n
  <2> QED
    BY <2>4, PastNext
<1> QED
  BY <1>5, <1>6 DEF OneInv

LEMMA OneDeleted ==
    ASSUME TInv, OneInv, NEW d \in Devs, Deleted(d)
    PROVE  OneInv'
<1>1. /\ Len(rows') = Len(rows) /\ proc' = proc /\ d # NoDev /\ status[d] = "active"
      /\ status'[d] = "deleted" /\ \A o \in Devs \ {d} : status'[o] = status[o]
  BY DeletedNow
<1>2. \A k \in 1..Len(rows) :
         /\ rows'[k].mine = IF rows[k].mine = d THEN NoDev ELSE rows[k].mine
         /\ rows'[k].theirs = IF rows[k].theirs = d THEN NoDev ELSE rows[k].theirs
         /\ rows'[k].after = rows[k].after /\ rows'[k].members = rows[k].members
  BY DeletedNow
<1>3. ASSUME NEW pair, NoDev \notin pair, d \notin pair
      PROVE  /\ \A k \in 1..Len(rows) : /\ PairOf(rows'[k]) = pair <=> PairOf(rows[k]) = pair
                                        /\ rows'[k].after = rows[k].after
             /\ AllComplete(pair)' => AllComplete(pair)
  <2>1. ASSUME NEW k \in 1..Len(rows)
        PROVE  /\ PairOf(rows'[k]) = pair <=> PairOf(rows[k]) = pair
               /\ rows'[k].after = rows[k].after
               /\ Complete(rows'[k]) <=> Complete(rows[k])
    BY <1>2, <1>3 DEF PairOf, Pair, Complete
  <2> QED
    BY <1>1, <2>1 DEF AllComplete, PairOf, Pair, Complete
<1>4. ASSUME NEW pair, d \in pair, NEW k \in 1..Len(rows)
      PROVE  PairOf(rows'[k]) # pair
  BY <1>1, <1>2, <1>4 DEF PairOf, Pair
<1>5. OnePerPair'
  <2>1. \A pair : NoDev \notin pair => OneOf(pair)
    BY OneOfEach DEF OneInv
  <2>2. 0 \in 0..Len(rows)
    BY DEF TInv, RowsOK
  <2>3. ASSUME NEW pair, NoDev \notin pair
        PROVE  OneOf(pair)'
    <3>1. CASE d \in pair
      BY <1>1, <1>4, <3>1 DEF OneOf, PairOf, Pair
    <3>2. CASE d \notin pair
      BY <1>1, <1>3, <2>1, <2>2, <2>3, <3>2, PairKept
    <3> QED
      BY <3>1, <3>2
  <2> QED
    BY <2>3, OneOfEachNext
<1>6. PastFind'
  <2> SUFFICES ASSUME NEW q \in Pages, At(q, "insert")'
               PROVE  Past(Pair(DeviceOf[q], proc[q].theirs), proc[q].after)'
    BY DEF PastFind
  <2>1. proc'[q] = proc[q] /\ At(q, "insert") /\ proc[q].after \in 0..Len(rows)
    BY <1>1, ProcNow DEF At
  <2> DEFINE pair == Pair(DeviceOf[q], proc[q].theirs)
             n == proc[q].after
  <2>2. Past(pair, n)
    BY <2>1 DEF OneInv, PastFind
  <2>3. ASSUME NEW s, NEW m \in 0..Len(rows), Past(s, m) PROVE Past(s, m)'
    <3>1. CASE Alive(s)'
      <4>1. NoDev \notin s /\ d \notin s /\ Alive(s)
        BY <1>1, <3>1 DEF Alive
      <4> QED
        BY <1>1, <1>3, <2>3, <4>1, PairKept
    <3> QED
      BY <3>1 DEF Past
  <2>4. \E s : \E m : proc'[q].after = m /\ s = Pair(DeviceOf[q], proc'[q].theirs) /\ Past(s, m)'
    BY <2>1, <2>2, <2>3
  <2> HIDE DEF pair, n
  <2> QED
    BY <2>4, PastNext
<1> QED
  BY <1>5, <1>6 DEF OneInv

(* a row is created for a pair that had none when the handler looked *)
LEMMA OneInsert ==
    ASSUME TInv, OneInv, NEW p \in Pages, Insert(p)
    PROVE  OneInv'
<1>1. CASE Become(p, Idle) /\ UNCHANGED <<rows, clock>>
  <2>1. status' = status /\ \A o \in Pages : proc'[o] = proc[o] \/ proc'[o].pc # "insert"
    BY <1>1, InsertNow, IdleType DEF Become, devices, TInv, ProcsOK
  <2> QED
    BY <1>1, <2>1, OneKept
<1>2. CASE ~(Become(p, Idle) /\ UNCHANGED <<rows, clock>>)
  <2> DEFINE r == NewRow(p)
             s == Pair(DeviceOf[p], proc[p].theirs)
  <2>1. /\ At(p, "insert") /\ status' = status
        /\ proc[p].theirs # NoDev => Exists(proc[p].theirs)
        /\ Exists(DeviceOf[p])
        /\ Len(rows') = Len(rows) + 1 /\ rows'[Len(rows')] = r
        /\ \A c \in 1..Len(rows) : rows'[c] = rows[c]
        /\ Len(rows) \in Nat
    BY <1>2, InsertNow DEF devices, TInv, RowsOK
  <2>2. Become(p, Created(p)) /\ Created(p).pc = "publish"
    BY <1>2, InsertNow
  <2>3. PairOf(r) = s /\ r.after = proc[p].after /\ r.members = Users
    BY NewRowType DEF PairOf
  <2>4. Past(s, proc[p].after) /\ proc[p].after \in 0..Len(rows)
    BY <2>1, ProcNow DEF OneInv, PastFind
  <2>5. NoDev \notin s => Alive(s)
    BY <2>1 DEF Alive, Exists, Pair
  <2> HIDE DEF r, s
  <2>6. ASSUME NEW pair, AllComplete(pair)'
        PROVE  AllComplete(pair)
    <3>1. \A c \in 1..Len(rows) : c \in 1..Len(rows')
      BY <2>1
    <3> QED
      BY <2>1, <2>6, <3>1 DEF AllComplete, PairOf, Pair, Complete
  <2>7. ASSUME NEW pair, NoDev \notin pair
        PROVE  OneOf(pair)'
    <3> SUFFICES ASSUME AllComplete(pair)', NEW i \in 1..Len(rows'), NEW j \in 1..Len(rows'),
                        i < j, PairOf(rows'[i]) = pair, PairOf(rows'[j]) = pair
                 PROVE  rows'[j].after < i
      BY DEF OneOf, PairOf, Pair
    <3>1. AllComplete(pair) /\ OneOf(pair)
      BY <2>6, <2>7, OneOfEach DEF OneInv
    <3>2. i \in 1..Len(rows) /\ rows'[i] = rows[i]
      BY <2>1
    <3>3. CASE j \in 1..Len(rows)
      BY <2>1, <3>1, <3>2, <3>3 DEF OneOf
    <3>4. CASE j = Len(rows')
      <4>1. pair = s /\ rows'[j].after = proc[p].after
        BY <2>1, <2>3, <3>4
      <4>2. i \notin 1..proc[p].after
        BY <2>4, <2>5, <2>7, <3>1, <3>2, <4>1 DEF Past
      <4> QED
        BY <2>1, <2>4, <4>1, <4>2
    <3> QED
      BY <2>1, <3>3, <3>4
  <2>8. PastFind'
    <3> SUFFICES ASSUME NEW q \in Pages, At(q, "insert")'
                 PROVE  Past(Pair(DeviceOf[q], proc[q].theirs), proc[q].after)'
      BY DEF PastFind
    <3>1. proc'[q] = proc[q] /\ At(q, "insert") /\ proc[q].after \in 0..Len(rows)
      BY <2>2, ProcNow DEF At, Become, TInv, ProcsOK
    <3> DEFINE pair == Pair(DeviceOf[q], proc[q].theirs)
               n == proc[q].after
    <3>2. Past(pair, n)
      BY <3>1 DEF OneInv, PastFind
    <3>3. ASSUME NEW t, NEW m \in 0..Len(rows), Past(t, m) PROVE Past(t, m)'
      <4>1. Alive(t)' <=> Alive(t)
        BY <2>1 DEF Alive
      <4>2. \A i \in 1..m : rows'[i] = rows[i]
        BY <2>1
      <4> QED
        BY <2>6, <3>3, <4>1, <4>2 DEF Past, PairOf, Pair
    <3>4. \E t : \E m : proc'[q].after = m /\ t = Pair(DeviceOf[q], proc'[q].theirs)
                        /\ Past(t, m)'
      BY <3>1, <3>2, <3>3
    <3> HIDE DEF pair, n
    <3> QED
      BY <3>4, PastNext
  <2> QED
    BY <2>7, <2>8, OneOfEachNext DEF OneInv
<1> QED
  BY <1>1, <1>2

(* the handler has found no row of the pair that is complete *)
LEMMA OneFind ==
    ASSUME TInv, OneInv, NEW p \in Pages, FindExisting(p)
    PROVE  OneInv'
<1>1. At(p, "find") /\ rows' = rows /\ status' = status
  BY FindExistingNow DEF devices
<1>2. CASE \E c \in Candidates(p) : Become(p, WithRow(p, c))
  <2>1. PICK c \in Candidates(p) : Become(p, WithRow(p, c))
    BY <1>2
  <2>2. WithRow(p, c).pc = "publish"
    BY <1>1, <2>1, GoodWithRow DEF Candidates
  <2>3. \A o \in Pages : proc'[o] = proc[o] \/ proc'[o].pc # "insert"
    BY <2>1, <2>2 DEF Become, TInv, ProcsOK
  <2> QED
    BY <1>1, <2>3, OneKept
<1>3. CASE /\ Become(p, [proc[p] EXCEPT !.pc = "insert", !.after = Len(rows)])
           /\ Candidates(p) = {} \/ \E c \in Candidates(p) : ~Complete(rows[c])
  <2> DEFINE pair == Pair(DeviceOf[p], proc[p].theirs)
  <2>1. /\ proc'[p].theirs = proc[p].theirs /\ proc'[p].after = Len(rows)
        /\ \A q \in Pages \ {p} : proc'[q] = proc[q]
    <3>1. proc[p] \in Process /\ proc \in [Pages -> Process]
      BY DEF TInv, ProcsOK
    <3> QED
      BY <1>3, <3>1 DEF Become, Process
  <2>2. Past(pair, Len(rows))
    <3> SUFFICES ASSUME Alive(pair), AllComplete(pair), NEW i \in 1..Len(rows),
                        PairOf(rows[i]) = pair
                 PROVE  FALSE
      BY DEF Past
    <3>1. proc[p].theirs # NoDev
      BY DEF Alive, Pair
    <3>2. \A c \in Candidates(p) : Complete(rows[c])
      BY DEF Candidates, SameDevices, AllComplete
    <3>3. Complete(rows[i]) /\ Users # {}
      BY FriendIsOther DEF AllComplete
    <3>4. i \in Candidates(p)
      BY <3>1, <3>3 DEF Candidates, SameDevices, Complete
    <3> QED
      BY <1>3, <3>2, <3>4
  <2>3. ASSUME NEW s, NEW m, Past(s, m) PROVE Past(s, m)'
    BY <1>1, <2>3 DEF Past, Alive, AllComplete, PairOf, Pair, Complete
  <2>4. ASSUME NEW q \in Pages, At(q, "insert")'
        PROVE  Past(Pair(DeviceOf[q], proc[q].theirs), proc[q].after)'
    <3> DEFINE t == Pair(DeviceOf[q], proc[q].theirs)
               n == proc[q].after
               m == IF q = p THEN Len(rows) ELSE n
    <3>1. /\ proc'[q].theirs = proc[q].theirs /\ proc'[q].after = m
          /\ q # p => At(q, "insert")
      BY <2>1, <2>4 DEF At
    <3>2. Past(t, m)
      BY <2>2, <3>1 DEF OneInv, PastFind
    <3>3. \E s : \E k : proc'[q].after = k /\ s = Pair(DeviceOf[q], proc'[q].theirs)
                        /\ Past(s, k)'
      BY <2>3, <3>1, <3>2
    <3> HIDE DEF t, n, m
    <3> QED
      BY <3>3, PastNext
  <2>5. OnePerPair'
    BY <1>1 DEF OneInv, OnePerPair, PairOf, Pair, Complete
  <2> QED
    BY <2>4, <2>5 DEF OneInv, PastFind
<1> QED
  BY <1>2, <1>3, FindExistingNow

LEMMA OneStep == TInv /\ OneInv /\ [Next]_vars => OneInv'
<1> SUFFICES ASSUME TInv, OneInv, [Next]_vars PROVE OneInv'
  OBVIOUS
<1>1. proc \in [Pages -> Process]
  BY DEF TInv, ProcsOK
<1>2. \A p \in Pages : \A q : Become(p, q) /\ q.pc # "insert"
          => \A o \in Pages : proc'[o] = proc[o] \/ proc'[o].pc # "insert"
  BY <1>1 DEF Become
<1>3. CASE UNCHANGED vars
  BY <1>3, OneKept DEF vars, devices
<1>4. ASSUME NEW p \in Pages, Loading(p) PROVE OneInv'
  <2>1. rows' = rows /\ status' = status /\ proc' = proc
    BY <1>4 DEF Loading, LoadRead, LoadAnswer, LoadFails, Notified, LoadFriendDevice, devices
  <2> QED
    BY <2>1, OneKept
<1>5. ASSUME NEW p \in Pages, Choosing(p) PROVE OneInv'
  <2>1. CASE \E c \in Ids : Leave(p, c)
    BY <2>1, OneLeave
  <2>2. CASE ~(\E c \in Ids : Leave(p, c))
    <3>1. rows' = rows /\ status' = status
      BY <1>5, <2>2 DEF Choosing, Choose, Profile, ChooseDefault, SelectConversation, devices
    <3>2. \/ proc' = proc
          \/ \E q : Become(p, q) /\ q.pc # "insert"
      <4>1. proc[p] \in Process
        BY <1>1
      <4>2. CASE \E via \in {"friend", "current"} : Choose(p, via)
        <5>1. PICK via \in {"friend", "current"} : Choose(p, via)
          BY <4>2
        <5>2. [Idle EXCEPT !.pc = "profile", !.via = via, !.entries = list[p]].pc = "profile"
          BY DEF Idle
        <5> QED
          BY <5>1, <5>2 DEF Choose
      <4>3. CASE Profile(p)
        <5>1. \A d : [proc[p] EXCEPT !.pc = "target", !.theirs = d, !.entries = {}].pc = "target"
          BY <4>1 DEF Process
        <5>2. \E d : \/ Become(p, Idle)
                     \/ Become(p, [proc[p] EXCEPT !.pc = "target", !.theirs = d, !.entries = {}])
          BY <4>3 DEF Profile, ForDevice
        <5> QED
          BY <5>1, <5>2, IdleType
      <4>4. CASE ChooseDefault(p)
        <5>1. \A d : [Idle EXCEPT !.pc = "target", !.via = "default", !.theirs = d].pc = "target"
          BY DEF Idle
        <5>2. \/ proc' = proc
              \/ \E d : Become(p, [Idle EXCEPT !.pc = "target", !.via = "default", !.theirs = d])
          BY <4>4 DEF ChooseDefault
        <5> QED
          BY <5>1, <5>2
      <4>5. CASE \E e \in list[p] : SelectConversation(p, e)
        BY <4>5 DEF SelectConversation
      <4> QED
        BY <1>5, <2>2, <4>2, <4>3, <4>4, <4>5 DEF Choosing
    <3> QED
      BY <1>2, <3>1, <3>2, OneKept
  <2> QED
    BY <2>1, <2>2
<1>6. ASSUME NEW p \in Pages, Creating(p) PROVE OneInv'
  <2>1. CASE FindExisting(p)
    BY <2>1, OneFind
  <2>2. CASE Insert(p)
    BY <2>2, OneInsert
  <2>3. CASE FindTarget(p) \/ CheckFriends(p) \/ Publish(p) \/ Answer(p) \/ Fails(p)
    <3>1. rows' = rows /\ status' = status
      BY <2>3 DEF FindTarget, CheckFriends, Publish, Answer, Fails, devices
    <3>2. \E q : Become(p, q) /\ q.pc # "insert"
      <4>1. proc[p] \in Process
        BY <1>1
      <4>2. \A d : [proc[p] EXCEPT !.pc = "friends", !.theirs = d].pc = "friends"
        BY <4>1 DEF Process
      <4>3. /\ [proc[p] EXCEPT !.pc = "find"].pc = "find"
            /\ [proc[p] EXCEPT !.pc = "answer"].pc = "answer"
            /\ ForDevice(p, NoDev).pc = "target"
        BY <4>1 DEF Process, ForDevice
      <4>4. \/ \E d : Become(p, [proc[p] EXCEPT !.pc = "friends", !.theirs = d])
            \/ Become(p, [proc[p] EXCEPT !.pc = "find"])
            \/ Become(p, [proc[p] EXCEPT !.pc = "answer"]) \/ Become(p, Idle)
            \/ Become(p, ForDevice(p, NoDev))
        BY <2>3 DEF FindTarget, CheckFriends, Publish, Answer, Fails, Goto, Become
      <4> QED
        BY <4>2, <4>3, <4>4, IdleType
    <3> QED
      BY <1>2, <3>1, <3>2, OneKept
  <2> QED
    BY <1>6, <2>1, <2>2, <2>3 DEF Creating
<1>7. CASE Elsewhere
  <2>1. ASSUME NEW d \in Devs, Deleted(d) PROVE OneInv'
    BY <2>1, OneDeleted
  <2>2. CASE Unfriended \/ \E d \in Devs : LogsIn(d) \/ Revoked(d)
    <3>1. rows' = rows /\ proc' = proc
      BY <2>2 DEF Unfriended, LogsIn, Revoked
    <3>2. \A d \in Devs : status[d] = "deleted" => status'[d] = "deleted"
      BY <2>2 DEF Unfriended, LogsIn, Revoked, devices, TInv, DevicesOK
    <3> QED
      BY <3>1, <3>2, OneKept
  <2> QED
    BY <1>7, <2>1, <2>2 DEF Elsewhere
<1> QED
  BY <1>3, <1>4, <1>5, <1>6, <1>7 DEF Next

LEMMA OneInit == Init => OneInv
<1> SUFFICES ASSUME Init PROVE OneInv
  OBVIOUS
<1>1. rows = <<>> /\ \A p \in Pages : proc[p] = Idle
  BY DEF Init
<1>2. \A p \in Pages : ~At(p, "insert")
  BY <1>1, IdleType DEF At
<1>3. 1..Len(rows) = {}
  BY <1>1
<1> QED
  BY <1>2, <1>3 DEF OneInv, OnePerPair, PastFind

(* "Checks for existing conversation with same device pair": of two conversations of  *)
(* one pair of devices that nobody has left, the second was looked for before the     *)
(* first was there, however the handlers of the pages, a device's deletion and the    *)
(* users who leave come between the search and the insert.                            *)
THEOREM PairCorrect == Spec => []OnePerPair
<1>1. OneInv => OnePerPair
  BY DEF OneInv
<1> QED
  BY <1>1, TypeInvariant, OneInit, OneStep, PTL DEF Spec

--------------------------------------------------------------------------------
(* The lists of the pages *)

Has(entries, c) == \E e \in entries : e.id = c

Member(p, c) == UserOf[p] \in rows[c].members

Published(p, c) ==
    \E q \in Pages : UserOf[q] # UserOf[p] /\ At(q, "publish") /\ proc[q].id = c

(* something is under way that brings the conversation to the page *)
Pending(p, c) ==
    \/ asked[p] > 0 \/ p \in news
    \/ \E x \in answers[p] : Has(x.entries, c)
    \/ Published(p, c)

(* the conversations a page is to list, or has listed *)
Due(p, c) ==
    \/ rows[c].by # UserOf[p] \/ open[p] = c
    \/ Has(list[p], c) \/ Has(proc[p].entries, c)

(* an answer that lacks a conversation is older than those which have it *)
Older(p, c, x) ==
    /\ x.n < clock
    /\ \A y \in answers[p] : Has(y.entries, c) => x.n < y.n
    /\ proc[p].id = c => x.n < proc[p].clock

Ordered(p, c) ==
    Member(p, c) => \A x \in answers[p] : Has(x.entries, c) \/ Older(p, c, x)

(* a conversation that is due is listed or on its way, or an older list is shown; *)
(* and an answer that lacks it is older than the newest list or not the last      *)
Awaited(p, c) ==
    faults = 0 /\ Member(p, c) /\ Due(p, c) =>
        /\ Has(list[p], c) \/ Pending(p, c) \/ seen[p] < top[p]
        /\ \A x \in answers[p] : Has(x.entries, c) \/ x.n < top[p] \/ Pending(p, c)

(* a conversation deleted on the page is in older answers and lists only *)
Gone(p, c) ==
    p \in rows[c].left =>
        /\ ~Member(p, c) /\ proc[p].id # c
        /\ \A x \in answers[p] : Has(x.entries, c) => x.n < top[p]
        /\ Has(list[p], c) => seen[p] < top[p]

Good(p, c) == Ordered(p, c) /\ Awaited(p, c) /\ Gone(p, c)

ListInv == \A p \in Pages : \A c \in 1..Len(rows) : Good(p, c)

LEMMA Times ==
    ASSUME TInv, NEW p \in Pages
    PROVE  /\ clock \in Nat /\ seen[p] \in 0..clock /\ top[p] \in 0..clock
           /\ seen[p] \in Nat /\ top[p] \in Nat /\ proc[p].clock \in Nat
           /\ asked[p] \in Nat /\ proc[p].id \in Nat /\ Len(rows) \in Nat
           /\ \A x \in answers[p] : x.n \in Nat /\ x.n <= clock /\ Below(x.entries)
<1>1. /\ clock \in Nat /\ seen[p] \in 0..clock /\ top[p] \in 0..clock
      /\ seen[p] \in Nat /\ top[p] \in Nat
  BY DEF TInv, HistoryOK
<1>2. asked[p] \in Nat /\ Len(rows) \in Nat
  BY DEF TInv, PagesOK, RowsOK
<1>3. proc[p].clock \in Nat /\ proc[p].id \in Nat
  BY <1>1, <1>2, ProcNow
<1>4. \A x \in answers[p] : x.n \in Nat /\ x.n <= clock /\ Below(x.entries)
  BY BoundsAssumption DEF TInv, AnswersOK, Clock
<1> QED
  BY <1>1, <1>2, <1>3, <1>4

(* a conversation a step does not concern *)
LEMMA GoodKept ==
    ASSUME TInv, NEW p \in Pages, NEW c \in 1..Len(rows), Good(p, c),
           clock' \in Nat, clock <= clock',
           rows'[c].by = rows[c].by, Member(p, c)' => Member(p, c),
           p \in rows'[c].left => p \in rows[c].left,
           answers'[p] = answers[p],
           Has(list'[p], c) <=> Has(list[p], c),
           open'[p] = c => Due(p, c), Has(proc'[p].entries, c) => Due(p, c),
           proc'[p].id = c => \/ proc[p].id = c /\ proc'[p].clock = proc[p].clock
                              \/ Member(p, c) /\ proc'[p].clock = clock,
           top'[p] \in Nat, top[p] <= top'[p], seen[p] < top[p] => seen'[p] < top'[p],
           faults' = 0 => faults = 0 /\ (Pending(p, c) => Pending(p, c)')
    PROVE  Good(p, c)'
<1>1. /\ clock \in Nat /\ top[p] \in Nat
      /\ \A x \in answers[p] : x.n \in Nat /\ x.n <= clock
  BY Times
<1>2. Ordered(p, c)'
  BY <1>1 DEF Good, Ordered, Older, Has
<1>3. Awaited(p, c)'
  <2>1. Due(p, c)' => Due(p, c)
    BY DEF Due, Has
  <2> QED
    BY <1>1, <2>1 DEF Good, Awaited, Has
<1>4. Gone(p, c)'
  BY <1>1 DEF Good, Gone, Has
<1> QED
  BY <1>2, <1>3, <1>4 DEF Good

(* what brings a conversation to a page stays under way *)
LEMMA PendingKept ==
    ASSUME NEW p \in Pages, NEW c, Pending(p, c),
           answers'[p] = answers[p], asked[p] > 0 => asked'[p] > 0,
           p \in news => p \in news',
           \A q \in Pages : UserOf[q] # UserOf[p] /\ At(q, "publish") /\ proc[q].id = c
               => proc'[q] = proc[q] \/ p \in news'
    PROVE  Pending(p, c)'
BY DEF Pending, Published, At, Has

LEMMA ListLoadRead ==
    ASSUME TInv, ListInv, NEW p \in Pages, LoadRead(p)
    PROVE  ListInv'
<1>1. /\ UNCHANGED <<rows, news, list, open, proc, clock, seen, top, faults>>
      /\ answers'[p] = answers[p] \union {Read(p)}
      /\ \A o \in Pages \ {p} : answers'[o] = answers[o] /\ asked'[o] = asked[o]
  BY LoadReadNow DEF LoadRead, history
<1> SUFFICES ASSUME NEW o \in Pages, NEW c \in 1..Len(rows) PROVE Good(o, c)'
  BY <1>1 DEF ListInv
<1>2. Good(o, c)
  BY DEF ListInv
<1>3. CASE o # p
  <2>1. Pending(o, c) => Pending(o, c)'
    BY <1>1, <1>3, PendingKept
  <2>2. top[o] \in Nat /\ clock \in Nat
    BY Times
  <2> QED
    BY <1>1, <1>2, <1>3, <2>1, <2>2, GoodKept DEF Due, Member
<1>4. CASE o = p
  <2>1. /\ Read(p).n = clock
        /\ \A k \in RowsOf(p) : \E e \in Read(p).entries : e.id = k
        /\ \A e \in Read(p).entries : e.id \in RowsOf(p)
    BY ReadType
  <2>2. Has(Read(p).entries, c) <=> Member(p, c)
    BY <2>1 DEF Has, Member, RowsOf
  <2>3. /\ clock \in Nat /\ top[p] \in Nat
        /\ \A x \in answers[p] : x.n \in Nat /\ x.n <= clock
    BY Times
  <2>4. \A x \in answers'[p] : x \in answers[p] \/ x = Read(p)
    BY <1>1
  <2>5. Ordered(p, c)'
    <3> SUFFICES ASSUME Member(p, c), NEW x \in answers'[p], ~Has(x.entries, c)
                 PROVE  Older(p, c, x)'
      BY <1>1 DEF Ordered, Member, Has
    <3>1. x \in answers[p]
      BY <2>2, <2>4
    <3>2. Older(p, c, x)
      BY <1>2, <1>4, <3>1 DEF Good, Ordered
    <3> QED
      BY <1>1, <2>1, <2>4, <3>2 DEF Older
  <2>6. Awaited(p, c)'
    <3>1. Member(p, c) => Pending(p, c)'
      BY <1>1, <2>2 DEF Pending, Has
    <3>2. Member(p, c)' <=> Member(p, c)
      BY <1>1 DEF Member
    <3> QED
      BY <3>1, <3>2 DEF Awaited
  <2>7. Gone(p, c)'
    <3>1. Gone(p, c)
      BY <1>2, <1>4 DEF Good
    <3> QED
      BY <1>1, <2>2, <2>4, <3>1 DEF Gone, Member, Has
  <2> QED
    BY <1>4, <2>5, <2>6, <2>7 DEF Good
<1> QED
  BY <1>3, <1>4

LEMMA ListLoadAnswer ==
    ASSUME TInv, ListInv, NEW p \in Pages, NEW x \in answers[p], LoadAnswer(p, x)
    PROVE  ListInv'
<1>1. UNCHANGED <<rows, news, open, asked, proc, clock, faults>>
  BY DEF LoadAnswer
<1>2. /\ answers'[p] = answers[p] \ {x} /\ list'[p] = x.entries
      /\ seen'[p] = x.n /\ top[p] <= top'[p] /\ x.n <= top'[p]
      /\ top[p] \in Nat /\ x.n \in Nat
      /\ top'[p] \in Nat
  BY LoadAnswerNow
<1>3. \A o \in Pages \ {p} : /\ answers'[o] = answers[o] /\ list'[o] = list[o]
                             /\ seen'[o] = seen[o] /\ top'[o] = top[o]
  BY LoadAnswerNow
<1> SUFFICES ASSUME NEW o \in Pages, NEW c \in 1..Len(rows) PROVE Good(o, c)'
  BY <1>1 DEF ListInv
<1>4. Good(o, c)
  BY DEF ListInv
<1>5. CASE o # p
  <2>1. Pending(o, c) => Pending(o, c)'
    BY <1>1, <1>3, <1>5, PendingKept
  <2>2. top[o] \in Nat /\ clock \in Nat
    BY Times
  <2> QED
    BY <1>1, <1>3, <1>4, <1>5, <2>1, <2>2, GoodKept DEF Due, Member
<1>6. CASE o = p
  <2>1. /\ clock \in Nat /\ \A y \in answers[p] : y.n \in Nat /\ y.n <= clock
    BY Times
  <2>2. \A y \in answers'[p] : y \in answers[p]
    BY <1>2
  <2>3. Member(p, c)' <=> Member(p, c)
    BY <1>1 DEF Member
  <2>4. Ordered(p, c)'
    BY <1>1, <1>4, <1>6, <2>2, <2>3 DEF Good, Ordered, Older, Has
  <2>5. ASSUME faults = 0, Member(p, c), Due(p, c)'
        PROVE  /\ Has(list'[p], c) \/ Pending(p, c)' \/ seen'[p] < top'[p]
               /\ \A y \in answers'[p] : Has(y.entries, c) \/ y.n < top'[p] \/ Pending(p, c)'
    <3>1. CASE Has(x.entries, c)
      <4>1. ASSUME NEW y \in answers'[p], ~Has(y.entries, c)
            PROVE  y.n < top'[p]
        <5>1. y.n < x.n /\ y.n \in Nat
          BY <1>4, <1>6, <2>1, <2>2, <2>5, <3>1, <4>1 DEF Good, Ordered, Older
        <5> QED
          BY <1>2, <5>1
      <4> QED
        BY <1>2, <3>1, <4>1
    <3>2. CASE ~Has(x.entries, c)
      <4>1. Due(p, c)
        BY <1>1, <1>2, <2>5, <3>2 DEF Due, Has
      <4>2. \A y \in answers[p] : Has(y.entries, c) \/ y.n < top[p] \/ Pending(p, c)
        BY <1>4, <1>6, <2>5, <4>1 DEF Good, Awaited
      <4>3. Pending(p, c) => Pending(p, c)'
        BY <1>1, <1>2, <3>2 DEF Pending, Published, At, Has
      <4>4. CASE Pending(p, c)
        BY <4>3, <4>4
      <4>5. CASE ~Pending(p, c)
        <5>1. x.n < top[p]
          BY <3>2, <4>2, <4>5
        <5>2. \A y \in answers'[p] : Has(y.entries, c) \/ y.n < top[p]
          BY <2>2, <4>2, <4>5
        <5> QED
          BY <1>2, <2>1, <2>2, <5>1, <5>2
      <4> QED
        BY <4>4, <4>5
    <3> QED
      BY <3>1, <3>2
  <2>6. Awaited(p, c)'
    BY <1>1, <2>3, <2>5 DEF Awaited, Has
  <2>7. Gone(p, c)'
    <3>1. Gone(p, c)
      BY <1>4, <1>6 DEF Good
    <3> QED
      BY <1>1, <1>2, <2>1, <2>2, <3>1 DEF Gone, Member, Has
  <2> QED
    BY <1>6, <2>4, <2>6, <2>7 DEF Good
<1> QED
  BY <1>5, <1>6

(* steps that leave the lists and the functions of the pages alone *)
LEMMA ListSame ==
    ASSUME TInv, ListInv, UNCHANGED <<list, open, answers, proc, clock, seen, top>>,
           Len(rows') = Len(rows),
           \A c \in 1..Len(rows) : /\ rows'[c].by = rows[c].by
                                   /\ rows'[c].members = rows[c].members
                                   /\ rows'[c].left = rows[c].left,
           faults' = 0 => /\ faults = 0
                          /\ \A o \in Pages : /\ asked[o] > 0 => asked'[o] > 0
                                              /\ o \in news => o \in news' \/ asked'[o] > 0
    PROVE  ListInv'
<1> SUFFICES ASSUME NEW o \in Pages, NEW c \in 1..Len(rows) PROVE Good(o, c)'
  BY DEF ListInv
<1>1. Good(o, c)
  BY DEF ListInv
<1>2. faults' = 0 => faults = 0 /\ (Pending(o, c) => Pending(o, c)')
  BY DEF Pending, Published, At, Has
<1>3. top[o] \in Nat /\ clock \in Nat
  BY Times
<1> QED
  BY <1>1, <1>2, <1>3, GoodKept DEF Due, Member

(* steps of a page's function that leave its list alone: what it opens and the list   *)
(* it keeps are of conversations that were due, what it has found is one of its user, *)
(* and when it has published, the other user's pages have the news                    *)
LEMMA ListMoves ==
    ASSUME TInv, ListInv, NEW p \in Pages, NEW q, Become(p, q),
           UNCHANGED <<rows, list, asked, answers, clock, seen, top>>,
           news \subseteq news',
           faults' = 0 => /\ faults = 0
                          /\ At(p, "publish") => q = proc[p] \/ Receivers(p) \subseteq news',
           \A o \in Pages \ {p} : open'[o] = open[o],
           \A c \in 1..Len(rows) :
              /\ open'[p] = c => Due(p, c)
              /\ Has(q.entries, c) => Has(list[p], c) \/ Has(proc[p].entries, c)
              /\ q.id = c => \/ proc[p].id = c /\ q.clock = proc[p].clock
                             \/ Member(p, c) /\ q.clock = clock
    PROVE  ListInv'
<1> SUFFICES ASSUME NEW o \in Pages, NEW c \in 1..Len(rows) PROVE Good(o, c)'
  BY DEF ListInv
<1>1. Good(o, c)
  BY DEF ListInv
<1>2. /\ proc'[p] = q /\ \A k \in Pages \ {p} : proc'[k] = proc[k]
  BY DEF Become, TInv, ProcsOK
<1>3. faults' = 0 => faults = 0 /\ (Pending(o, c) => Pending(o, c)')
  <2>1. \A k \in Pages : /\ k \in Receivers(p) <=> UserOf[k] # UserOf[p]
    BY DEF Receivers
  <2>2. SUFFICES ASSUME faults' = 0, Pending(o, c) PROVE Pending(o, c)'
    OBVIOUS
  <2>3. \A k \in Pages : UserOf[k] # UserOf[o] /\ At(k, "publish") /\ proc[k].id = c
            => proc'[k] = proc[k] \/ o \in news'
    BY <1>2, <2>1, <2>2
  <2> QED
    BY <2>2, <2>3, PendingKept
<1>4. top[o] \in Nat /\ clock \in Nat
  BY Times
<1>5. open'[o] = c => Due(o, c)
  BY DEF Due
<1>6. Has(proc'[o].entries, c) => Due(o, c)
  BY <1>2 DEF Due
<1>7. proc'[o].id = c => \/ proc[o].id = c /\ proc'[o].clock = proc[o].clock
                         \/ Member(o, c) /\ proc'[o].clock = clock
  BY <1>2
<1> QED
  BY <1>1, <1>3, <1>4, <1>5, <1>6, <1>7, GoodKept DEF Member

LEMMA ListLoading ==
    ASSUME TInv, ListInv, NEW p \in Pages, Loading(p)
    PROVE  ListInv'
<1>1. CASE LoadFails(p)
  <2>1. faults' # 0
    BY <1>1 DEF LoadFails, Fault, TInv, HistoryOK
  <2> QED
    BY <1>1, <2>1, ListSame DEF LoadFails
<1>2. CASE Notified(p)
  <2>1. asked'[p] = asked[p] + 1 /\ \A o \in Pages \ {p} : asked'[o] = asked[o]
    BY <1>2, AskType DEF Notified
  <2>2. \A o \in Pages : /\ asked[o] > 0 => asked'[o] > 0
                         /\ o \in news => o \in news' \/ asked'[o] > 0
    BY <1>2, <2>1, Times DEF Notified
  <2> QED
    BY <1>2, <2>2, ListSame DEF Notified, history
<1>3. ASSUME NEW online \in BOOLEAN, LoadFriendDevice(p, online) PROVE ListInv'
  BY <1>3, ListSame DEF LoadFriendDevice, history
<1> QED
  BY <1>1, <1>2, <1>3, ListLoadRead, ListLoadAnswer DEF Loading

LEMMA ListChoosing ==
    ASSUME TInv, ListInv, NEW p \in Pages,
           (\E via \in {"friend", "current"} : Choose(p, via)) \/ Profile(p) \/ ChooseDefault(p)
           \/ (\E e \in list[p] : SelectConversation(p, e))
    PROVE  ListInv'
<1>1. /\ proc \in [Pages -> Process] /\ open \in [Pages -> 0..Len(rows)]
      /\ proc[p] \in Process
  BY DEF TInv, ProcsOK, PagesOK
<1>2. \A c \in 1..Len(rows) : open[p] = c => Due(p, c)
  BY DEF Due
<1>3. ASSUME NEW e \in list[p] \union proc[p].entries, NEW c \in 1..Len(rows), e.id = c
      PROVE  Due(p, c)
  BY <1>3 DEF Due, Has
<1>4. \A c \in 1..Len(rows) : c # NoRow
  BY DEF NoRow
<1>5. ASSUME NEW via \in {"friend", "current"}, Choose(p, via)
      PROVE  ListInv'
  <2> DEFINE q == [Idle EXCEPT !.pc = "profile", !.via = via, !.entries = list[p]]
  <2>1. q.entries = list[p] /\ q.id = NoRow
    BY DEF Idle
  <2>2. /\ At(p, "idle") /\ Become(p, q)
        /\ UNCHANGED <<rows, news, list, open, asked, answers, clock, seen, top, faults>>
    BY <1>5 DEF Choose, pages
  <2>3. ~At(p, "publish")
    BY <2>2 DEF At
  <2> HIDE DEF q
  <2> QED
    BY <1>2, <1>4, <2>1, <2>2, <2>3, ListMoves
<1>6. CASE Profile(p)
  <2>1. /\ At(p, "profile")
        /\ UNCHANGED <<rows, news, list, asked, answers, clock, seen, top, faults>>
    BY <1>6 DEF Profile, history
  <2>2. ~At(p, "publish") /\ proc[p].id = NoRow
    BY <2>1, ProcNow DEF At
  <2>3. CASE \E d : \E e \in Listed(p, d, proc[p].via) :
                open' = [open EXCEPT ![p] = e.id] /\ Become(p, Idle)
    <3>1. PICK e \in proc[p].entries : open' = [open EXCEPT ![p] = e.id] /\ Become(p, Idle)
      BY <2>3 DEF Listed
    <3>2. open'[p] = e.id /\ \A o \in Pages \ {p} : open'[o] = open[o]
      BY <1>1, <3>1
    <3>3. \A c \in 1..Len(rows) : ~Has(Idle.entries, c)
      BY IdleType DEF Has
    <3> QED
      BY <1>3, <1>4, <2>1, <2>2, <3>1, <3>2, <3>3, IdleType, ListMoves
  <2>4. CASE open' = open /\ Become(p, Idle)
    <3>1. \A c \in 1..Len(rows) : ~Has(Idle.entries, c)
      BY IdleType DEF Has
    <3> QED
      BY <1>2, <1>4, <2>1, <2>2, <2>4, <3>1, IdleType, ListMoves
  <2>5. ASSUME NEW d, open' = open,
               Become(p, [proc[p] EXCEPT !.pc = "target", !.theirs = d, !.entries = {}])
        PROVE  ListInv'
    <3> DEFINE q == [proc[p] EXCEPT !.pc = "target", !.theirs = d, !.entries = {}]
    <3>1. q.entries = {} /\ q.id = NoRow
      BY <1>1, <2>2 DEF Process
    <3>2. Become(p, q)
      BY <2>5
    <3> HIDE DEF q
    <3>3. \A c \in 1..Len(rows) : ~Has(q.entries, c)
      BY <3>1 DEF Has
    <3> QED
      BY <1>2, <1>4, <2>1, <2>2, <2>5, <3>1, <3>2, <3>3, ListMoves
  <2> QED
    BY <1>6, <2>3, <2>4, <2>5 DEF Profile, ForDevice
<1>7. CASE ChooseDefault(p)
  <2> DEFINE d == known[p].default
             found == {e \in list[p] : PairOf(e) = Pair(DeviceOf[p], d)}
             q == [Idle EXCEPT !.pc = "target", !.via = "default", !.theirs = d]
  <2>1. /\ At(p, "idle")
        /\ UNCHANGED <<rows, news, list, asked, answers, clock, seen, top, faults>>
    BY <1>7 DEF ChooseDefault
  <2>2. ~At(p, "publish")
    BY <2>1 DEF At
  <2>3. \/ /\ found # {} /\ proc' = proc
           /\ open' = [open EXCEPT ![p] = (CHOOSE e \in found : TRUE).id]
        \/ open' = open /\ Become(p, q)
    BY <1>7 DEF ChooseDefault
  <2>4. CASE /\ found # {} /\ proc' = proc
             /\ open' = [open EXCEPT ![p] = (CHOOSE e \in found : TRUE).id]
    <3>1. (CHOOSE e \in found : TRUE) \in list[p]
      BY <2>4
    <3>2. PICK e \in list[p] : open' = [open EXCEPT ![p] = e.id]
      BY <2>4, <3>1
    <3>3. open'[p] = e.id /\ \A o \in Pages \ {p} : open'[o] = open[o]
      BY <1>1, <3>2
    <3>4. Become(p, proc[p])
      BY <1>1, <2>4 DEF Become
    <3> HIDE DEF found, q, d
    <3> QED
      BY <1>3, <2>1, <2>2, <3>3, <3>4, ListMoves
  <2>5. CASE open' = open /\ Become(p, q)
    <3>1. q.entries = {} /\ q.id = NoRow
      BY DEF Idle
    <3> HIDE DEF q, d, found
    <3>2. \A c \in 1..Len(rows) : ~Has(q.entries, c)
      BY <3>1 DEF Has
    <3> QED
      BY <1>2, <1>4, <2>1, <2>2, <2>5, <3>1, <3>2, ListMoves
  <2> QED
    BY <2>3, <2>4, <2>5
<1>8. ASSUME NEW e \in list[p], SelectConversation(p, e) PROVE ListInv'
  <2>1. /\ open' = [open EXCEPT ![p] = e.id] /\ proc' = proc
        /\ UNCHANGED <<rows, news, list, asked, answers, clock, seen, top, faults>>
    BY <1>8 DEF SelectConversation
  <2>2. open'[p] = e.id /\ \A o \in Pages \ {p} : open'[o] = open[o]
    BY <1>1, <2>1
  <2>3. Become(p, proc[p])
    BY <1>1, <2>1 DEF Become
  <2> QED
    BY <1>3, <2>1, <2>2, <2>3, ListMoves
<1> QED
  BY <1>5, <1>6, <1>7, <1>8

LEMMA ListElsewhere ==
    ASSUME TInv, ListInv, Elsewhere
    PROVE  ListInv'
<1>1. UNCHANGED <<list, open, asked, answers, news, proc, clock, seen, top, faults>>
  BY DEF Elsewhere, Unfriended, LogsIn, Revoked, Deleted, pages
<1>2. /\ Len(rows') = Len(rows)
      /\ \A c \in 1..Len(rows) : /\ rows'[c].by = rows[c].by
                                 /\ rows'[c].members = rows[c].members
                                 /\ rows'[c].left = rows[c].left
  BY DeletedNow DEF Elsewhere, Unfriended, LogsIn, Revoked
<1> QED
  BY <1>1, <1>2, ListSame

LEMMA ListCreating ==
    ASSUME TInv, ListInv, NEW p \in Pages,
           FindTarget(p) \/ CheckFriends(p) \/ FindExisting(p) \/ Publish(p) \/ Fails(p)
    PROVE  ListInv'
<1>1. proc \in [Pages -> Process] /\ proc[p] \in Process
  BY DEF TInv, ProcsOK
<1>2. \A c \in 1..Len(rows) : c # NoRow /\ (open[p] = c => Due(p, c))
  BY DEF NoRow, Due
<1>3. \A c : ~Has(Idle.entries, c)
  BY IdleType DEF Has
<1>4. CASE FindTarget(p)
  <2>1. /\ At(p, "target") /\ UNCHANGED <<rows, news, list, open, asked, answers, clock, seen, top,
                                          faults>>
    BY <1>4 DEF FindTarget, pages, history
  <2>2. PICK d : Become(p, [proc[p] EXCEPT !.pc = "friends", !.theirs = d])
    BY <1>4 DEF FindTarget
  <2> DEFINE q == [proc[p] EXCEPT !.pc = "friends", !.theirs = d]
  <2>3. q.entries = proc[p].entries /\ q.id = proc[p].id /\ q.clock = proc[p].clock
    BY <1>1 DEF Process
  <2>4. ~At(p, "publish") /\ Become(p, q)
    BY <2>1, <2>2 DEF At
  <2> HIDE DEF q
  <2> QED
    BY <1>2, <2>1, <2>3, <2>4, ListMoves
<1>5. CASE CheckFriends(p)
  <2>1. /\ At(p, "friends") /\ UNCHANGED <<rows, news, list, open, asked, answers, clock, seen, top,
                                           faults>>
    BY <1>5 DEF CheckFriends, pages, history
  <2> DEFINE q == [proc[p] EXCEPT !.pc = "find"]
  <2>2. q.entries = proc[p].entries /\ q.id = proc[p].id /\ q.clock = proc[p].clock
    BY <1>1 DEF Process
  <2>3. ~At(p, "publish") /\ (Become(p, q) \/ Become(p, Idle))
    BY <1>5, <2>1 DEF At, CheckFriends, Goto, Become
  <2> HIDE DEF q
  <2>4. CASE Become(p, q)
    BY <1>2, <2>1, <2>2, <2>3, <2>4, ListMoves
  <2>5. CASE Become(p, Idle)
    BY <1>2, <1>3, <2>1, <2>3, <2>5, IdleType, ListMoves
  <2> QED
    BY <2>3, <2>4, <2>5
<1>6. CASE FindExisting(p)
  <2>1. /\ At(p, "find") /\ UNCHANGED <<rows, news, list, open, asked, answers, clock, seen, top,
                                        faults>>
    BY <1>6 DEF FindExisting, pages, history
  <2>2. ~At(p, "publish")
    BY <2>1 DEF At
  <2>3. CASE Become(p, [proc[p] EXCEPT !.pc = "insert", !.after = Len(rows)])
    <3> DEFINE q == [proc[p] EXCEPT !.pc = "insert", !.after = Len(rows)]
    <3>1. q.entries = proc[p].entries /\ q.id = proc[p].id /\ q.clock = proc[p].clock
      BY <1>1 DEF Process
    <3>2. Become(p, q)
      BY <2>3
    <3> HIDE DEF q
    <3> QED
      BY <1>2, <2>1, <2>2, <3>1, <3>2, ListMoves
  <2>4. ASSUME NEW k \in Candidates(p), Complete(rows[k]), Become(p, WithRow(p, k))
        PROVE  ListInv'
    <3> DEFINE q == WithRow(p, k)
    <3>1. k \in 1..Len(rows)
      BY DEF Candidates
    <3>2. q.entries = proc[p].entries /\ q.id = k /\ q.clock = clock
      BY <2>1, <3>1, GoodWithRow
    <3>3. Member(p, k)
      BY <2>4, FriendIsOther DEF Member, Complete
    <3>4. Become(p, q)
      BY <2>4
    <3> HIDE DEF q
    <3> QED
      BY <1>2, <2>1, <2>2, <3>1, <3>2, <3>3, <3>4, ListMoves
  <2> QED
    BY <1>6, <2>3, <2>4, FindExistingNow
<1>7. CASE Publish(p)
  <2>1. /\ news' = news \union Receivers(p)
        /\ UNCHANGED <<rows, list, open, asked, answers, clock, seen, top, faults>>
    BY <1>7 DEF Publish, pages, history
  <2> DEFINE q == [proc[p] EXCEPT !.pc = "answer"]
  <2>2. q.entries = proc[p].entries /\ q.id = proc[p].id /\ q.clock = proc[p].clock
    BY <1>1 DEF Process
  <2>3. Become(p, q) /\ news \subseteq news' /\ Receivers(p) \subseteq news'
    BY <1>7, <2>1 DEF Publish, Goto, Become
  <2> HIDE DEF q
  <2> QED
    BY <1>2, <2>1, <2>2, <2>3, ListMoves
<1>8. CASE Fails(p)
  <2>1. faults' # 0
    BY <1>8 DEF Fails, Fault, TInv, HistoryOK
  <2>2. UNCHANGED <<rows, news, list, open, asked, answers, clock, seen, top>>
    BY <1>8 DEF Fails, pages
  <2>3. CASE Become(p, Idle)
    BY <1>2, <1>3, <2>1, <2>2, <2>3, IdleType, ListMoves
  <2>4. CASE At(p, "profile") /\ Become(p, ForDevice(p, NoDev))
    <3> DEFINE q == ForDevice(p, NoDev)
    <3>1. q.entries = {} /\ q.id = NoRow
      BY <1>1, <2>4, ProcNow DEF Process, ForDevice, At
    <3>3. Become(p, q) /\ ~At(p, "publish")
      BY <2>4 DEF At
    <3> HIDE DEF q
    <3>2. \A c \in 1..Len(rows) : ~Has(q.entries, c)
      BY <3>1 DEF Has
    <3> QED
      BY <1>2, <2>1, <2>2, <3>1, <3>2, <3>3, ListMoves
  <2> QED
    BY <1>8, <2>3, <2>4 DEF Fails
<1> QED
  BY <1>4, <1>5, <1>6, <1>7, <1>8

(* the pages of the other user hear of a row that is created *)
LEMMA ListInsert ==
    ASSUME TInv, ListInv, NEW p \in Pages, Insert(p)
    PROVE  ListInv'
<1>1. At(p, "insert") /\ UNCHANGED <<news, pages, seen, top, faults>>
  BY InsertNow
<1>2. ~At(p, "publish") /\ proc[p].id = NoRow
  BY <1>1, ProcNow DEF At
<1>3. CASE Become(p, Idle) /\ UNCHANGED <<rows, clock>>
  <2>1. \A c \in 1..Len(rows) : c # NoRow /\ (open[p] = c => Due(p, c))
    BY DEF NoRow, Due
  <2>2. \A c : ~Has(Idle.entries, c)
    BY IdleType DEF Has
  <2> QED
    BY <1>1, <1>2, <1>3, <2>1, <2>2, IdleType, ListMoves DEF pages
<1>4. CASE ~(Become(p, Idle) /\ UNCHANGED <<rows, clock>>)
  <2>1. /\ Len(rows') = Len(rows) + 1 /\ rows'[Len(rows')] = NewRow(p)
        /\ \A c \in 1..Len(rows) : rows'[c] = rows[c]
        /\ clock' = clock + 1 /\ Become(p, Created(p))
        /\ Created(p).pc = "publish" /\ Created(p).id = Len(rows')
        /\ Created(p).clock = clock' /\ Created(p).entries = proc[p].entries
    BY <1>4, InsertNow
  <2>2. /\ proc'[p] = Created(p) /\ \A o \in Pages \ {p} : proc'[o] = proc[o]
    BY <2>1 DEF Become, TInv, ProcsOK
  <2>3. Len(rows) \in Nat /\ clock \in Nat
    BY Times
  <2> SUFFICES ASSUME NEW o \in Pages, NEW c \in 1..Len(rows') PROVE Good(o, c)'
    BY DEF ListInv
  <2>4. top[o] \in Nat
    BY Times
  <2>5. CASE c \in 1..Len(rows)
    <3>1. Good(o, c)
      BY <2>5 DEF ListInv
    <3>2. Pending(o, c) => Pending(o, c)'
      BY <1>1, <1>2, <2>2, PendingKept DEF pages
    <3>3. Has(proc'[o].entries, c) => Due(o, c)
      BY <2>1, <2>2 DEF Due
    <3>4. proc'[o].id = c => proc[o].id = c /\ proc'[o].clock = proc[o].clock
      BY <2>1, <2>2, <2>3, <2>5
    <3>5. open'[o] = c => Due(o, c)
      BY <1>1 DEF Due, pages
    <3>6. rows'[c] = rows[c]
      BY <2>1, <2>5
    <3> QED
      BY <1>1, <2>1, <2>3, <2>4, <2>5, <3>1, <3>2, <3>3, <3>4, <3>5, <3>6, GoodKept DEF Member, pages
  <2>6. CASE c = Len(rows')
    <3>1. /\ rows'[c].by = UserOf[p] /\ rows'[c].left = {}
      BY <2>1, <2>6, NewRowType
    <3>2. \A x \in answers[o] : x.n \in Nat /\ x.n <= clock /\ ~Has(x.entries, c)
      <4> SUFFICES ASSUME NEW x \in answers[o]
                   PROVE  x.n \in Nat /\ x.n <= clock /\ ~Has(x.entries, c)
        OBVIOUS
      <4>1. x.n \in Nat /\ x.n <= clock /\ Below(x.entries)
        BY Times
      <4>2. x.entries \in SUBSET Entry
        BY DEF TInv, AnswersOK
      <4> QED
        BY <2>1, <2>3, <2>6, <4>1, <4>2, EntryBelow DEF Has
    <3>3. ~Has(list[o], c) /\ ~Has(proc[o].entries, c) /\ open[o] # c /\ proc[o].id # c
      <4>1. /\ list[o] \in SUBSET Entry /\ Below(list[o]) /\ open[o] \in 0..Len(rows)
        BY DEF TInv, PagesOK
      <4>2. /\ proc[o].entries \in SUBSET Entry /\ Below(proc[o].entries)
            /\ proc[o].id \in 0..Len(rows)
        BY ProcNow
      <4>3. \A es \in SUBSET Entry : Below(es) => ~Has(es, c)
        BY <2>1, <2>3, <2>6, EntryBelow DEF Has
      <4> QED
        BY <2>1, <2>3, <2>6, <4>1, <4>2, <4>3
    <3>4. Ordered(o, c)'
      <4>1. proc'[o].id = c => proc'[o].clock = clock'
        BY <2>1, <2>2, <3>3
      <4> QED
        BY <1>1, <2>1, <2>3, <3>2, <4>1 DEF Ordered, Older, Has, pages
    <3>5. Awaited(o, c)'
      <4>1. CASE UserOf[o] = UserOf[p]
        <5>1. ~Due(o, c)'
          BY <1>1, <2>1, <2>2, <3>1, <3>3, <4>1 DEF Due, pages, Has
        <5> QED
          BY <5>1 DEF Awaited
      <4>2. CASE UserOf[o] # UserOf[p]
        <5>1. Pending(o, c)'
          BY <2>1, <2>2, <2>6, <4>2 DEF Pending, Published, At
        <5> QED
          BY <5>1 DEF Awaited
      <4> QED
        BY <4>1, <4>2
    <3>6. Gone(o, c)'
      BY <3>1 DEF Gone
    <3> QED
      BY <3>4, <3>5, <3>6 DEF Good
  <2> QED
    BY <2>1, <2>3, <2>5, <2>6
<1> QED
  BY <1>3, <1>4

(* the answer brings the conversation to the page that asked *)
LEMMA ListAnswer ==
    ASSUME TInv, ListInv, NEW p \in Pages, Answer(p)
    PROVE  ListInv'
<1> DEFINE k == proc[p].id
<1>1. /\ At(p, "answer") /\ k \in 1..Len(rows) /\ Become(p, Idle)
      /\ UNCHANGED <<rows, news, answers, clock, faults>>
  BY AnswerNow
<1>2. /\ open'[p] = k /\ asked'[p] >= asked[p]
      /\ \A o \in Pages \ {p} : open'[o] = open[o]
  BY AnswerNow
<1>3. \A o \in Pages \ {p} : list'[o] = list[o] /\ asked'[o] = asked[o]
  BY AnswerNow
<1>4. \/ UNCHANGED <<list, seen, top>> /\ asked'[p] > 0
      \/ list'[p] = list[p] \union {Added(k)} /\ Shows(p, proc[p].clock)
  BY AnswerNow
<1>5. ~At(p, "publish") /\ Added(k).id = k
  BY <1>1, AddedType DEF At
<1>6. proc'[p] = Idle /\ \A o \in Pages \ {p} : proc'[o] = proc[o]
  BY <1>1 DEF Become, TInv, ProcsOK
<1>7. /\ \A o \in Pages : /\ top[o] \in Nat /\ seen[o] \in Nat /\ clock \in Nat
                          /\ asked[o] \in Nat /\ asked'[o] \in Nat
                          /\ proc[o].clock \in Nat
      /\ proc[p].clock \in 0..clock
  <2>1. asked' \in [Pages -> 0..MaxLoads]
    BY AnswerNow
  <2> QED
    BY <2>1, Times, ProcNow
<1>8. \A o \in Pages : /\ top'[o] \in Nat /\ top[o] <= top'[o]
                       /\ seen[o] < top[o] => seen'[o] < top'[o]
  <2>1. CASE UNCHANGED <<seen, top>>
    BY <1>7, <2>1
  <2>2. CASE Shows(p, proc[p].clock)
    <3>1. Grows /\ proc[p].clock \in 0..clock'
      BY <1>1, <1>7, Steady
    <3>2. clock' <= Len(rows') + acts' /\ faults' \in 0..MaxFaults /\ acts' \in 0..MaxActs
      BY <1>1, AnswerNow DEF TInv, HistoryOK
    <3>3. /\ top'[p] \in Nat /\ top[p] <= top'[p]
          /\ \A o \in Pages \ {p} : top'[o] = top[o] /\ seen'[o] = seen[o]
          /\ seen[p] # top[p] => seen'[p] = seen[p]
      BY <2>2, <3>1, <3>2, ShowsOK
    <3> QED
      BY <1>7, <3>3
  <2> QED
    BY <1>4, <2>1, <2>2
<1>9. list'[p] = list[p] \union {Added(k)} => proc[p].clock <= top'[p] \/ asked'[p] > 0
  <2>1. CASE Shows(p, proc[p].clock)
    <3>1. Grows /\ proc[p].clock \in 0..clock'
      BY <1>1, <1>7, Steady
    <3>2. clock' <= Len(rows') + acts' /\ faults' \in 0..MaxFaults /\ acts' \in 0..MaxActs
      BY <1>1, AnswerNow DEF TInv, HistoryOK
    <3> QED
      BY <2>1, <3>1, <3>2, ShowsOK
  <2> QED
    BY <1>4, <2>1
<1> HIDE DEF k
<1> SUFFICES ASSUME NEW o \in Pages, NEW c \in 1..Len(rows) PROVE Good(o, c)'
  BY <1>1 DEF ListInv
<1>10. Good(o, c) /\ Good(p, c)
  BY DEF ListInv
<1>11. Pending(o, c) => Pending(o, c)'
  BY <1>1, <1>2, <1>3, <1>5, <1>6, <1>7, PendingKept
<1>12. ~Has(proc'[p].entries, c) /\ proc'[p].id # c
  BY <1>6, IdleType DEF Has, NoRow
<1>13. CASE o # p
  <2>1. /\ list'[o] = list[o] /\ open'[o] = open[o] /\ proc'[o] = proc[o]
        /\ rows' = rows /\ answers' = answers /\ clock' = clock
    BY <1>1, <1>2, <1>3, <1>6, <1>13
  <2>2. /\ Has(list'[o], c) <=> Has(list[o], c)
        /\ open'[o] = c => Due(o, c)
        /\ Has(proc'[o].entries, c) => Due(o, c)
        /\ Member(o, c)' => Member(o, c)
    BY <2>1 DEF Due, Member
  <2>3. faults' = 0 => faults = 0 /\ (Pending(o, c) => Pending(o, c)')
    BY <1>1, <1>11
  <2>4. /\ clock' \in Nat /\ clock <= clock' /\ answers'[o] = answers[o]
        /\ rows'[c].by = rows[c].by /\ (o \in rows'[c].left => o \in rows[c].left)
        /\ proc'[o].id = c => proc[o].id = c /\ proc'[o].clock = proc[o].clock
    BY <1>7, <2>1
  <2>5. /\ top'[o] \in Nat /\ top[o] <= top'[o]
        /\ seen[o] < top[o] => seen'[o] < top'[o]
    BY <1>8
  <2> QED
    BY <1>10, <2>2, <2>3, <2>4, <2>5, GoodKept
<1>14. CASE o = p /\ c # k
  <2>1. Has(list'[p], c) <=> Has(list[p], c)
    BY <1>4, <1>5, <1>14 DEF Has
  <2>2. open'[p] # c
    BY <1>2, <1>14
  <2> QED
    BY <1>1, <1>7, <1>8, <1>10, <1>11, <1>12, <1>14, <2>1, <2>2, GoodKept DEF Member
<1>15. CASE o = p /\ c = k
  <2>2. p \notin rows'[c].left
    BY <1>1, <1>10, <1>15 DEF Good, Gone, k
  <2>3. Ordered(p, c)'
    BY <1>1, <1>10, <1>12 DEF Good, Ordered, Older, Member, Has
  <2>4. ASSUME Member(p, c)
        PROVE  /\ Has(list'[p], c) \/ Pending(p, c)'
               /\ \A x \in answers'[p] : Has(x.entries, c) \/ x.n < top'[p] \/ Pending(p, c)'
    <3>1. CASE asked'[p] > 0
      BY <3>1 DEF Pending
    <3>2. CASE list'[p] = list[p] \union {Added(k)} /\ proc[p].clock <= top'[p]
      <4>1. Has(list'[p], c)
        BY <1>5, <1>15, <3>2 DEF Has
      <4>2. ASSUME NEW x \in answers[p], ~Has(x.entries, c) PROVE x.n < top'[p]
        <5>1. x.n < proc[p].clock /\ x.n \in Nat
          BY <1>10, <1>15, <2>4, <4>2, Times DEF Good, Ordered, Older, k
        <5> QED
          BY <1>7, <1>8, <3>2, <5>1
      <4> QED
        BY <1>1, <4>1, <4>2
    <3> QED
      BY <1>4, <1>9, <3>1, <3>2
  <2>5. Awaited(p, c)'
    BY <1>1, <2>4 DEF Awaited, Member, Has
  <2> QED
    BY <1>15, <2>2, <2>3, <2>5 DEF Good, Gone
<1> QED
  BY <1>13, <1>14, <1>15

(* a conversation a page deletes leaves its list, and older answers bring it back only *)
LEMMA ListLeave ==
    ASSUME TInv, ListInv, NEW p \in Pages, NEW k, Leave(p, k)
    PROVE  ListInv'
<1>1. /\ k \in 1..Len(rows) /\ UserOf[p] \in rows[k].members /\ Len(rows') = Len(rows)
      /\ UNCHANGED <<news, asked, answers, proc, faults>> /\ clock' = clock + 1
  BY LeaveNow
<1>2. /\ rows'[k].by = rows[k].by /\ rows'[k].members = rows[k].members \ {UserOf[p]}
      /\ proc[p].id = k => rows'[k].left = rows[k].left
      /\ proc[p].id # k => rows'[k].left = rows[k].left \union {p}
  BY LeaveNow
<1>3. \A c \in 1..Len(rows) : c # k => rows'[c] = rows[c]
  BY LeaveNow
<1>4. /\ \A e : e \in list'[p] <=> e \in list[p] /\ e.id # k
      /\ \A o \in Pages \ {p} : list'[o] = list[o] /\ open'[o] = open[o]
      /\ open'[p] \in {open[p], NoRow} /\ open'[p] # k
  BY LeaveShown
<1>5. /\ \A o \in Pages : /\ top[o] \in Nat /\ seen[o] \in Nat /\ clock \in Nat
  BY Times
<1>6. /\ clock' <= top'[p]
      /\ \A o \in Pages : /\ top'[o] \in Nat /\ top[o] <= top'[o]
                          /\ seen[o] < top[o] => seen'[o] < top'[o]
  <2>1. Shows(p, clock') /\ RowsOK' /\ acts' = acts + 1 /\ acts' \in 0..MaxActs
    BY LeaveNow
  <2>2. /\ Grows /\ clock' \in 0..clock' /\ faults' \in 0..MaxFaults
        /\ clock' <= Len(rows') + acts'
    BY <1>1, <2>1, Counters DEF TInv, HistoryOK, RowsOK, Grows
  <2>3. /\ top'[p] \in Nat /\ top[p] <= top'[p] /\ clock' <= top'[p]
        /\ \A o \in Pages \ {p} : top'[o] = top[o] /\ seen'[o] = seen[o]
        /\ seen[p] # top[p] => seen'[p] = seen[p]
    BY <2>1, <2>2, ShowsOK
  <2> QED
    BY <1>5, <2>3
<1> SUFFICES ASSUME NEW o \in Pages, NEW c \in 1..Len(rows) PROVE Good(o, c)'
  BY <1>1 DEF ListInv
<1>7. Good(o, c)
  BY DEF ListInv
<1>8. Pending(o, c) => Pending(o, c)'
  BY <1>1 DEF Pending, Published, At, Has
<1>9. /\ rows'[c].by = rows[c].by
      /\ Member(o, c)' => Member(o, c)
  BY <1>2, <1>3 DEF Member
<1>10. CASE ~(o = p /\ c = k)
  <2>1. o \in rows'[c].left => o \in rows[c].left
    BY <1>2, <1>3, <1>10
  <2>2. Has(list'[o], c) <=> Has(list[o], c)
    BY <1>4, <1>10 DEF Has
  <2>3. open'[o] = c => Due(o, c)
    BY <1>4 DEF Due, NoRow
  <2>4. Has(proc'[o].entries, c) => Due(o, c)
    BY <1>1 DEF Due
  <2> QED
    BY <1>1, <1>5, <1>6, <1>7, <1>8, <1>9, <2>1, <2>2, <2>3, <2>4, GoodKept
<1>11. CASE o = p /\ c = k
  <2>1. ~Member(p, k)'
    BY <1>2 DEF Member
  <2>2. ~Has(list'[p], k)
    BY <1>4 DEF Has
  <2>3. \A x \in answers[p] : x.n \in Nat /\ x.n <= clock
    BY Times
  <2>4. \A x \in answers'[p] : x.n < top'[p]
    BY <1>1, <1>5, <1>6, <2>3
  <2>5. p \in rows'[k].left => proc'[p].id # k
    BY <1>1, <1>2, <1>7, <1>11 DEF Good, Gone
  <2> QED
    BY <1>11, <2>1, <2>2, <2>4, <2>5 DEF Good, Ordered, Awaited, Gone, Member, Has
<1> QED
  BY <1>10, <1>11

LEMMA ListStep == TInv /\ ListInv /\ [Next]_vars => ListInv'
<1> SUFFICES ASSUME TInv, ListInv, [Next]_vars PROVE ListInv'
  OBVIOUS
<1>1. CASE UNCHANGED vars
  BY <1>1, ListSame DEF vars, pages, history
<1>2. ASSUME NEW p \in Pages, Loading(p) \/ Choosing(p) \/ Creating(p) PROVE ListInv'
  BY <1>2, ListLoading, ListChoosing, ListLeave, ListCreating, ListInsert, ListAnswer
     DEF Choosing, Creating
<1> QED
  BY <1>1, <1>2, ListElsewhere DEF Next

LEMMA ListInit == Init => ListInv
BY DEF Init, ListInv

LEMMA ListInvariant == Spec => []ListInv
BY TypeInvariant, ListInit, ListStep, PTL DEF Spec

(* When nothing is under way, a page lists each conversation its user is in that the *)
(* friend has created or that the page has open, unless it shows an older answer.    *)
THEOREM ListCorrect == Spec => []ListComplete
<1>1. TInv /\ ListInv => ListComplete
  <2> SUFFICES ASSUME TInv, ListInv, NEW p \in Pages, NEW c \in 1..Len(rows),
                      Quiet(p), seen[p] = top[p], UserOf[p] \in rows[c].members,
                      rows[c].by # UserOf[p] \/ open[p] = c
               PROVE  \E e \in list[p] : e.id = c
    BY DEF ListComplete
  <2>1. ~Pending(p, c)
    BY DEF Quiet, Pending, Published
  <2>2. Awaited(p, c) /\ Member(p, c) /\ Due(p, c)
    BY DEF ListInv, Good, Member, Due
  <2> QED
    BY <2>1, <2>2, Times DEF Awaited, Quiet, Has
<1> QED
  BY <1>1, TypeInvariant, ListInvariant, PTL

(* A conversation deleted on a page comes back there only in an older answer, or when *)
(* the page was waiting for its creation to be answered.                              *)
THEOREM DeletedCorrect == Spec => []NoneComesBack
<1>1. TInv /\ ListInv => NoneComesBack
  <2> SUFFICES ASSUME TInv, ListInv, NEW p \in Pages, seen[p] = top[p], NEW e \in list[p],
                      p \in rows[e.id].left
               PROVE  FALSE
    BY DEF NoneComesBack
  <2>1. e.id \in 1..Len(rows)
    BY EntryBelow DEF TInv, PagesOK
  <2>2. Gone(p, e.id) /\ Has(list[p], e.id)
    BY <2>1 DEF ListInv, Good, Has
  <2> QED
    BY <2>2, Times DEF Gone
<1> QED
  BY <1>1, TypeInvariant, ListInvariant, PTL

================================================================================
