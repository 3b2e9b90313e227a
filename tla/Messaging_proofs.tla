--------------------------- MODULE Messaging_proofs ---------------------------
(***************************************************************************)
(* What holds of a conversation for every set of participants, instances   *)
(* and overlapping requests.  Without any assumption on the operations:    *)
(* the type invariant and ShownOnce.  When requests do not overlap:        *)
(* NoGhosts and NothingLost, with clears, reloads, lost connections and    *)
(* crashes.                                                                *)
(***************************************************************************)
EXTENDS Messaging, FiniteSetTheorems, TLAPS

JobType == [Handlers -> Busy \union {Idle}]

(* Every handler about to store a message has been counted in. *)
Room == Len(sentBy) + Cardinality(Sending) <= MaxMessages

TypeInv == TypeOK /\ Room

--------------------------------------------------------------------------------
(* Handlers *)

(* A handler that is not idle carries a full record of locals. *)
LEMMA BusyJob ==
    ASSUME TypeOK, NEW h \in Handlers, ~At(h, "idle")
    PROVE  job[h] \in Busy
BY DEF TypeOK, At, Idle

(* The ways the code moves a handler keep its record well formed. *)
LEMMA MoveType ==
    ASSUME TypeOK, NEW h \in Handlers
    PROVE  /\ ~At(h, "idle") => \A pc \in BusyPC : Goto(h, pc) => job' \in JobType
           /\ Finish(h) => job' \in JobType
           /\ \A pc \in BusyPC, u \in Users, ms \in SUBSET Ids, wipe \in BOOLEAN :
                 Start(h, pc, u, ms, wipe) => job' \in JobType
<1>1. ASSUME ~At(h, "idle"), NEW pc \in BusyPC, Goto(h, pc)
      PROVE  job' \in JobType
  <2>1. job[h] \in Busy
    BY <1>1, BusyJob
  <2>2. [job[h] EXCEPT !.pc = pc] \in Busy
    BY <1>1, <2>1 DEF Busy
  <2>3. QED
    BY <1>1, <2>2 DEF Goto, TypeOK, JobType
<1>2. Finish(h) => job' \in JobType
  BY DEF Finish, TypeOK, JobType
<1>3. ASSUME NEW pc \in BusyPC, NEW u \in Users, NEW ms \in SUBSET Ids,
             NEW wipe \in BOOLEAN, Start(h, pc, u, ms, wipe)
      PROVE  job' \in JobType
  <2>1. [pc |-> pc, user |-> u, inst |-> at[u], msgs |-> ms,
         read |-> {}, to |-> {}, wipe |-> wipe] \in Busy
    BY DEF Busy, TypeOK
  <2>2. QED
    BY <1>3, <2>1 DEF Start, TypeOK, JobType
<1>4. QED
  BY <1>1, <1>2, <1>3

(* Looking up the participants fills in the recipients. *)
LEMMA ReadMembersType ==
    ASSUME TypeOK, NEW h \in Handlers, ~At(h, "idle"),
           NEW pc \in BusyPC, ReadMembers(h, pc)
    PROVE  TypeOK'
<1>1. [job[h] EXCEPT !.pc = pc, !.to = members] \in Busy
  BY BusyJob DEF Busy, TypeOK
<1>2. job' \in [Handlers -> Busy \union {Idle}]
  BY <1>1 DEF ReadMembers, TypeOK
<1>3. QED
  BY <1>2 DEF ReadMembers, TypeOK, db, browsers

--------------------------------------------------------------------------------
(* Browsers *)

(* What a browser does with an event keeps its store well formed and holds  *)
(* no message twice.                                                        *)
LEMMA ReceiveType ==
    ASSUME TypeOK, NEW us \in SUBSET Users, NEW m \in Ids
    PROVE  \/ ReceiveNew(us, m)
           \/ ReceiveDeleted(us)
           \/ ReceiveRead(us, m)
           => /\ shown' \in [Users -> [Ids -> Nat]]
              /\ seen' \in [Users -> SUBSET Ids]
              /\ asked' \in [Users -> SUBSET Ids]
<1>1. \A s \in [Ids -> Nat] : AddMessage(s, m) \in [Ids -> Nat]
  BY DEF AddMessage
<1>2. SetMessages({}) \in [Ids -> Nat]
  BY DEF SetMessages
<1>3. CASE ReceiveNew(us, m)
  BY <1>1, <1>3 DEF ReceiveNew, TypeOK
<1>4. CASE ReceiveDeleted(us)
  BY <1>2, <1>4 DEF ReceiveDeleted, TypeOK
<1>5. CASE ReceiveRead(us, m)
  BY <1>5 DEF ReceiveRead, TypeOK
<1>6. QED
  BY <1>3, <1>4, <1>5

(* An event a handler publishes is well formed on every instance's queue. *)
LEMMA PublishType ==
    ASSUME TypeOK, NEW e \in Event, Publish(e)
    PROVE  bus' \in [Instances -> Seq(Event)]
BY DEF Publish, TypeOK

--------------------------------------------------------------------------------
(* Types *)

LEMMA TypeInit == Init => TypeInv
<1>1. Init => Sending = {}
  BY DEF Init, Sending, At, Idle
<1>2. Init => Room
  <2>1. Cardinality({}) = 0
    BY FS_EmptySet
  <2>2. Init => Len(sentBy) = 0
    BY DEF Init
  <2>3. 0 + 0 <= MaxMessages
    BY BoundsAssumption
  <2>4. QED
    BY <1>1, <2>1, <2>2, <2>3 DEF Room
<1>3. Init => TypeOK
  BY BoundsAssumption DEF Init, TypeOK, Nothing
<1>4. QED
  BY <1>2, <1>3 DEF TypeInv

(* The sends under way, counted: one more once SendCheck has let a handler  *)
(* in, one less once it has stored its message or died.                     *)
LEMMA SendingCount ==
    /\ IsFiniteSet(Sending)
    /\ Cardinality(Sending) \in Nat
    /\ \A h \in Handlers :
          At(h, "create") => /\ Cardinality(Sending) >= 1
                             /\ Cardinality(Sending \ {h}) = Cardinality(Sending) - 1
    /\ \A h \in Handlers :
          ~At(h, "create") => Cardinality(Sending \union {h}) = Cardinality(Sending) + 1
<1>1. IsFiniteSet(Sending)
  BY HandlersAssumption, FS_Subset DEF Sending
<1>2. Cardinality(Sending) \in Nat
  BY <1>1, FS_CardinalityType
<1>3. ASSUME NEW h \in Handlers, At(h, "create")
      PROVE  /\ Cardinality(Sending) >= 1
             /\ Cardinality(Sending \ {h}) = Cardinality(Sending) - 1
  <2>1. h \in Sending
    BY <1>3 DEF Sending
  <2>2. Cardinality(Sending) # 0
    BY <1>1, <2>1, FS_EmptySet
  <2>3. Cardinality(Sending \ {h}) = Cardinality(Sending) - 1
    BY <1>1, <2>1, FS_RemoveElement
  <2>4. QED
    BY <1>2, <2>2, <2>3
<1>4. ASSUME NEW h \in Handlers, ~At(h, "create")
      PROVE  Cardinality(Sending \union {h}) = Cardinality(Sending) + 1
  <2>1. h \notin Sending
    BY <1>4 DEF Sending
  <2>2. QED
    BY <1>1, <2>1, FS_AddElement
<1>5. QED
  BY <1>1, <1>2, <1>3, <1>4

(* A step that stores no message and starts no send keeps Room. *)
LEMMA RoomKept ==
    ASSUME Room, Len(sentBy) \in Nat, UNCHANGED sentBy,
           \/ Sending' = Sending
           \/ \E h \in Handlers : At(h, "create") /\ Sending' = Sending \ {h}
    PROVE  Room'
<1>1. CASE Sending' = Sending
  BY <1>1 DEF Room
<1>2. CASE \E h \in Handlers : At(h, "create") /\ Sending' = Sending \ {h}
  <2>1. PICK h \in Handlers : At(h, "create") /\ Sending' = Sending \ {h}
    BY <1>2
  <2>2. Cardinality(Sending') = Cardinality(Sending) - 1
    BY <2>1, SendingCount
  <2>3. Cardinality(Sending) \in Nat /\ MaxMessages \in Nat
    BY SendingCount, BoundsAssumption
  <2>4. QED
    BY <2>2, <2>3 DEF Room
<1>3. QED
  BY <1>1, <1>2

(* Where the code moves a handler to. *)
LEMMA MovePC ==
    ASSUME TypeOK, NEW h \in Handlers
    PROVE  /\ \A g \in Handlers : job[g].pc \in BusyPC \union {"idle"}
           /\ ~At(h, "idle") => \A pc \in BusyPC :
                 /\ Goto(h, pc) => job'[h].pc = pc
                 /\ ReadMembers(h, pc) => job'[h].pc = pc
           /\ Finish(h) => job'[h].pc = "idle"
           /\ \/ \E pc \in BusyPC : Goto(h, pc) \/ ReadMembers(h, pc)
              \/ Finish(h)
              => \A g \in Handlers \ {h} : job'[g] = job[g]
<1>1. \A g \in Handlers : job[g].pc \in BusyPC \union {"idle"}
  BY DEF TypeOK, Busy, Idle
<1>2. ASSUME ~At(h, "idle"), NEW pc \in BusyPC, Goto(h, pc) \/ ReadMembers(h, pc)
      PROVE  job'[h].pc = pc
  <2>1. job[h] \in Busy
    BY <1>2, BusyJob
  <2>2. QED
    BY <1>2, <2>1 DEF Goto, ReadMembers, TypeOK, Busy
<1>3. Finish(h) => job'[h].pc = "idle"
  BY DEF Finish, TypeOK, Idle
<1>4. ASSUME \/ \E pc \in BusyPC : Goto(h, pc) \/ ReadMembers(h, pc)
             \/ Finish(h)
      PROVE  \A g \in Handlers \ {h} : job'[g] = job[g]
  BY <1>4 DEF Goto, ReadMembers, Finish, TypeOK
<1>5. QED
  BY <1>1, <1>2, <1>3, <1>4

(* A step of a handler that is not storing a message changes no other send. *)
LEMMA SendingElsewhere ==
    ASSUME NEW h \in Handlers, job[h].pc # "create", job'[h].pc # "create",
           \A g \in Handlers \ {h} : job'[g] = job[g]
    PROVE  Sending' = Sending
BY DEF Sending, At

(* Room holds after every step: SendCheck counts before it lets a send in,  *)
(* SendCreate trades the handler for the message.                           *)
LEMMA RoomStep ==
    ASSUME TypeOK, Room, [Next]_vars
    PROVE  Room'
<1> USE DEF At
<1>0. /\ Len(sentBy) \in Nat
      /\ job \in [Handlers -> Busy \union {Idle}]
  BY DEF TypeOK
<1>1. ASSUME NEW h \in Handlers, NEW u \in Users, SendCheck(h, u)
      PROVE  Room'
  <2>1. Sending' = Sending \union {h} /\ ~At(h, "create")
    BY <1>0, <1>1 DEF SendCheck, Start, Sending
  <2>2. Cardinality(Sending') = Cardinality(Sending) + 1
    BY <2>1, SendingCount
  <2>3. UNCHANGED sentBy /\ Len(sentBy) + Cardinality(Sending) < MaxMessages
    BY <1>1 DEF SendCheck, db
  <2>4. Cardinality(Sending) \in Nat /\ MaxMessages \in Nat
    BY SendingCount, BoundsAssumption
  <2>5. QED
    BY <1>0, <2>2, <2>3, <2>4 DEF Room
<1>2. ASSUME NEW h \in Handlers, SendCreate(h)
      PROVE  Room'
  <2>a. /\ At(h, "create")
        /\ job'[h].pc # "create"
        /\ \A g \in Handlers \ {h} : job'[g] = job[g]
    <3>1. job[h] \in Busy /\ job[h].pc = "create"
      BY <1>2, BusyJob DEF SendCreate
    <3>2. QED
      BY <1>0, <1>2, <3>1 DEF SendCreate, Finish, Idle, Busy
  <2>1. At(h, "create") /\ Sending' = Sending \ {h}
    BY <2>a DEF Sending
  <2>2. Cardinality(Sending') = Cardinality(Sending) - 1
    BY <2>1, SendingCount
  <2>3. Len(sentBy') = Len(sentBy) \/ Len(sentBy') = Len(sentBy) + 1
    BY <1>2 DEF SendCreate, TypeOK
  <2>4. Cardinality(Sending) \in Nat /\ MaxMessages \in Nat
    BY SendingCount, BoundsAssumption
  <2>5. QED
    BY <1>0, <2>2, <2>3, <2>4 DEF Room
<1>3. ASSUME NEW h \in Handlers, Crash(h)
      PROVE  Room'
  <2>1. UNCHANGED sentBy
    BY <1>3 DEF Crash, db
  <2>2. IF At(h, "create") THEN Sending' = Sending \ {h} ELSE Sending' = Sending
    BY <1>0, <1>3 DEF Crash, Finish, Sending, Idle
  <2>3. QED
    BY <1>0, <2>1, <2>2, RoomKept
<1>4. ASSUME NEW h \in Handlers,
             \/ SendMembers(h) \/ SendEmit(h)
             \/ ReadGetMembers(h) \/ ReadEmit(h)
             \/ ClearRows(h) \/ ClearMembers(h) \/ ClearPublish(h) \/ ClearDone(h)
      PROVE  Room'
  <2>1. UNCHANGED sentBy
    BY <1>4 DEF SendMembers, SendEmit, ReadGetMembers, ReadEmit, ClearRows,
                ClearMembers, ClearPublish, ClearDone, ReadMembers, db
  <2>2. /\ job[h].pc # "create"
        /\ job'[h].pc # "create"
        /\ \A g \in Handlers \ {h} : job'[g] = job[g]
    BY <1>4, MovePC
       DEF SendMembers, SendEmit, ReadGetMembers, ReadEmit, ClearRows,
           ClearMembers, ClearPublish, ClearDone, BusyPC
  <2>3. QED
    BY <1>0, <2>1, <2>2, RoomKept, SendingElsewhere
<1>5. ASSUME NEW h \in Handlers,
             \/ LeaveWipe(h) \/ LeaveRow(h) \/ LeaveCount(h) \/ LeavePurge(h)
             \/ LeaveDrop(h) \/ FetchQuery(h)
             \/ \E mine \in BOOLEAN : FetchApply(h, mine)
      PROVE  Room'
  <2>1. UNCHANGED sentBy
    BY <1>5 DEF LeaveWipe, LeaveRow, LeaveCount, LeavePurge, LeaveDrop,
                FetchQuery, FetchApply, db
  <2>2. /\ job[h].pc # "create"
        /\ job'[h].pc # "create"
        /\ \A g \in Handlers \ {h} : job'[g] = job[g]
    <3>1. CASE FetchQuery(h)
      <4>1. job[h] \in Busy /\ job[h].pc = "query"
        BY <3>1, BusyJob DEF FetchQuery
      <4>2. QED
        BY <1>0, <3>1, <4>1 DEF FetchQuery, Busy
    <3>2. QED
      BY <1>5, <3>1, MovePC
         DEF LeaveWipe, LeaveRow, LeaveCount, LeavePurge, LeaveDrop, FetchApply, BusyPC
  <2>3. QED
    BY <1>0, <2>1, <2>2, RoomKept, SendingElsewhere
<1>6. ASSUME NEW h \in Handlers, NEW u \in Users,
             \/ \E m \in Ids : ReadUpdate(h, u, m)
             \/ ClearCheck(h, u)
             \/ \E wipe \in BOOLEAN : LeaveCheck(h, u, wipe)
             \/ FetchCheck(h, u)
      PROVE  Room'
  <2>1. UNCHANGED sentBy
    BY <1>6 DEF ReadUpdate, ClearCheck, LeaveCheck, FetchCheck, db
  <2>2. Sending' = Sending
    BY <1>0, <1>6
       DEF ReadUpdate, ClearCheck, LeaveCheck, FetchCheck, Start, Sending
  <2>3. QED
    BY <1>0, <2>1, <2>2, RoomKept
<1>7. CASE \/ \E i \in Instances : Deliver(i)
           \/ \E u \in Users : \/ \E m \in Ids : ReadRetried(u, m)
                               \/ Disconnect(u)
                               \/ \E i \in Instances : Reconnect(u, i)
           \/ UNCHANGED vars
  <2>1. UNCHANGED <<sentBy, job>>
    BY <1>7 DEF Deliver, ReadRetried, Disconnect, Reconnect, vars, db
  <2>2. Sending' = Sending
    BY <2>1 DEF Sending
  <2>3. QED
    BY <1>0, <2>1, <2>2, RoomKept
<1>8. QED
  BY <1>1, <1>2, <1>3, <1>4, <1>5, <1>6, <1>7 DEF Next, Begin, Step

(* There is an id left for a message that is about to be stored. *)
LEMMA NewId ==
    ASSUME TypeOK, Room, NEW h \in Handlers, SendCreate(h)
    PROVE  Len(sentBy) + 1 \in Ids
<1>1. At(h, "create")
  BY DEF SendCreate
<1>2. /\ Cardinality(Sending) \in Nat
      /\ Cardinality(Sending) >= 1
  BY <1>1, SendingCount
<1>3. Len(sentBy) \in Nat /\ MaxMessages \in Nat
  BY BoundsAssumption DEF TypeOK
<1>4. QED
  BY <1>2, <1>3 DEF Room, Ids

(* Each step of message:send and message:read keeps the types. *)
LEMMA TypeMessages ==
    ASSUME TypeOK, Room, NEW h \in Handlers,
           \/ \E u \in Users : \/ SendCheck(h, u)
                               \/ \E m \in Ids : ReadUpdate(h, u, m)
           \/ SendCreate(h) \/ SendMembers(h) \/ SendEmit(h)
           \/ ReadGetMembers(h) \/ ReadEmit(h)
    PROVE  TypeOK'
<1> USE DEF At, db, browsers
<1>1. ASSUME NEW u \in Users, SendCheck(h, u)
      PROVE  TypeOK'
  <2>1. job' \in JobType
    BY <1>1, MoveType DEF SendCheck, BusyPC
  <2>2. QED
    BY <1>1, <2>1 DEF SendCheck, TypeOK, JobType
<1>2. CASE SendCreate(h)
  <2>1. job[h] \in Busy /\ job[h].pc = "create"
    BY <1>2, BusyJob DEF SendCreate
  <2>2. CASE ~alive
    <3>1. job' \in JobType
      BY <1>2, <2>2, MoveType DEF SendCreate
    <3>2. QED
      BY <1>2, <2>2, <3>1 DEF SendCreate, TypeOK, JobType
  <2>3. CASE alive
    <3>1. Len(sentBy) + 1 \in Ids
      BY <1>2, NewId
    <3>2. [job[h] EXCEPT !.pc = "sendMembers", !.msgs = {Len(sentBy) + 1}] \in Busy
      BY <2>1, <3>1 DEF Busy, BusyPC
    <3>3. job' \in JobType
      BY <1>2, <2>3, <3>2 DEF SendCreate, TypeOK, JobType
    <3>4. /\ rows' \subseteq Ids
          /\ rows \subseteq rows'
      BY <1>2, <2>3, <3>1 DEF SendCreate, TypeOK
    <3>5. /\ sentBy' \in Seq(Users)
          /\ audience' \in Seq(SUBSET Users)
      <4>1. /\ sentBy' = Append(sentBy, job[h].user)
            /\ audience' = Append(audience, members)
        BY <1>2, <2>3 DEF SendCreate
      <4>2. /\ job[h].user \in Users
            /\ members \in SUBSET Users
        BY <2>1 DEF TypeOK, Busy
      <4>3. /\ sentBy \in Seq(Users)
            /\ audience \in Seq(SUBSET Users)
        BY DEF TypeOK
      <4>4. QED
        BY <4>1, <4>2, <4>3
    <3>6. UNCHANGED <<alive, members, readRows, clears, bus, at, shown, seen, asked, missed>>
      BY <1>2 DEF SendCreate
    <3>7. QED
      BY <3>3, <3>4, <3>5, <3>6 DEF TypeOK, JobType
  <2>4. QED
    BY <2>2, <2>3
<1>3. CASE SendMembers(h)
  BY <1>3, ReadMembersType DEF SendMembers, BusyPC
<1>4. CASE SendEmit(h)
  <2>1. job[h] \in Busy
    BY <1>4, BusyJob DEF SendEmit
  <2>2. PICK m \in job[h].msgs :
           /\ ReceiveNew(Reached(job[h].inst, job[h].to), m)
           /\ Publish([type |-> "new_message", msg |-> m, to |-> job[h].to])
    BY <1>4 DEF SendEmit
  <2>3. /\ m \in Ids
        /\ Reached(job[h].inst, job[h].to) \in SUBSET Users
        /\ [type |-> "new_message", msg |-> m, to |-> job[h].to] \in Event
    BY <2>1, <2>2 DEF Busy, Reached, Event
  <2>4. /\ shown' \in [Users -> [Ids -> Nat]]
        /\ seen' \in [Users -> SUBSET Ids]
        /\ asked' \in [Users -> SUBSET Ids]
    BY <2>2, <2>3, ReceiveType
  <2>5. bus' \in [Instances -> Seq(Event)]
    BY <2>2, <2>3, PublishType
  <2>6. job' \in JobType
    BY <1>4, MoveType DEF SendEmit
  <2>7. QED
    BY <1>4, <2>4, <2>5, <2>6 DEF SendEmit, TypeOK, JobType
<1>5. ASSUME NEW u \in Users, NEW m \in Ids, ReadUpdate(h, u, m)
      PROVE  TypeOK'
  <2>1. job' \in JobType
    <3>1. {m} \in SUBSET Ids /\ "readMembers" \in BusyPC /\ FALSE \in BOOLEAN
      BY DEF BusyPC
    <3>2. Start(h, "readMembers", u, {m}, FALSE) => job' \in JobType
      BY <3>1, MoveType
    <3>3. QED
      BY <1>5, <3>2 DEF ReadUpdate, TypeOK, JobType
  <2>2. asked' \in [Users -> SUBSET Ids] /\ readRows' \subseteq rows
    BY <1>5 DEF ReadUpdate, TypeOK
  <2>3. QED
    BY <1>5, <2>1, <2>2 DEF ReadUpdate, TypeOK, JobType
<1>6. CASE ReadGetMembers(h)
  BY <1>6, ReadMembersType DEF ReadGetMembers, BusyPC
<1>7. CASE ReadEmit(h)
  <2>1. job[h] \in Busy
    BY <1>7, BusyJob DEF ReadEmit
  <2>2. PICK m \in job[h].msgs : ReceiveRead(Reached(job[h].inst, job[h].to), m)
    BY <1>7 DEF ReadEmit
  <2>3. m \in Ids /\ Reached(job[h].inst, job[h].to) \in SUBSET Users
    BY <2>1, <2>2 DEF Busy, Reached
  <2>4. /\ shown' \in [Users -> [Ids -> Nat]]
        /\ seen' \in [Users -> SUBSET Ids]
        /\ asked' \in [Users -> SUBSET Ids]
    BY <2>2, <2>3, ReceiveType
  <2>5. job' \in JobType
    BY <1>7, MoveType DEF ReadEmit
  <2>6. QED
    BY <1>7, <2>4, <2>5 DEF ReadEmit, TypeOK, JobType
<1>8. QED
  BY <1>1, <1>2, <1>3, <1>4, <1>5, <1>6, <1>7

(* Each step of clearing the history and of leaving keeps the types. *)
LEMMA TypeDeletes ==
    ASSUME TypeOK, NEW h \in Handlers,
           \/ \E u \in Users : \/ ClearCheck(h, u)
                               \/ \E wipe \in BOOLEAN : LeaveCheck(h, u, wipe)
           \/ ClearRows(h) \/ ClearMembers(h) \/ ClearPublish(h) \/ ClearDone(h)
           \/ LeaveWipe(h) \/ LeaveRow(h) \/ LeaveCount(h) \/ LeavePurge(h)
           \/ LeaveDrop(h)
    PROVE  TypeOK'
<1> USE DEF At, db, browsers
<1>1. ASSUME NEW u \in Users, ClearCheck(h, u)
      PROVE  TypeOK'
  <2>1. job' \in JobType
    BY <1>1, MoveType DEF ClearCheck, BusyPC
  <2>2. clears' \in 0..MaxClears
    BY <1>1, BoundsAssumption DEF ClearCheck, TypeOK
  <2>3. QED
    BY <1>1, <2>1, <2>2 DEF ClearCheck, TypeOK, JobType
<1>2. CASE ClearRows(h)
  <2>1. job' \in JobType
    BY <1>2, MoveType DEF ClearRows, BusyPC
  <2>2. QED
    BY <1>2, <2>1 DEF ClearRows, TypeOK, JobType
<1>3. CASE ClearMembers(h)
  BY <1>3, ReadMembersType DEF ClearMembers, BusyPC
<1>4. CASE ClearPublish(h)
  <2>1. job[h] \in Busy
    BY <1>4, BusyJob DEF ClearPublish
  <2>2. [type |-> "messages_deleted", to |-> job[h].to] \in Event
    BY <2>1 DEF Busy, Event
  <2>3. bus' \in [Instances -> Seq(Event)]
    BY <1>4, <2>2, PublishType DEF ClearPublish
  <2>4. job' \in JobType
    BY <1>4, MoveType DEF ClearPublish, BusyPC
  <2>5. QED
    BY <1>4, <2>3, <2>4 DEF ClearPublish, TypeOK, JobType
<1>5. CASE ClearDone(h)
  <2>1. job[h] \in Busy
    BY <1>5, BusyJob DEF ClearDone
  <2>2. /\ shown' \in [Users -> [Ids -> Nat]]
        /\ seen' \in [Users -> SUBSET Ids]
        /\ asked' \in [Users -> SUBSET Ids]
    BY <1>5, <2>1 DEF ClearDone, ReceiveDeleted, SetMessages, TypeOK, Busy
  <2>3. job' \in JobType
    BY <1>5, MoveType DEF ClearDone
  <2>4. QED
    BY <1>5, <2>2, <2>3 DEF ClearDone, TypeOK, JobType
<1>6. ASSUME NEW u \in Users, NEW wipe \in BOOLEAN, LeaveCheck(h, u, wipe)
      PROVE  TypeOK'
  <2>1. job' \in JobType
    BY <1>6, MoveType DEF LeaveCheck, BusyPC
  <2>2. QED
    BY <1>6, <2>1 DEF LeaveCheck, TypeOK, JobType
<1>7. CASE LeaveWipe(h)
  <2>1. job' \in JobType
    BY <1>7, MoveType DEF LeaveWipe, BusyPC
  <2>2. QED
    BY <1>7, <2>1 DEF LeaveWipe, TypeOK, JobType
<1>8. CASE LeaveRow(h)
  <2>1. job' \in JobType
    BY <1>8, MoveType DEF LeaveRow, BusyPC
  <2>2. QED
    BY <1>8, <2>1 DEF LeaveRow, TypeOK, JobType
<1>9. CASE LeaveCount(h)
  <2>1. job' \in JobType
    BY <1>9, MoveType DEF LeaveCount, BusyPC
  <2>2. QED
    BY <1>9, <2>1 DEF LeaveCount, TypeOK, JobType
<1>10. CASE LeavePurge(h)
  <2>1. job' \in JobType
    BY <1>10, MoveType DEF LeavePurge, BusyPC
  <2>2. QED
    BY <1>10, <2>1 DEF LeavePurge, TypeOK, JobType
<1>11. CASE LeaveDrop(h)
  <2>1. job' \in JobType
    BY <1>11, MoveType DEF LeaveDrop
  <2>2. QED
    BY <1>11, <2>1 DEF LeaveDrop, TypeOK, JobType
<1>12. QED
  BY <1>1, <1>2, <1>3, <1>4, <1>5, <1>6, <1>7, <1>8, <1>9, <1>10, <1>11

(* Each step of loading the history keeps the types. *)
LEMMA TypeFetch ==
    ASSUME TypeOK, NEW h \in Handlers,
           \/ \E u \in Users : FetchCheck(h, u)
           \/ FetchQuery(h)
           \/ \E mine \in BOOLEAN : FetchApply(h, mine)
    PROVE  TypeOK'
<1> USE DEF At, db, browsers
<1>1. ASSUME NEW u \in Users, FetchCheck(h, u)
      PROVE  TypeOK'
  <2>1. job' \in JobType
    <3>1. {} \in SUBSET Ids /\ {"query", "apply"} \subseteq BusyPC /\ FALSE \in BOOLEAN
      BY DEF BusyPC
    <3>2. \A pc \in {"query", "apply"} : Start(h, pc, u, {}, FALSE) => job' \in JobType
      BY <3>1, MoveType
    <3>3. QED
      BY <1>1, <3>2 DEF FetchCheck
  <2>2. QED
    BY <1>1, <2>1 DEF FetchCheck, TypeOK, JobType
<1>2. CASE FetchQuery(h)
  <2>1. job[h] \in Busy
    BY <1>2, BusyJob DEF FetchQuery
  <2>2. Page(rows) \subseteq Ids
    BY DEF Page, TypeOK
  <2>3. [job[h] EXCEPT !.pc = "apply", !.msgs = Page(rows),
                       !.read = Page(rows) \intersect readRows] \in Busy
    BY <2>1, <2>2 DEF Busy, BusyPC
  <2>4. job' \in JobType
    BY <1>2, <2>3 DEF FetchQuery, TypeOK, JobType
  <2>5. QED
    BY <1>2, <2>4 DEF FetchQuery, TypeOK, JobType
<1>3. ASSUME NEW mine \in BOOLEAN, FetchApply(h, mine)
      PROVE  TypeOK'
  <2> DEFINE u == job[h].user
             new == IF mine THEN FromOthers(u, job[h].msgs \ job[h].read) ELSE {}
  <2>1. job[h] \in Busy
    BY <1>3, BusyJob DEF FetchApply
  <2>2. /\ u \in Users
        /\ new \subseteq Ids
        /\ job[h].read \subseteq Ids
    BY <2>1 DEF Busy, FromOthers
  <2>3. SetMessages(job[h].msgs) \in [Ids -> Nat]
    BY DEF SetMessages
  <2>4. /\ shown' = [shown EXCEPT ![u] = SetMessages(job[h].msgs)]
        /\ seen' = [seen EXCEPT ![u] = job[h].read \union new]
        /\ asked' = [asked EXCEPT ![u] = @ \union new]
        /\ missed' \subseteq missed
    BY <1>3 DEF FetchApply
  <2> HIDE DEF u, new
  <2>5. /\ shown' \in [Users -> [Ids -> Nat]]
        /\ seen' \in [Users -> SUBSET Ids]
        /\ asked' \in [Users -> SUBSET Ids]
        /\ missed' \subseteq Users
    BY <2>2, <2>3, <2>4 DEF TypeOK
  <2>6. job' \in JobType
    BY <1>3, MoveType DEF FetchApply
  <2>7. QED
    BY <1>3, <2>5, <2>6 DEF FetchApply, TypeOK, JobType
<1>4. QED
  BY <1>1, <1>2, <1>3

(* A step of no handler, or a crash, keeps the types. *)
LEMMA TypeOutside ==
    ASSUME TypeOK,
           \/ \E h \in Handlers : Crash(h)
           \/ \E i \in Instances : Deliver(i)
           \/ \E u \in Users : \/ \E m \in Ids : ReadRetried(u, m)
                               \/ Disconnect(u)
                               \/ \E i \in Instances : Reconnect(u, i)
           \/ UNCHANGED vars
    PROVE  TypeOK'
<1> USE DEF db, browsers
<1>1. ASSUME NEW h \in Handlers, Crash(h)
      PROVE  TypeOK'
  <2>1. job' \in JobType
    BY <1>1, MoveType DEF Crash
  <2>2. QED
    BY <1>1, <2>1 DEF Crash, TypeOK, JobType
<1>2. ASSUME NEW i \in Instances, Deliver(i)
      PROVE  TypeOK'
  <2>1. bus[i] \in Seq(Event) /\ bus[i] # <<>>
    BY <1>2 DEF Deliver, TypeOK
  <2>2. PICK e \in Event : e = Head(bus[i])
    BY <2>1
  <2>3. Reached(i, e.to) \in SUBSET Users
    BY <2>2 DEF Event, Reached
  <2>4. /\ shown' \in [Users -> [Ids -> Nat]]
        /\ seen' \in [Users -> SUBSET Ids]
        /\ asked' \in [Users -> SUBSET Ids]
    <3>1. CASE e.type = "new_message"
      <4>1. e.msg \in Ids
        BY <3>1 DEF Event
      <4>2. ReceiveNew(Reached(i, e.to), e.msg)
        BY <1>2, <2>2, <3>1 DEF Deliver
      <4>3. QED
        BY <2>3, <4>1, <4>2, ReceiveType
    <3>2. CASE e.type # "new_message"
      <4>1. ReceiveDeleted(Reached(i, e.to))
        BY <1>2, <2>2, <3>2 DEF Deliver
      <4>2. QED
        BY <4>1 DEF ReceiveDeleted, SetMessages, TypeOK
    <3>3. QED
      BY <3>1, <3>2
  <2>5. bus' \in [Instances -> Seq(Event)]
    BY <1>2, <2>1 DEF Deliver, TypeOK
  <2>6. QED
    BY <1>2, <2>4, <2>5 DEF Deliver, TypeOK
<1>3. ASSUME NEW u \in Users, NEW m \in Ids, ReadRetried(u, m)
      PROVE  TypeOK'
  BY <1>3 DEF ReadRetried, TypeOK
<1>4. ASSUME NEW u \in Users, Disconnect(u)
      PROVE  TypeOK'
  BY <1>4 DEF Disconnect, TypeOK
<1>5. ASSUME NEW u \in Users, NEW i \in Instances, Reconnect(u, i)
      PROVE  TypeOK'
  BY <1>5 DEF Reconnect, TypeOK
<1>6. CASE UNCHANGED vars
  BY <1>6 DEF vars, TypeOK
<1>7. QED
  BY <1>1, <1>2, <1>3, <1>4, <1>5, <1>6

LEMMA TypeStep == TypeInv /\ [Next]_vars => TypeInv'
<1> SUFFICES ASSUME TypeOK, Room, [Next]_vars
             PROVE  TypeInv'
  BY DEF TypeInv
<1>1. Room'
  BY RoomStep
<1>2. TypeOK'
  BY TypeMessages, TypeDeletes, TypeFetch, TypeOutside DEF Next, Begin, Step
<1>3. QED
  BY <1>1, <1>2 DEF TypeInv

LEMMA TypeInvariant == Spec => []TypeInv
BY TypeInit, TypeStep, PTL DEF Spec

(* In every reachable state every variable of a conversation, every handler *)
(* and every event on its way is well formed, and no receipt outlives its    *)
(* message: deleting rows, in whichever handler, takes readRows along.       *)
THEOREM TypeCorrect == Spec => []TypeOK
BY TypeInvariant, PTL DEF TypeInv

--------------------------------------------------------------------------------
(* What a step changes *)

SendPC == {"sendMembers", "emit"}
ClearPC == {"clear", "clearMembers", "publishCleared", "cleared"}
FetchPC == {"query", "apply"}

(* The steps that show nothing, announce nothing and store no message. *)
Silent ==
    \/ \E h \in Handlers :
          \/ \E u \in Users : \/ SendCheck(h, u)
                              \/ \E m \in Ids : ReadUpdate(h, u, m)
                              \/ ClearCheck(h, u)
                              \/ \E wipe \in BOOLEAN : LeaveCheck(h, u, wipe)
                              \/ FetchCheck(h, u)
          \/ ReadGetMembers(h) \/ ReadEmit(h) \/ ClearRows(h) \/ ClearMembers(h)
          \/ LeaveWipe(h) \/ LeaveRow(h) \/ LeaveCount(h) \/ LeavePurge(h)
          \/ LeaveDrop(h) \/ FetchQuery(h)
    \/ \E u \in Users : \/ \E m \in Ids : ReadRetried(u, m)
                        \/ Disconnect(u)
                        \/ \E i \in Instances : Reconnect(u, i)
    \/ UNCHANGED vars

(* The locals of a handler that is delivering a message are left alone. *)
SendsKept ==
    \A g \in Handlers :
        job[g].pc \in SendPC \/ job'[g].pc \in SendPC => job'[g] = job[g]

LEMMA NextCases ==
    [Next]_vars <=>
        \/ Silent
        \/ \E h \in Handlers :
              \/ SendCreate(h) \/ SendMembers(h) \/ SendEmit(h)
              \/ ClearPublish(h) \/ ClearDone(h)
              \/ \E mine \in BOOLEAN : FetchApply(h, mine)
              \/ Crash(h)
        \/ \E i \in Instances : Deliver(i)
BY DEF Next, Begin, Step, Silent

(* Handlers run one after another: a step moves one of them. *)
LEMMA OneHandler ==
    ASSUME TypeOK, NEW h \in Handlers,
           job[h].pc \notin SendPC, job'[h].pc \notin SendPC,
           \A g \in Handlers \ {h} : job'[g] = job[g]
    PROVE  SendsKept
BY DEF SendsKept

LEMMA SilentFrame ==
    ASSUME TypeOK, Silent
    PROVE  /\ UNCHANGED <<shown, bus, audience, sentBy>>
           /\ members' \subseteq members
           /\ rows' \subseteq rows
           /\ SendsKept
<1> USE DEF At, db, browsers
<1>1. ASSUME NEW h \in Handlers, NEW u \in Users,
             \/ SendCheck(h, u)
             \/ \E m \in Ids : ReadUpdate(h, u, m)
             \/ ClearCheck(h, u)
             \/ \E wipe \in BOOLEAN : LeaveCheck(h, u, wipe)
             \/ FetchCheck(h, u)
      PROVE  /\ UNCHANGED <<shown, bus, audience, sentBy, members, rows>>
             /\ SendsKept
  <2>1. UNCHANGED <<shown, bus, audience, sentBy, members, rows>>
    BY <1>1 DEF SendCheck, ReadUpdate, ClearCheck, LeaveCheck, FetchCheck
  <2>2. /\ job[h].pc = "idle"
        /\ job'[h].pc \notin SendPC
        /\ \A g \in Handlers \ {h} : job'[g] = job[g]
    BY <1>1 DEF SendCheck, ReadUpdate, ClearCheck, LeaveCheck, FetchCheck, Start,
                TypeOK, SendPC
  <2>3. QED
    BY <2>1, <2>2, OneHandler DEF SendPC
<1>2. ASSUME NEW h \in Handlers,
             \/ ReadGetMembers(h) \/ ReadEmit(h) \/ ClearRows(h) \/ ClearMembers(h)
             \/ LeaveWipe(h) \/ LeaveRow(h) \/ LeaveCount(h) \/ LeavePurge(h)
             \/ LeaveDrop(h) \/ FetchQuery(h)
      PROVE  /\ UNCHANGED <<shown, bus, audience, sentBy>>
             /\ members' \subseteq members
             /\ rows' \subseteq rows
             /\ SendsKept
  <2>1. /\ UNCHANGED <<shown, bus, audience, sentBy>>
        /\ members' \subseteq members
        /\ rows' \subseteq rows
    BY <1>2 DEF ReadGetMembers, ReadEmit, ClearRows, ClearMembers, LeaveWipe, LeaveRow,
                LeaveCount, LeavePurge, LeaveDrop, FetchQuery, ReadMembers, ReceiveRead
  <2>2. /\ job[h].pc \notin SendPC
        /\ job'[h].pc \notin SendPC
        /\ \A g \in Handlers \ {h} : job'[g] = job[g]
    <3>1. CASE FetchQuery(h)
      <4>1. job[h] \in Busy /\ job[h].pc = "query"
        BY <3>1, BusyJob DEF FetchQuery
      <4>2. QED
        BY <3>1, <4>1 DEF FetchQuery, Busy, TypeOK, SendPC
    <3>2. QED
      BY <1>2, <3>1, MovePC
         DEF ReadGetMembers, ReadEmit, ClearRows, ClearMembers, LeaveWipe, LeaveRow,
             LeaveCount, LeavePurge, LeaveDrop, BusyPC, SendPC
  <2>3. QED
    BY <2>1, <2>2, OneHandler
<1>3. CASE \/ \E u \in Users : \/ \E m \in Ids : ReadRetried(u, m)
                               \/ Disconnect(u)
                               \/ \E i \in Instances : Reconnect(u, i)
           \/ UNCHANGED vars
  <2>1. UNCHANGED <<shown, bus, audience, sentBy, members, rows, job>>
    BY <1>3 DEF ReadRetried, Disconnect, Reconnect, vars
  <2>2. QED
    BY <2>1 DEF SendsKept
<1>4. QED
  BY <1>1, <1>2, <1>3 DEF Silent

(* Only FetchCheck starts loading the history, only ClearCheck clearing it. *)
LEMMA NeverBegun ==
    ASSUME TypeOK, [Next]_vars, NEW S,
           \/ S = FetchPC /\ "fetch" \notin Ops
           \/ S = ClearPC /\ "clear" \notin Ops,
           \A h \in Handlers : job[h].pc \notin S
    PROVE  \A h \in Handlers : job'[h].pc \notin S
<1> USE DEF At, FetchPC, ClearPC
<1>1. ASSUME NEW h \in Handlers, NEW u \in Users,
             \/ SendCheck(h, u)
             \/ \E m \in Ids : ReadUpdate(h, u, m)
             \/ ClearCheck(h, u)
             \/ \E wipe \in BOOLEAN : LeaveCheck(h, u, wipe)
             \/ FetchCheck(h, u)
      PROVE  \A g \in Handlers : job'[g].pc \notin S
  <2>1. \/ UNCHANGED job
        \/ \E pc \in BusyPC \ S, ms \in SUBSET Ids, wipe \in BOOLEAN :
              Start(h, pc, u, ms, wipe)
    BY <1>1 DEF SendCheck, ReadUpdate, ClearCheck, LeaveCheck, FetchCheck, BusyPC
  <2>2. ASSUME NEW pc \in BusyPC \ S, NEW ms, NEW wipe, Start(h, pc, u, ms, wipe)
        PROVE  \A g \in Handlers : job'[g].pc \notin S
    BY <2>2 DEF Start, TypeOK
  <2>3. QED
    BY <2>1, <2>2
<1>2. ASSUME NEW h \in Handlers,
             \/ SendMembers(h) \/ SendEmit(h) \/ ReadGetMembers(h) \/ ReadEmit(h)
             \/ ClearRows(h) \/ ClearMembers(h) \/ ClearPublish(h) \/ ClearDone(h)
             \/ LeaveWipe(h) \/ LeaveRow(h) \/ LeaveCount(h) \/ LeavePurge(h)
             \/ LeaveDrop(h) \/ Crash(h)
      PROVE  \A g \in Handlers : job'[g].pc \notin S
  <2>1. job'[h].pc \notin S /\ \A g \in Handlers \ {h} : job'[g] = job[g]
    BY <1>2, MovePC
       DEF SendMembers, SendEmit, ReadGetMembers, ReadEmit, ClearRows, ClearMembers,
           ClearPublish, ClearDone, LeaveWipe, LeaveRow, LeaveCount, LeavePurge,
           LeaveDrop, Crash, BusyPC
  <2>2. QED
    BY <2>1
<1>3. ASSUME NEW h \in Handlers, SendCreate(h)
      PROVE  \A g \in Handlers : job'[g].pc \notin S
  <2>1. job[h] \in Busy
    BY <1>3, BusyJob DEF SendCreate
  <2>2. CASE ~alive
    BY <1>3, <2>2, MovePC DEF SendCreate
  <2>3. CASE alive
    <3>1. /\ job'[h].pc = "sendMembers"
          /\ \A g \in Handlers \ {h} : job'[g] = job[g]
      BY <1>3, <2>1, <2>3 DEF SendCreate, Busy, TypeOK
    <3>2. QED
      BY <3>1
  <2>4. QED
    BY <2>2, <2>3
<1>4. ASSUME NEW h \in Handlers, FetchQuery(h) \/ \E mine \in BOOLEAN : FetchApply(h, mine)
      PROVE  \A g \in Handlers : job'[g].pc \notin S
  <2>1. job[h] \in Busy /\ job[h].pc \in FetchPC
    BY <1>4, BusyJob DEF FetchQuery, FetchApply
  <2>2. job'[h].pc \notin ClearPC /\ \A g \in Handlers \ {h} : job'[g] = job[g]
    <3>1. CASE FetchQuery(h)
      BY <2>1, <3>1 DEF FetchQuery, Busy, TypeOK
    <3>2. CASE \E mine \in BOOLEAN : FetchApply(h, mine)
      BY <3>2, MovePC DEF FetchApply
    <3>3. QED
      BY <1>4, <3>1, <3>2
  <2>3. QED
    BY <2>1, <2>2
<1>5. CASE UNCHANGED job
  BY <1>5
<1>6. QED
  BY <1>1, <1>2, <1>3, <1>4, <1>5
     DEF Next, Begin, Step, Deliver, ReadRetried, Disconnect, Reconnect, vars, db

--------------------------------------------------------------------------------
(* ShownOnce *)

(* A message sent by one instance and received back from Redis is shown     *)
(* once, in every interleaving of any number of handlers and instances.     *)
THEOREM ShownOnceCorrect == Spec => []ShownOnce
<1>1. Init => ShownOnce
  BY DEF Init, ShownOnce, Nothing
<1>2. ASSUME TypeOK, ShownOnce, [Next]_vars
      PROVE  ShownOnce'
  <2> USE DEF db, browsers
  <2>1. ASSUME NEW us, NEW m, ReceiveNew(us, m)
        PROVE  ShownOnce'
    <3>1. \A u \in Users, k \in Ids : AddMessage(shown[u], m)[k] <= 1
      BY <1>2 DEF AddMessage, ShownOnce, TypeOK
    <3>2. QED
      BY <1>2, <2>1, <3>1 DEF ReceiveNew, ShownOnce, TypeOK
  <2>2. ASSUME NEW us, ReceiveDeleted(us)
        PROVE  ShownOnce'
    BY <1>2, <2>2 DEF ReceiveDeleted, SetMessages, ShownOnce, TypeOK
  <2>3. CASE UNCHANGED shown
    BY <1>2, <2>3 DEF ShownOnce
  <2>4. CASE Silent
    BY <1>2, <2>3, <2>4, SilentFrame
  <2>5. ASSUME NEW h \in Handlers,
               \/ SendCreate(h) \/ SendMembers(h) \/ SendEmit(h)
               \/ ClearPublish(h) \/ ClearDone(h) \/ Crash(h)
        PROVE  ShownOnce'
    BY <2>1, <2>2, <2>3, <2>5
       DEF SendCreate, SendMembers, SendEmit, ClearPublish, ClearDone, Crash, ReadMembers
  <2>6. ASSUME NEW h \in Handlers, NEW mine \in BOOLEAN, FetchApply(h, mine)
        PROVE  ShownOnce'
    <3>1. shown' = [shown EXCEPT ![job[h].user] = SetMessages(job[h].msgs)]
      BY <2>6 DEF FetchApply
    <3>2. QED
      BY <1>2, <3>1 DEF SetMessages, ShownOnce, TypeOK
  <2>7. ASSUME NEW i \in Instances, Deliver(i)
        PROVE  ShownOnce'
    BY <2>1, <2>2, <2>7 DEF Deliver
  <2>8. QED
    BY <1>2, <2>4, <2>5, <2>6, <2>7, NextCases
<1>3. QED
  BY <1>1, <1>2, TypeInvariant, PTL DEF Spec, TypeInv

--------------------------------------------------------------------------------
(* AudienceOnly *)

(* Every user of "us" was a participant when message m was written. *)
Heard(m, us) == m \in 1..Len(audience) /\ us \subseteq audience[m]

(* Wherever a message is on its way, those it is on its way to were its     *)
(* audience: participants only ever leave, so those looked up after the     *)
(* message was stored are among those who were there when it was.           *)
AudienceInv ==
    /\ \A h \in Handlers : job[h].pc \notin FetchPC
    /\ \A h \in Handlers : job[h].pc = "sendMembers" =>
          \A m \in job[h].msgs : Heard(m, members)
    /\ \A h \in Handlers : job[h].pc = "emit" =>
          \A m \in job[h].msgs : Heard(m, job[h].to)
    /\ \A i \in Instances : \A k \in 1..Len(bus[i]) :
          bus[i][k].type = "new_message" => Heard(bus[i][k].msg, bus[i][k].to)
    /\ \A u \in Users : \A m \in Held(u) : Heard(m, {u})
    /\ Len(audience) = Len(sentBy)

(* Messages are only ever added to the history of audiences. *)
LEMMA HeardLater ==
    ASSUME audience \in Seq(SUBSET Users), NEW X \in SUBSET Users,
           audience' = audience \/ audience' = Append(audience, X),
           NEW m, NEW us, Heard(m, us)
    PROVE  Heard(m, us)'
BY DEF Heard

(* What messages:deleted leaves on the screen was there before. *)
LEMMA DeletedHeld ==
    ASSUME TypeOK, NEW us, ReceiveDeleted(us)
    PROVE  \A u \in Users : Held(u)' \subseteq Held(u)
<1>1. \A m \in Ids : SetMessages({})[m] = 0
  BY DEF SetMessages
<1>2. \A u \in Users : shown'[u] = shown[u] \/ shown'[u] = SetMessages({})
  BY DEF ReceiveDeleted, TypeOK
<1>3. QED
  BY <1>1, <1>2 DEF Held

(* A message that arrives is shown to those it was for. *)
LEMMA ReceiveHeard ==
    ASSUME TypeOK, NEW us, NEW n \in Ids, ReceiveNew(us, n), Heard(n, us),
           \A u \in Users : \A m \in Held(u) : Heard(m, {u})
    PROVE  \A u \in Users : \A m \in Held(u)' : Heard(m, {u})
<1>1. SUFFICES ASSUME NEW u \in Users, NEW m \in Ids, shown'[u][m] > 0
               PROVE  Heard(m, {u})
  BY DEF Held
<1>2. CASE shown[u][m] > 0
  BY <1>2 DEF Held
<1>3. CASE ~(shown[u][m] > 0)
  <2>1. u \in us /\ m = n
    BY <1>1, <1>3 DEF ReceiveNew, AddMessage, TypeOK
  <2>2. QED
    BY <2>1 DEF Heard
<1>4. QED
  BY <1>2, <1>3

LEMMA AudienceStep ==
    ASSUME "fetch" \notin Ops, TypeOK, AudienceInv, [Next]_vars
    PROVE  AudienceInv'
<1> USE DEF At, db, browsers
<1>1. \A h \in Handlers : job'[h].pc \notin FetchPC
  BY NeverBegun DEF AudienceInv
<1>2. audience \in Seq(SUBSET Users) /\ members \in SUBSET Users
  BY DEF TypeOK
<1>3. CASE Silent
  <2>1. /\ UNCHANGED <<shown, bus, audience, sentBy>>
        /\ members' \subseteq members
        /\ SendsKept
    BY <1>3, SilentFrame
  <2>2. \A m, us : Heard(m, us)' <=> Heard(m, us)
    BY <2>1 DEF Heard
  <2>3. \A m : Heard(m, members) => Heard(m, members')
    BY <2>1 DEF Heard
  <2>4. \A h \in Handlers : job'[h].pc \in SendPC => job'[h] = job[h]
    BY <2>1 DEF SendsKept
  <2>5. \A h \in Handlers : job'[h].pc = "sendMembers" =>
           \A m \in job'[h].msgs : Heard(m, members')
    BY <2>3, <2>4 DEF AudienceInv, SendPC
  <2>6. \A h \in Handlers : job'[h].pc = "emit" =>
           \A m \in job'[h].msgs : Heard(m, job'[h].to)
    BY <2>4 DEF AudienceInv, SendPC
  <2>7. QED
    BY <1>1, <2>1, <2>2, <2>5, <2>6 DEF AudienceInv, Held, Heard
<1>4. ASSUME NEW h \in Handlers, SendCreate(h)
      PROVE  AudienceInv'
  <2>1. job[h] \in Busy /\ job[h].pc = "create"
    BY <1>4, BusyJob DEF SendCreate
  <2>2. /\ UNCHANGED <<members, bus, shown>>
        /\ \A g \in Handlers \ {h} : job'[g] = job[g]
        /\ audience' = audience \/ audience' = Append(audience, members)
        /\ Len(audience') = Len(sentBy')
    BY <1>4, <1>2 DEF SendCreate, Finish, TypeOK, AudienceInv
  <2>3. \A m, us : Heard(m, us) => Heard(m, us)'
    BY <1>2, <2>2, HeardLater
  <2>4. job'[h].pc = "sendMembers" => \A m \in job'[h].msgs : Heard(m, members)'
    <3>1. CASE ~alive
      BY <1>4, <2>1, <3>1 DEF SendCreate, Finish, Idle, TypeOK
    <3>2. CASE alive
      <4>1. /\ job'[h].msgs = {Len(sentBy) + 1}
            /\ audience' = Append(audience, members)
        BY <1>4, <2>1, <3>2 DEF SendCreate, Busy, TypeOK
      <4>2. Len(sentBy) + 1 = Len(audience) + 1
        BY DEF AudienceInv
      <4>3. QED
        BY <1>2, <2>2, <4>1, <4>2 DEF Heard
    <3>3. QED
      BY <3>1, <3>2
  <2>5. job'[h].pc # "emit"
    BY <1>4, <2>1 DEF SendCreate, Finish, Idle, Busy, TypeOK
  <2>6. \A g \in Handlers : job'[g].pc = "sendMembers" =>
           \A m \in job'[g].msgs : Heard(m, members)'
    BY <2>2, <2>3, <2>4 DEF AudienceInv
  <2>7. \A g \in Handlers : job'[g].pc = "emit" =>
           \A m \in job'[g].msgs : Heard(m, job[g].to)' /\ job'[g] = job[g]
    BY <2>2, <2>3, <2>5 DEF AudienceInv
  <2>8. \A u \in Users : \A m \in Held(u)' : Heard(m, {u})'
    BY <2>2, <2>3 DEF AudienceInv, Held
  <2>9. \A i \in Instances : \A k \in 1..Len(bus'[i]) :
           bus'[i][k].type = "new_message" => Heard(bus[i][k].msg, bus[i][k].to)' /\ bus' = bus
    BY <2>2, <2>3 DEF AudienceInv
  <2>10. QED
    BY <1>1, <2>2, <2>6, <2>7, <2>8, <2>9 DEF AudienceInv, Heard
<1>5. ASSUME NEW h \in Handlers, SendMembers(h)
      PROVE  AudienceInv'
  <2>1. job[h] \in Busy /\ job[h].pc = "sendMembers"
    BY <1>5, BusyJob DEF SendMembers
  <2>2. /\ UNCHANGED <<members, bus, shown, audience, sentBy>>
        /\ \A g \in Handlers \ {h} : job'[g] = job[g]
        /\ job'[h].pc = "emit" /\ job'[h].msgs = job[h].msgs /\ job'[h].to = members
    BY <1>5, <2>1 DEF SendMembers, ReadMembers, TypeOK, Busy
  <2>3. QED
    BY <1>1, <2>1, <2>2 DEF AudienceInv, Held, Heard
<1>6. ASSUME NEW h \in Handlers, SendEmit(h)
      PROVE  AudienceInv'
  <2>1. job[h] \in Busy /\ job[h].pc = "emit"
    BY <1>6, BusyJob DEF SendEmit
  <2>2. PICK n \in job[h].msgs :
           /\ ReceiveNew(Reached(job[h].inst, job[h].to), n)
           /\ Publish([type |-> "new_message", msg |-> n, to |-> job[h].to])
    BY <1>6 DEF SendEmit
  <2>3. /\ n \in Ids
        /\ Heard(n, job[h].to)
        /\ Heard(n, Reached(job[h].inst, job[h].to))
    BY <2>1, <2>2 DEF AudienceInv, Busy, Heard, Reached
  <2>4. /\ UNCHANGED <<members, audience, sentBy>>
        /\ \A g \in Handlers \ {h} : job'[g] = job[g]
        /\ job'[h].pc = "idle"
    BY <1>6 DEF SendEmit, Finish, Idle, TypeOK
  <2>5. \A u \in Users : \A m \in Held(u)' : Heard(m, {u})
    BY <2>2, <2>3, ReceiveHeard DEF AudienceInv
  <2>6. \A i \in Instances : \A k \in 1..Len(bus'[i]) :
           bus'[i][k].type = "new_message" => Heard(bus'[i][k].msg, bus'[i][k].to)
    BY <2>2, <2>3 DEF Publish, AudienceInv, TypeOK
  <2>7. QED
    BY <1>1, <2>4, <2>5, <2>6 DEF AudienceInv, Heard
<1>7. ASSUME NEW h \in Handlers, ClearPublish(h)
      PROVE  AudienceInv'
  <2>1. /\ UNCHANGED <<members, audience, sentBy, shown>>
        /\ \A g \in Handlers \ {h} : job'[g] = job[g]
        /\ job'[h].pc = "cleared"
        /\ Publish([type |-> "messages_deleted", to |-> job[h].to])
    BY <1>7, MovePC DEF ClearPublish, BusyPC
  <2>2. \A i \in Instances : \A k \in 1..Len(bus'[i]) :
           bus'[i][k].type = "new_message" => Heard(bus'[i][k].msg, bus'[i][k].to)
    BY <2>1 DEF Publish, AudienceInv, TypeOK
  <2>3. QED
    BY <1>1, <2>1, <2>2 DEF AudienceInv, Held, Heard
<1>8. ASSUME NEW h \in Handlers, ClearDone(h) \/ Crash(h)
      PROVE  AudienceInv'
  <2>1. /\ UNCHANGED <<members, audience, sentBy, bus>>
        /\ \A g \in Handlers \ {h} : job'[g] = job[g]
        /\ job'[h].pc = "idle"
    BY <1>8, MovePC DEF ClearDone, Crash
  <2>2. \A u \in Users : Held(u)' \subseteq Held(u)
    BY <1>8, DeletedHeld DEF ClearDone, Crash, Held
  <2>3. QED
    BY <1>1, <2>1, <2>2 DEF AudienceInv, Heard
<1>9. ASSUME NEW i \in Instances, Deliver(i)
      PROVE  AudienceInv'
  <2>1. /\ UNCHANGED <<members, audience, sentBy, job>>
        /\ bus[i] \in Seq(Event) /\ bus[i] # <<>>
        /\ bus' = [bus EXCEPT ![i] = Tail(bus[i])]
        /\ bus \in [Instances -> Seq(Event)]
    BY <1>9 DEF Deliver, TypeOK
  <2>2. \A j \in Instances : \A k \in 1..Len(bus'[j]) :
           bus'[j][k].type = "new_message" => Heard(bus'[j][k].msg, bus'[j][k].to)
    BY <2>1 DEF AudienceInv
  <2>3. \A u \in Users : \A m \in Held(u)' : Heard(m, {u})
    <3>1. CASE Head(bus[i]).type = "new_message"
      <4>1. /\ Head(bus[i]).msg \in Ids
            /\ Heard(Head(bus[i]).msg, Head(bus[i]).to)
        BY <2>1, <3>1 DEF AudienceInv, Event
      <4>2. Heard(Head(bus[i]).msg, Reached(i, Head(bus[i]).to))
        BY <4>1 DEF Heard, Reached
      <4>3. ReceiveNew(Reached(i, Head(bus[i]).to), Head(bus[i]).msg)
        BY <1>9, <3>1 DEF Deliver
      <4>4. QED
        BY <4>1, <4>2, <4>3, ReceiveHeard DEF AudienceInv
    <3>2. CASE Head(bus[i]).type # "new_message"
      <4>1. \A u \in Users : Held(u)' \subseteq Held(u)
        BY <1>9, <3>2, DeletedHeld DEF Deliver
      <4>2. QED
        BY <4>1 DEF AudienceInv
    <3>3. QED
      BY <3>1, <3>2
  <2>4. QED
    BY <1>1, <2>1, <2>2, <2>3 DEF AudienceInv, Heard
<1>10. ASSUME NEW h \in Handlers, NEW mine \in BOOLEAN, FetchApply(h, mine)
       PROVE  FALSE
  BY <1>10 DEF FetchApply, AudienceInv, FetchPC
<1>11. QED
  BY <1>3, <1>4, <1>5, <1>6, <1>7, <1>8, <1>9, <1>10, NextCases

(* What reaches a browser by socket is only what was written while its user *)
(* was a participant, however sends and departures overlap.  (The history   *)
(* request is left out: it checks participation before it queries.)         *)
THEOREM AudienceOnlyCorrect ==
    ASSUME "fetch" \notin Ops
    PROVE  Spec => []AudienceOnly
<1>1. Init => AudienceInv
  BY DEF Init, AudienceInv, Idle, FetchPC, Held, Nothing
<1>2. AudienceInv /\ TypeOK /\ [Next]_vars => AudienceInv'
  BY AudienceStep
<1>3. AudienceInv => AudienceOnly
  BY DEF AudienceInv, AudienceOnly, Heard
<1>4. QED
  BY <1>1, <1>2, <1>3, TypeInvariant, PTL DEF Spec, TypeInv

--------------------------------------------------------------------------------
(* EmptyConversationDropped *)

ClosePC == {"count", "purge", "drop"}

(* Whoever takes the last participant row away is still there to count, and *)
(* once the count is zero it stays zero until the conversation is gone.     *)
EmptyInv ==
    /\ \A h \in Handlers : job[h].pc \in {"purge", "drop"} => members = {}
    /\ alive = FALSE => members = {} /\ rows = {}
    /\ members = {} => \/ alive = FALSE
                       \/ \E h \in Handlers : job[h].pc \in ClosePC

(* Steps that have nothing to do with closing the conversation. *)
LEMMA ElsewhereEmpty ==
    ASSUME EmptyInv, UNCHANGED <<alive, members>>,
           alive = FALSE => rows' \subseteq rows,
           NEW h \in Handlers, job[h].pc \notin ClosePC, job'[h].pc \notin ClosePC,
           \A g \in Handlers \ {h} : job'[g] = job[g]
    PROVE  EmptyInv'
<1>1. \A g \in Handlers : job'[g].pc \in ClosePC <=> job[g].pc \in ClosePC
  OBVIOUS
<1>2. \A g \in Handlers : job'[g].pc \in ClosePC => job'[g].pc = job[g].pc
  OBVIOUS
<1>3. QED
  BY <1>1, <1>2 DEF EmptyInv, ClosePC

LEMMA EmptyStep ==
    ASSUME "crash" \notin Ops, TypeOK, EmptyInv, [Next]_vars
    PROVE  EmptyInv'
<1> USE DEF At, db, browsers
<1>1. ASSUME NEW h \in Handlers, NEW u \in Users,
             \/ SendCheck(h, u)
             \/ \E m \in Ids : ReadUpdate(h, u, m)
             \/ ClearCheck(h, u)
             \/ \E wipe \in BOOLEAN : LeaveCheck(h, u, wipe)
             \/ FetchCheck(h, u)
      PROVE  EmptyInv'
  <2>1. /\ UNCHANGED <<alive, members, rows>>
        /\ job[h].pc = "idle"
    BY <1>1 DEF SendCheck, ReadUpdate, ClearCheck, LeaveCheck, FetchCheck, Start
  <2>2. \/ UNCHANGED job
        \/ \E pc \in BusyPC \ ClosePC, ms \in SUBSET Ids, wipe \in BOOLEAN :
              Start(h, pc, u, ms, wipe)
    BY <1>1 DEF SendCheck, ReadUpdate, ClearCheck, LeaveCheck, FetchCheck, BusyPC, ClosePC
  <2>3. job'[h].pc \notin ClosePC /\ \A g \in Handlers \ {h} : job'[g] = job[g]
    <3>1. CASE UNCHANGED job
      BY <2>1, <3>1 DEF ClosePC
    <3>2. ASSUME NEW pc \in BusyPC \ ClosePC, NEW ms, NEW wipe, Start(h, pc, u, ms, wipe)
          PROVE  job'[h].pc \notin ClosePC /\ \A g \in Handlers \ {h} : job'[g] = job[g]
      BY <3>2 DEF Start, TypeOK
    <3>3. QED
      BY <2>2, <3>1, <3>2
  <2>4. QED
    BY <2>1, <2>3, ElsewhereEmpty DEF ClosePC
<1>2. ASSUME NEW h \in Handlers,
             \/ SendMembers(h) \/ SendEmit(h) \/ ReadGetMembers(h) \/ ReadEmit(h)
             \/ ClearRows(h) \/ ClearMembers(h) \/ ClearPublish(h) \/ ClearDone(h)
             \/ LeaveWipe(h)
      PROVE  EmptyInv'
  <2>1. UNCHANGED <<alive, members>> /\ rows' \subseteq rows
    BY <1>2 DEF SendMembers, SendEmit, ReadGetMembers, ReadEmit, ClearRows, ClearMembers,
                ClearPublish, ClearDone, LeaveWipe, ReadMembers
  <2>2. /\ job[h].pc \notin ClosePC
        /\ job'[h].pc \notin ClosePC
        /\ \A g \in Handlers \ {h} : job'[g] = job[g]
    BY <1>2, MovePC
       DEF SendMembers, SendEmit, ReadGetMembers, ReadEmit, ClearRows, ClearMembers,
           ClearPublish, ClearDone, LeaveWipe, BusyPC, ClosePC
  <2>3. QED
    BY <2>1, <2>2, ElsewhereEmpty
<1>3. ASSUME NEW h \in Handlers, SendCreate(h)
      PROVE  EmptyInv'
  <2>1. job[h] \in Busy /\ job[h].pc = "create"
    BY <1>3, BusyJob DEF SendCreate
  <2>2. UNCHANGED <<alive, members>> /\ (alive = FALSE => rows' = rows)
    BY <1>3 DEF SendCreate
  <2>3. job'[h].pc \notin ClosePC /\ \A g \in Handlers \ {h} : job'[g] = job[g]
    <3>1. CASE ~alive
      BY <1>3, <3>1, MovePC DEF SendCreate, ClosePC
    <3>2. CASE alive
      BY <1>3, <2>1, <3>2 DEF SendCreate, Busy, TypeOK, ClosePC
    <3>3. QED
      BY <3>1, <3>2
  <2>4. QED
    BY <2>1, <2>2, <2>3, ElsewhereEmpty DEF ClosePC
<1>4. ASSUME NEW h \in Handlers, FetchQuery(h) \/ \E mine \in BOOLEAN : FetchApply(h, mine)
      PROVE  EmptyInv'
  <2>1. job[h] \in Busy /\ job[h].pc \in FetchPC
    BY <1>4, BusyJob DEF FetchQuery, FetchApply, FetchPC
  <2>2. job'[h].pc \notin ClosePC /\ \A g \in Handlers \ {h} : job'[g] = job[g]
    <3>1. CASE FetchQuery(h)
      BY <2>1, <3>1 DEF FetchQuery, Busy, TypeOK, ClosePC
    <3>2. CASE \E mine \in BOOLEAN : FetchApply(h, mine)
      BY <3>2, MovePC DEF FetchApply, ClosePC
    <3>3. QED
      BY <1>4, <3>1, <3>2
  <2>3. UNCHANGED <<alive, members, rows>>
    BY <1>4 DEF FetchQuery, FetchApply
  <2>4. QED
    BY <2>1, <2>2, <2>3, ElsewhereEmpty DEF ClosePC, FetchPC
<1>5. ASSUME NEW h \in Handlers, LeaveRow(h)
      PROVE  EmptyInv'
  <2>1. /\ job[h].pc = "leaveRow"
        /\ UNCHANGED <<alive, rows>>
        /\ members' \subseteq members
        /\ \A g \in Handlers \ {h} : job'[g] = job[g]
        /\ job'[h].pc \in {"count", "idle"}
        /\ job'[h].pc = "idle" => members' = members
    BY <1>5, MovePC DEF LeaveRow, BusyPC
  <2>2. QED
    BY <2>1 DEF EmptyInv, ClosePC
<1>6. ASSUME NEW h \in Handlers, LeaveCount(h)
      PROVE  EmptyInv'
  <2>1. /\ job[h].pc = "count"
        /\ UNCHANGED <<alive, rows, members>>
        /\ \A g \in Handlers \ {h} : job'[g] = job[g]
        /\ IF members # {} THEN job'[h].pc = "idle" ELSE job'[h].pc \in {"purge", "drop"}
    BY <1>6, MovePC DEF LeaveCount, BusyPC
  <2>2. QED
    BY <2>1 DEF EmptyInv, ClosePC
<1>7. ASSUME NEW h \in Handlers, LeavePurge(h)
      PROVE  EmptyInv'
  <2>1. /\ job[h].pc = "purge"
        /\ UNCHANGED <<alive, members>>
        /\ rows' = {}
        /\ \A g \in Handlers \ {h} : job'[g] = job[g]
        /\ job'[h].pc = "drop"
    BY <1>7, MovePC DEF LeavePurge, BusyPC
  <2>2. QED
    BY <2>1 DEF EmptyInv, ClosePC
<1>8. ASSUME NEW h \in Handlers, LeaveDrop(h)
      PROVE  EmptyInv'
  <2>1. /\ job[h].pc = "drop"
        /\ alive' = FALSE
        /\ members' = members
        /\ rows' = {}
        /\ \A g \in Handlers \ {h} : job'[g] = job[g]
        /\ job'[h].pc = "idle"
    BY <1>8, MovePC DEF LeaveDrop
  <2>2. QED
    BY <2>1 DEF EmptyInv, ClosePC
<1>9. CASE UNCHANGED <<alive, members, rows, job>>
  BY <1>9 DEF EmptyInv
<1>10. ASSUME NEW h \in Handlers, Crash(h)
       PROVE  FALSE
  BY <1>10 DEF Crash
<1>11. QED
  BY <1>1, <1>2, <1>3, <1>4, <1>5, <1>6, <1>7, <1>8, <1>9, <1>10
     DEF Next, Begin, Step, Deliver, ReadRetried, Disconnect, Reconnect, vars

(* However departures, sends and clearings overlap, the conversation is     *)
(* deleted when its last participant has gone and not before; only a crash  *)
(* between the row and the count can leave an empty one behind.             *)
THEOREM EmptyConversationDroppedCorrect ==
    ASSUME "crash" \notin Ops
    PROVE  Spec => []EmptyConversationDropped
<1>1. Init => EmptyInv
  BY UsersAssumption DEF Init, EmptyInv, Idle
<1>2. EmptyInv /\ TypeOK /\ [Next]_vars => EmptyInv'
  BY EmptyStep
<1>3. TypeOK /\ EmptyInv => EmptyConversationDropped
  <2> SUFFICES ASSUME TypeOK, EmptyInv, Quiet
               PROVE  /\ alive <=> members # {}
                      /\ ~alive => rows = {}
    BY DEF EmptyConversationDropped
  <2>1. \A h \in Handlers : job[h].pc \notin ClosePC
    BY DEF Quiet, At, ClosePC
  <2>2. alive \in BOOLEAN
    BY DEF TypeOK
  <2>3. QED
    BY <2>1, <2>2 DEF EmptyInv
<1>4. QED
  BY <1>1, <1>2, <1>3, TypeInvariant, PTL DEF Spec, TypeInv

--------------------------------------------------------------------------------
(* NothingLost *)

(* Message m is still to be announced to user u: its handler has not looked *)
(* up the recipients, or has u among them, or the event is on its way to    *)
(* u's instance.                                                            *)
OnItsWay(u, m) ==
    \/ \E h \in Handlers : job[h].pc = "sendMembers" /\ m \in job[h].msgs
    \/ \E h \in Handlers : job[h].pc = "emit" /\ m \in job[h].msgs /\ u \in job[h].to
    \/ \E k \in 1..Len(bus[at[u]]) : bus[at[u]][k].msg = m /\ u \in bus[at[u]][k].to

LostInv ==
    /\ \A h \in Handlers : job[h].pc \notin FetchPC /\ job[h].pc \notin ClearPC
    /\ \A h \in Handlers : job[h].pc \in SendPC => \E m \in Ids : job[h].msgs = {m}
    /\ at \in [Users -> Instances]
    /\ \A i \in Instances : \A k \in 1..Len(bus[i]) : bus[i][k].type = "new_message"
    /\ \A u \in members : \A m \in rows : m \in Held(u) \/ OnItsWay(u, m)

Undisturbed == Ops \intersect {"clear", "fetch", "disconnect", "crash"} = {}

(* A step that only shrinks the members and the rows and leaves the sends,  *)
(* the events and the screens alone loses nothing.                          *)
LEMMA SilentLost ==
    ASSUME TypeOK, LostInv, SendsKept, UNCHANGED <<shown, bus, at>>,
           members' \subseteq members, rows' \subseteq rows,
           \A h \in Handlers : job'[h].pc \notin FetchPC /\ job'[h].pc \notin ClearPC
    PROVE  LostInv'
<1>1. \A h \in Handlers : job[h].pc \in SendPC => job'[h] = job[h]
  BY DEF SendsKept
<1>2. \A u, m : OnItsWay(u, m) => OnItsWay(u, m)'
  BY <1>1 DEF OnItsWay, SendPC
<1>3. \A u \in Users : Held(u)' = Held(u)
  BY DEF Held
<1>4. \A u \in members' : \A m \in rows' : m \in Held(u)' \/ OnItsWay(u, m)'
  BY <1>2, <1>3 DEF LostInv, TypeOK
<1>5. \A h \in Handlers : job'[h].pc \in SendPC => \E m \in Ids : job'[h].msgs = {m}
  BY DEF SendsKept, LostInv
<1>6. QED
  BY <1>4, <1>5 DEF LostInv

(* A message that arrives is held from then on, and nothing else is dropped. *)
LEMMA ReceiveHeld ==
    ASSUME TypeOK, NEW us, NEW n \in Ids, ReceiveNew(us, n)
    PROVE  \A u \in Users : /\ Held(u) \subseteq Held(u)'
                            /\ u \in us => n \in Held(u)'
BY DEF ReceiveNew, AddMessage, Held, TypeOK

LEMMA LostStep ==
    ASSUME Undisturbed, TypeOK, Room, LostInv, [Next]_vars
    PROVE  LostInv'
<1> USE DEF At, db, browsers
<1>1. \A h \in Handlers : job'[h].pc \notin FetchPC /\ job'[h].pc \notin ClearPC
  BY NeverBegun DEF LostInv, Undisturbed
<1>2. members \subseteq Users
  BY DEF TypeOK
<1>3. CASE Silent
  <2>1. UNCHANGED at
    <3>1. ASSUME NEW u \in Users, Disconnect(u) \/ \E i \in Instances : Reconnect(u, i)
          PROVE  FALSE
      BY <3>1, OfflineAssumption DEF Disconnect, Reconnect, Undisturbed, LostInv
    <3>2. ASSUME NEW h \in Handlers, NEW u \in Users,
                 \/ SendCheck(h, u)
                 \/ \E m \in Ids : ReadUpdate(h, u, m)
                 \/ ClearCheck(h, u)
                 \/ \E wipe \in BOOLEAN : LeaveCheck(h, u, wipe)
                 \/ FetchCheck(h, u)
          PROVE  UNCHANGED at
      BY <3>2 DEF SendCheck, ReadUpdate, ClearCheck, LeaveCheck, FetchCheck
    <3>3. ASSUME NEW h \in Handlers,
                 \/ ReadGetMembers(h) \/ ReadEmit(h) \/ ClearRows(h) \/ ClearMembers(h)
                 \/ LeaveWipe(h) \/ LeaveRow(h) \/ LeaveCount(h) \/ LeavePurge(h)
                 \/ LeaveDrop(h) \/ FetchQuery(h)
          PROVE  UNCHANGED at
      BY <3>3 DEF ReadGetMembers, ReadEmit, ClearRows, ClearMembers, ReadMembers, LeaveWipe,
                  LeaveRow, LeaveCount, LeavePurge, LeaveDrop, FetchQuery
    <3>4. CASE UNCHANGED vars \/ \E u \in Users, m \in Ids : ReadRetried(u, m)
      BY <3>4 DEF ReadRetried, vars
    <3>5. QED
      BY <1>3, <3>1, <3>2, <3>3, <3>4 DEF Silent
  <2>2. QED
    BY <1>1, <1>3, <2>1, SilentFrame, SilentLost
<1>4. ASSUME NEW h \in Handlers, SendCreate(h)
      PROVE  LostInv'
  <2>1. job[h] \in Busy /\ job[h].pc = "create"
    BY <1>4, BusyJob DEF SendCreate
  <2>2. UNCHANGED <<members, bus, shown, at>> /\ \A g \in Handlers \ {h} : job'[g] = job[g]
    BY <1>4 DEF SendCreate, Finish, TypeOK
  <2>3. CASE ~alive
    <3>1. rows' = rows /\ job'[h].pc = "idle"
      BY <1>4, <2>3, MovePC DEF SendCreate
    <3>2. SendsKept
      BY <2>1, <2>2, <3>1, OneHandler DEF SendPC
    <3>3. QED
      BY <1>1, <2>2, <3>1, <3>2, SilentLost
  <2>4. CASE alive
    <3>n. PICK n \in Ids : n = Len(sentBy) + 1
      BY <1>4, NewId
    <3>1. /\ rows' = rows \union {n}
          /\ job'[h].pc = "sendMembers"
          /\ job'[h].msgs = {n}
      BY <1>4, <2>1, <2>4, <3>n DEF SendCreate, Busy, TypeOK
    <3>3. \A u, m : OnItsWay(u, m) => OnItsWay(u, m)'
      BY <2>1, <2>2 DEF OnItsWay
    <3>4. \A u : OnItsWay(u, n)'
      BY <3>1 DEF OnItsWay
    <3>5. \A u \in members' : \A m \in rows' : m \in Held(u)' \/ OnItsWay(u, m)'
      BY <2>2, <3>1, <3>3, <3>4 DEF LostInv, Held
    <3>6. \A g \in Handlers : job'[g].pc \in SendPC => \E m \in Ids : job'[g].msgs = {m}
      BY <2>2, <3>1 DEF LostInv
    <3>7. QED
      BY <1>1, <2>2, <3>5, <3>6 DEF LostInv
  <2>5. QED
    BY <2>3, <2>4
<1>5. ASSUME NEW h \in Handlers, SendMembers(h)
      PROVE  LostInv'
  <2>1. job[h] \in Busy /\ job[h].pc = "sendMembers"
    BY <1>5, BusyJob DEF SendMembers
  <2>2. /\ UNCHANGED <<members, rows, bus, shown, at>>
        /\ \A g \in Handlers \ {h} : job'[g] = job[g]
        /\ job'[h].pc = "emit" /\ job'[h].msgs = job[h].msgs /\ job'[h].to = members
    BY <1>5, <2>1 DEF SendMembers, ReadMembers, TypeOK, Busy
  <2>3. \A u \in members : \A m : OnItsWay(u, m) => OnItsWay(u, m)'
    BY <2>1, <2>2 DEF OnItsWay
  <2>4. \A u \in members' : \A m \in rows' : m \in Held(u)' \/ OnItsWay(u, m)'
    BY <2>2, <2>3 DEF LostInv, Held
  <2>5. \A g \in Handlers : job'[g].pc \in SendPC => \E m \in Ids : job'[g].msgs = {m}
    BY <2>1, <2>2 DEF LostInv, SendPC
  <2>6. QED
    BY <1>1, <2>2, <2>4, <2>5 DEF LostInv
<1>6. ASSUME NEW h \in Handlers, SendEmit(h)
      PROVE  LostInv'
  <2>1. job[h] \in Busy /\ job[h].pc = "emit"
    BY <1>6, BusyJob DEF SendEmit
  <2>2. PICK n \in job[h].msgs :
           /\ ReceiveNew(Reached(job[h].inst, job[h].to), n)
           /\ Publish([type |-> "new_message", msg |-> n, to |-> job[h].to])
    BY <1>6 DEF SendEmit
  <2>3. job[h].msgs = {n} /\ n \in Ids
    BY <2>1, <2>2 DEF LostInv, SendPC, Busy
  <2>4. /\ UNCHANGED <<members, rows, at>>
        /\ \A g \in Handlers \ {h} : job'[g] = job[g]
        /\ job'[h].pc = "idle"
    BY <1>6, MovePC DEF SendEmit
  <2>5. /\ \A i \in Instances : \A k \in 1..Len(bus[i]) :
              k \in 1..Len(bus'[i]) /\ bus'[i][k] = bus[i][k]
        /\ \A i \in Instances :
              /\ Len(bus'[i]) = Len(bus[i]) + 1
              /\ Len(bus[i]) \in Nat
              /\ bus'[i][Len(bus[i]) + 1] =
                    [type |-> "new_message", msg |-> n, to |-> job[h].to]
    BY <2>2 DEF Publish, TypeOK
  <2>6. \A u \in Users : \A m : OnItsWay(u, m) => OnItsWay(u, m)'
    <3>1. SUFFICES ASSUME NEW u \in Users, NEW m, OnItsWay(u, m)
                   PROVE  OnItsWay(u, m)'
      OBVIOUS
    <3>2. at[u] \in Instances /\ at' = at
      BY <2>4 DEF LostInv
    <3>3. CASE m = n /\ u \in job[h].to
      <4>1. Len(bus[at[u]]) + 1 \in 1..Len(bus'[at[u]])
        BY <2>5, <3>2
      <4>2. /\ bus'[at'[u]][Len(bus[at[u]]) + 1].msg = m
            /\ u \in bus'[at'[u]][Len(bus[at[u]]) + 1].to
        BY <2>5, <3>2, <3>3
      <4>3. QED
        BY <3>2, <4>1, <4>2 DEF OnItsWay
    <3>4. CASE \E g \in Handlers : job[g].pc = "sendMembers" /\ m \in job[g].msgs
      BY <2>1, <2>4, <3>4 DEF OnItsWay
    <3>5. CASE \E g \in Handlers \ {h} : /\ job[g].pc = "emit"
                                         /\ m \in job[g].msgs /\ u \in job[g].to
      BY <2>4, <3>5 DEF OnItsWay
    <3>6. CASE \E k \in 1..Len(bus[at[u]]) : bus[at[u]][k].msg = m /\ u \in bus[at[u]][k].to
      BY <2>5, <3>2, <3>6 DEF OnItsWay
    <3>7. QED
      BY <2>3, <3>1, <3>3, <3>4, <3>5, <3>6 DEF OnItsWay
  <2>7. \A u \in Users : Held(u) \subseteq Held(u)'
    BY <2>2, <2>3, ReceiveHeld
  <2>8. \A u \in members' : \A m \in rows' : m \in Held(u)' \/ OnItsWay(u, m)'
    BY <1>2, <2>4, <2>6, <2>7 DEF LostInv
  <2>9. \A i \in Instances : \A k \in 1..Len(bus'[i]) : bus'[i][k].type = "new_message"
    <3>1. ASSUME NEW i \in Instances, NEW k \in 1..Len(bus'[i])
          PROVE  bus'[i][k].type = "new_message"
      <4>1. k \in 1..Len(bus[i]) \/ k = Len(bus[i]) + 1
        BY <2>5
      <4>2. QED
        BY <2>5, <4>1 DEF LostInv
    <3>2. QED
      BY <3>1
  <2>10. \A g \in Handlers : job'[g].pc \in SendPC => \E m \in Ids : job'[g].msgs = {m}
    BY <2>4 DEF LostInv, SendPC
  <2>11. QED
    BY <1>1, <2>4, <2>8, <2>9, <2>10 DEF LostInv
<1>7. ASSUME NEW i \in Instances, Deliver(i)
      PROVE  LostInv'
  <2>1. /\ UNCHANGED <<members, rows, at, job>>
        /\ bus[i] \in Seq(Event) /\ bus[i] # <<>>
        /\ bus' = [bus EXCEPT ![i] = Tail(bus[i])]
        /\ bus \in [Instances -> Seq(Event)]
    BY <1>7 DEF Deliver, TypeOK
  <2> DEFINE e == Head(bus[i])
  <2>2. e = bus[i][1] /\ e \in Event /\ e.type = "new_message" /\ e.msg \in Ids
    BY <2>1 DEF LostInv, Event
  <2>3. ReceiveNew(Reached(i, e.to), e.msg)
    BY <1>7, <2>2 DEF Deliver
  <2>4. \A u \in Users : /\ Held(u) \subseteq Held(u)'
                         /\ u \in Reached(i, e.to) => e.msg \in Held(u)'
    BY <2>2, <2>3, ReceiveHeld
  <2> HIDE DEF e
  <2>5. ASSUME NEW u \in Users, NEW m, OnItsWay(u, m)
        PROVE  m \in Held(u)' \/ OnItsWay(u, m)'
    <3>1. at[u] \in Instances
      BY DEF LostInv
    <3>2. CASE \/ \E h \in Handlers : job[h].pc = "sendMembers" /\ m \in job[h].msgs
               \/ \E h \in Handlers : /\ job[h].pc = "emit" /\ m \in job[h].msgs
                                      /\ u \in job[h].to
      BY <2>1, <3>2 DEF OnItsWay
    <3>3. ASSUME NEW k \in 1..Len(bus[at[u]]), bus[at[u]][k].msg = m, u \in bus[at[u]][k].to
          PROVE  m \in Held(u)' \/ OnItsWay(u, m)'
      <4>1. CASE at[u] # i
        BY <2>1, <3>1, <3>3, <4>1 DEF OnItsWay
      <4>2. CASE at[u] = i /\ k = 1
        BY <2>2, <2>4, <3>3, <4>2 DEF Reached
      <4>3. CASE at[u] = i /\ k # 1
        <5>1. k - 1 \in 1..Len(bus'[i]) /\ bus'[i][k - 1] = bus[i][k]
          BY <2>1, <3>3, <4>3
        <5>2. QED
          BY <2>1, <3>3, <4>3, <5>1 DEF OnItsWay
      <4>4. QED
        BY <4>1, <4>2, <4>3
    <3>4. QED
      BY <2>5, <3>2, <3>3 DEF OnItsWay
  <2>6. \A u \in members' : \A m \in rows' : m \in Held(u)' \/ OnItsWay(u, m)'
    BY <1>2, <2>1, <2>4, <2>5 DEF LostInv
  <2>7. \A j \in Instances : \A k \in 1..Len(bus'[j]) : bus'[j][k].type = "new_message"
    BY <2>1 DEF LostInv
  <2>8. QED
    BY <1>1, <2>1, <2>6, <2>7 DEF LostInv
<1>8. ASSUME NEW h \in Handlers,
             \/ ClearPublish(h) \/ ClearDone(h)
             \/ \E mine \in BOOLEAN : FetchApply(h, mine)
             \/ Crash(h)
      PROVE  FALSE
  BY <1>8 DEF ClearPublish, ClearDone, FetchApply, Crash, LostInv, FetchPC, ClearPC,
              Undisturbed
<1>9. QED
  BY <1>3, <1>4, <1>5, <1>6, <1>7, <1>8, NextCases

(* As long as nobody clears the history, reloads it, loses the connection   *)
(* or is served by a process that dies, every message of the conversation   *)
(* reaches the browser of every participant, on whichever instance, for any *)
(* number of overlapping sends and departures.                              *)
THEOREM NothingLostCorrect ==
    ASSUME Undisturbed
    PROVE  Spec => []NothingLost
<1>1. Init => LostInv
  BY DEF Init, LostInv, Idle, FetchPC, ClearPC, SendPC
<1>2. TypeOK /\ Room /\ LostInv /\ [Next]_vars => LostInv'
  BY LostStep
<1>3. TypeOK /\ LostInv => NothingLost
  <2> SUFFICES ASSUME TypeOK, LostInv, Quiet, NEW u \in Users, Current(u)
               PROVE  rows \subseteq Held(u)
    BY DEF NothingLost
  <2>1. ~ \E m : OnItsWay(u, m)
    BY DEF Quiet, At, OnItsWay, LostInv
  <2>2. QED
    BY <2>1 DEF LostInv, Current
<1>4. QED
  BY <1>1, <1>2, <1>3, TypeInvariant, PTL DEF Spec, TypeInv
--------------------------------------------------------------------------------
(* NoGhosts: with one handler at a time, a deleted message a browser shows, or is *)
(* about to be sent, is followed by the event that empties its list.              *)

OneAtATime == \A g, h \in Handlers : g = h

Queue(u) == bus[at[u]]

(* the events waiting in the queue of u's instance that concern u *)
Deletes(u, j) == Queue(u)[j].type = "messages_deleted" /\ u \in Queue(u)[j].to
Announces(u, k, m) ==
    /\ Queue(u)[k].type = "new_message"
    /\ Queue(u)[k].msg = m
    /\ u \in Queue(u)[k].to

(* what u's browser shows after event k will be emptied *)
WillEmpty(u) ==
    \E h \in Handlers : \/ job[h].pc = "clearMembers"
                        \/ job[h].pc = "publishCleared" /\ u \in job[h].to
Doomed(u, k) ==
    WillEmpty(u) \/ \E j \in 1..Len(Queue(u)) : j > k /\ Deletes(u, j)

GhostsDoomed(u) ==
    /\ \A m \in Held(u) \ rows : Doomed(u, 0)
    /\ \A k \in 1..Len(Queue(u)), m \in Ids \ rows : Announces(u, k, m) => Doomed(u, k)

(* a page without a connection may miss something *)
OfflineMissed == \A u \in Users : at[u] = Offline => u \in missed

(* what a handler carries is still so, since no other handler runs *)
LocalsHold ==
    \A h \in Handlers :
        /\ job[h].pc # "wipe"
        /\ job[h].pc \in {"purge", "drop"} => members = {}
        /\ job[h].pc \in {"sendMembers", "emit", "apply"} => job[h].msgs \subseteq rows

GhostInv ==
    /\ OfflineMissed
    /\ LocalsHold
    /\ \A u \in Users : Current(u) => GhostsDoomed(u)

(* The connections, and what they may have cost, change in few steps. *)
LEMMA OfflineMissedStep ==
    ASSUME TypeOK, OfflineMissed, [Next]_vars
    PROVE  OfflineMissed'
<1> USE DEF db, browsers
<1>1. ASSUME NEW h \in Handlers, NEW mine \in BOOLEAN, FetchApply(h, mine)
      PROVE  OfflineMissed'
  BY <1>1 DEF FetchApply, OfflineMissed
<1>2. ASSUME NEW h \in Handlers, Crash(h)
      PROVE  OfflineMissed'
  <2>1. missed' = Users \/ missed' = missed
    BY <1>2 DEF Crash
  <2>2. QED
    BY <1>2, <2>1 DEF Crash, OfflineMissed
<1>3. ASSUME NEW u \in Users, Disconnect(u)
      PROVE  OfflineMissed'
  BY <1>3 DEF Disconnect, OfflineMissed, TypeOK
<1>4. ASSUME NEW u \in Users, NEW i \in Instances, Reconnect(u, i)
      PROVE  OfflineMissed'
  BY <1>4, OfflineAssumption DEF Reconnect, OfflineMissed, TypeOK
<1>5. ASSUME UNCHANGED <<at, missed>>
      PROVE  OfflineMissed'
  BY <1>5 DEF OfflineMissed
<1>6. ASSUME NEW h \in Handlers,
             \/ SendCreate(h) \/ SendMembers(h) \/ SendEmit(h)
             \/ ReadGetMembers(h) \/ ReadEmit(h)
             \/ ClearRows(h) \/ ClearMembers(h) \/ ClearPublish(h) \/ ClearDone(h)
             \/ LeaveWipe(h) \/ LeaveRow(h) \/ LeaveCount(h) \/ LeavePurge(h) \/ LeaveDrop(h)
             \/ FetchQuery(h)
      PROVE  UNCHANGED <<at, missed>>
  BY <1>6 DEF SendCreate, SendMembers, SendEmit, ReadGetMembers, ReadEmit, ClearRows,
              ClearMembers, ClearPublish, ClearDone, LeaveWipe, LeaveRow, LeaveCount,
              LeavePurge, LeaveDrop, FetchQuery, ReadMembers
<1>7. ASSUME NEW h \in Handlers, Begin(h)
      PROVE  UNCHANGED <<at, missed>>
  BY <1>7 DEF Begin, SendCheck, ReadUpdate, ClearCheck, LeaveCheck, FetchCheck
<1>8. CASE \/ \E i \in Instances : Deliver(i)
           \/ \E u \in Users, m \in Ids : ReadRetried(u, m)
           \/ UNCHANGED vars
  <2>1. UNCHANGED <<at, missed>>
    BY <1>8 DEF Deliver, ReadRetried, vars
  <2>2. QED
    BY <2>1, <1>5
<1>9. QED
  BY <1>1, <1>2, <1>3, <1>4, <1>5, <1>6, <1>7, <1>8 DEF Next, Step

(* Where the running handler goes and what it carries. *)
LEMMA Carries ==
    ASSUME TypeOK, NEW h \in Handlers, job[h] \in Busy, NEW pc \in BusyPC
    PROVE  /\ Goto(h, pc) => job'[h] = [job[h] EXCEPT !.pc = pc]
           /\ Goto(h, pc) => /\ job'[h].pc = pc
                             /\ job'[h].msgs = job[h].msgs
                             /\ job'[h].to = job[h].to
                             /\ job'[h].user = job[h].user
           /\ ReadMembers(h, pc) => /\ job'[h].pc = pc
                                    /\ job'[h].msgs = job[h].msgs
                                    /\ job'[h].to = members
<1>1. /\ job \in [Handlers -> Busy \union {Idle}]
      /\ DOMAIN job[h] = {"pc", "user", "inst", "msgs", "read", "to", "wipe"}
  BY DEF TypeOK, Busy
<1>2. Goto(h, pc) => job'[h] = [job[h] EXCEPT !.pc = pc]
  BY <1>1 DEF Goto
<1>3. ReadMembers(h, pc) => job'[h] = [job[h] EXCEPT !.pc = pc, !.to = members]
  BY <1>1 DEF ReadMembers
<1>4. QED
  BY <1>1, <1>2, <1>3

LEMMA LocalsHoldStep ==
    ASSUME OneAtATime, "leaveWipe" \notin Ops, TypeOK, LocalsHold, [Next]_vars
    PROVE  LocalsHold'
<1> USE DEF At, db, browsers
<1>1. ASSUME NEW h \in Handlers, Begin(h)
      PROVE  LocalsHold'
  <2>1. /\ job'[h].pc \notin {"wipe", "purge", "drop", "sendMembers", "emit"}
        /\ job'[h].pc = "apply" => job'[h].msgs = {}
    BY <1>1 DEF Begin, SendCheck, ReadUpdate, ClearCheck, LeaveCheck, FetchCheck, Start, TypeOK
  <2>2. QED
    BY <2>1 DEF LocalsHold, OneAtATime
<1>2. ASSUME NEW h \in Handlers, SendCreate(h)
      PROVE  LocalsHold'
  <2>1. \/ job'[h].pc = "idle"
        \/ /\ job'[h].pc = "sendMembers"
           /\ job'[h].msgs = {Len(sentBy) + 1}
           /\ rows' = rows \union {Len(sentBy) + 1}
    <3>1. job[h] \in Busy
      BY <1>2, BusyJob DEF SendCreate
    <3>2. QED
      BY <1>2, <3>1 DEF SendCreate, Finish, Idle, TypeOK, Busy
  <2>2. QED
    BY <2>1 DEF LocalsHold, OneAtATime
<1>3. ASSUME NEW h \in Handlers, SendMembers(h)
      PROVE  LocalsHold'
  <2>1. job[h] \in Busy /\ job[h].pc = "sendMembers"
    BY <1>3, BusyJob DEF SendMembers
  <2>2. job'[h].pc = "emit" /\ job'[h].msgs = job[h].msgs /\ UNCHANGED rows
    BY <1>3, <2>1, Carries DEF SendMembers, ReadMembers, BusyPC
  <2>3. QED
    BY <2>1, <2>2 DEF LocalsHold, OneAtATime
<1>4. ASSUME NEW h \in Handlers,
             \/ ReadGetMembers(h) \/ ClearRows(h) \/ ClearMembers(h) \/ ClearPublish(h)
             \/ LeaveRow(h)
      PROVE  LocalsHold'
  <2>1. job[h] \in Busy
    BY <1>4, BusyJob DEF ReadGetMembers, ClearRows, ClearMembers, ClearPublish, LeaveRow
  <2>2. job'[h].pc \in {"emitRead", "clearMembers", "publishCleared", "cleared", "count", "idle"}
    BY <1>4, <2>1, Carries, MovePC
       DEF ReadGetMembers, ClearRows, ClearMembers, ClearPublish, LeaveRow, BusyPC
  <2>3. QED
    BY <2>2 DEF LocalsHold, OneAtATime
<1>5. ASSUME NEW h \in Handlers,
             \/ SendEmit(h) \/ ReadEmit(h) \/ ClearDone(h) \/ LeaveDrop(h) \/ Crash(h)
             \/ \E mine \in BOOLEAN : FetchApply(h, mine)
      PROVE  LocalsHold'
  <2>1. job'[h].pc = "idle"
    BY <1>5, MovePC DEF SendEmit, ReadEmit, ClearDone, LeaveDrop, Crash, FetchApply
  <2>2. QED
    BY <2>1 DEF LocalsHold, OneAtATime
<1>6. ASSUME NEW h \in Handlers, LeaveCount(h) \/ LeavePurge(h)
      PROVE  LocalsHold'
  <2>1. job[h] \in Busy
    BY <1>6, BusyJob DEF LeaveCount, LeavePurge
  <2>2. \/ job'[h].pc = "idle"
        \/ job'[h].pc \in {"purge", "drop"} /\ members = {} /\ members' = {}
    BY <1>6, <2>1, Carries, MovePC DEF LeaveCount, LeavePurge, LocalsHold, BusyPC
  <2>3. QED
    BY <2>2 DEF LocalsHold, OneAtATime
<1>7. ASSUME NEW h \in Handlers, LeaveWipe(h)
      PROVE  LocalsHold'
  BY <1>7 DEF LeaveWipe, LocalsHold
<1>8. ASSUME NEW h \in Handlers, FetchQuery(h)
      PROVE  LocalsHold'
  <2>1. job[h] \in Busy
    BY <1>8, BusyJob DEF FetchQuery
  <2>2. job'[h].pc = "apply" /\ job'[h].msgs = Page(rows) /\ UNCHANGED rows
    BY <1>8, <2>1 DEF FetchQuery, TypeOK, Busy
  <2>3. Page(rows) \subseteq rows
    BY DEF Page
  <2>4. QED
    BY <2>2, <2>3 DEF LocalsHold, OneAtATime
<1>9. CASE \/ \E i \in Instances : Deliver(i)
           \/ \E u \in Users : \/ \E m \in Ids : ReadRetried(u, m)
                               \/ Disconnect(u)
                               \/ \E i \in Instances : Reconnect(u, i)
           \/ UNCHANGED vars
  <2>1. UNCHANGED <<job, members, rows>>
    BY <1>9 DEF Deliver, ReadRetried, Disconnect, Reconnect, vars
  <2>2. QED
    BY <2>1 DEF LocalsHold
<1>10. QED
  BY <1>1, <1>2, <1>3, <1>4, <1>5, <1>6, <1>7, <1>8, <1>9 DEF Next, Step

(* Nothing of what a browser shows or will hear changes, nor the promise to empty it. *)
LEMMA GhostFrame ==
    ASSUME NEW u \in Users, GhostsDoomed(u), UNCHANGED <<rows, bus, shown>>,
           at'[u] = at[u], WillEmpty(u) => WillEmpty(u)'
    PROVE  GhostsDoomed(u)'
<1>1. /\ Queue(u)' = Queue(u)
      /\ Held(u)' = Held(u)
      /\ \A j : Deletes(u, j)' <=> Deletes(u, j)
      /\ \A k, m : Announces(u, k, m)' <=> Announces(u, k, m)
  BY DEF Queue, Held, Deletes, Announces
<1>2. \A k : Doomed(u, k) => Doomed(u, k)'
  BY <1>1 DEF Doomed
<1>3. QED
  BY <1>1, <1>2 DEF GhostsDoomed

(* An event put at the end of every queue: the deletions before it stay, and a *)
(* deletion at the end dooms all that was before it.                           *)
LEMMA GhostPublish ==
    ASSUME TypeOK, NEW u \in Users, at[u] \in Instances, UNCHANGED <<rows, at>>,
           NEW e \in Event, Publish(e), GhostsDoomed(u),
           e.type = "new_message" => e.msg \in rows,
           WillEmpty(u) => e.type = "messages_deleted" /\ u \in e.to,
           Held(u)' \subseteq Held(u) \union rows
    PROVE  GhostsDoomed(u)'
<1>0. PICK n : n = Len(Queue(u))
  OBVIOUS
<1>1. /\ n \in Nat
      /\ Len(Queue(u)') = n + 1
      /\ \A k \in 1..n : Queue(u)'[k] = Queue(u)[k]
      /\ Queue(u)'[n + 1] = e
  BY <1>0 DEF Publish, Queue, TypeOK
<1>2. \A k \in 1..n : /\ Deletes(u, k)' <=> Deletes(u, k)
                      /\ \A m : Announces(u, k, m)' <=> Announces(u, k, m)
  BY <1>1 DEF Deletes, Announces
<1>3. WillEmpty(u) => Deletes(u, n + 1)'
  BY <1>1 DEF Deletes
<1>4. \A k \in 0..n : Doomed(u, k) => Doomed(u, k)'
  <2>1. ASSUME NEW k \in 0..n, WillEmpty(u)
        PROVE  Doomed(u, k)'
    <3>1. n + 1 \in 1..Len(Queue(u)') /\ n + 1 > k
      BY <1>1
    <3>2. QED
      BY <1>3, <2>1, <3>1 DEF Doomed
  <2>2. ASSUME NEW k \in 0..n, NEW j \in 1..n, j > k, Deletes(u, j)
        PROVE  Doomed(u, k)'
    <3>1. j \in 1..Len(Queue(u)') /\ Deletes(u, j)'
      BY <1>1, <1>2, <2>2
    <3>2. QED
      BY <2>2, <3>1 DEF Doomed
  <2>3. QED
    BY <1>0, <2>1, <2>2 DEF Doomed
<1>5. 0 \in 0..n /\ \A k \in 1..n : k \in 0..n
  BY <1>1
<1>6. \A m \in Held(u)' \ rows' : Doomed(u, 0)'
  <2>1. \A m \in Held(u)' \ rows' : m \in Held(u) \ rows
    OBVIOUS
  <2>2. QED
    BY <1>4, <1>5, <2>1 DEF GhostsDoomed
<1>7. ASSUME NEW k \in 1..Len(Queue(u)'), NEW m \in Ids \ rows', Announces(u, k, m)'
      PROVE  Doomed(u, k)'
  <2>1. CASE k \in 1..n
    BY <1>0, <1>2, <1>4, <1>5, <1>7, <2>1 DEF GhostsDoomed
  <2>2. CASE k = n + 1
    BY <1>1, <1>7, <2>2 DEF Announces
  <2>3. QED
    BY <1>1, <1>7, <2>1, <2>2
<1>8. QED
  BY <1>6, <1>7 DEF GhostsDoomed

(* Handling the oldest event of a queue moves the others one place forward. *)
LEMMA GhostDeliver ==
    ASSUME TypeOK, NEW i \in Instances, Deliver(i), NEW u \in Users, at[u] \in Instances,
           GhostsDoomed(u)
    PROVE  GhostsDoomed(u)'
<1> USE DEF db, browsers
<1>1. /\ UNCHANGED <<rows, at, job>>
      /\ bus[i] \in Seq(Event) /\ bus[i] # <<>>
      /\ bus' = [bus EXCEPT ![i] = Tail(bus[i])]
      /\ bus \in [Instances -> Seq(Event)]
  BY DEF Deliver, TypeOK
<1> DEFINE e == Head(bus[i])
<1>2. e = bus[i][1] /\ e \in Event
  BY <1>1
<1>3. e.type = "new_message" => e.msg \in Ids /\ ReceiveNew(Reached(i, e.to), e.msg)
  BY <1>2 DEF Deliver, Event
<1>4. e.type # "new_message" => e.type = "messages_deleted" /\ ReceiveDeleted(Reached(i, e.to))
  BY <1>2 DEF Deliver, Event
<1>5. WillEmpty(u)' <=> WillEmpty(u)
  BY <1>1 DEF WillEmpty
<1> HIDE DEF e
<1>6. CASE at[u] # i
  <2>1. shown'[u] = shown[u]
    BY <1>3, <1>4, <1>6 DEF ReceiveNew, ReceiveDeleted, Reached, TypeOK
  <2>2. Queue(u)' = Queue(u) /\ Held(u)' = Held(u)
    BY <1>1, <1>6, <2>1 DEF Queue, Held
  <2>3. /\ \A j : Deletes(u, j)' <=> Deletes(u, j)
        /\ \A k, m : Announces(u, k, m)' <=> Announces(u, k, m)
    BY <2>2 DEF Deletes, Announces
  <2>4. \A k : Doomed(u, k) => Doomed(u, k)'
    BY <1>5, <2>2, <2>3 DEF Doomed
  <2>5. QED
    BY <1>1, <2>2, <2>3, <2>4 DEF GhostsDoomed
<1>7. CASE at[u] = i
  <2> DEFINE n == Len(Queue(u))
  <2>1. /\ n \in Nat /\ n >= 1
        /\ Len(Queue(u)') = n - 1
        /\ \A k \in 1..(n - 1) : Queue(u)'[k] = Queue(u)[k + 1]
        /\ Queue(u)[1] = e
    BY <1>1, <1>2, <1>7 DEF Queue
  <2>2. \A k \in 1..(n - 1) : /\ Deletes(u, k)' <=> Deletes(u, k + 1)
                              /\ \A m : Announces(u, k, m)' <=> Announces(u, k + 1, m)
    BY <2>1 DEF Deletes, Announces
  <2> HIDE DEF n
  <2>3. ASSUME NEW k \in 0..(n - 1), Doomed(u, k + 1)
        PROVE  Doomed(u, k)'
    <3>1. CASE WillEmpty(u)
      BY <1>5, <3>1 DEF Doomed
    <3>2. ASSUME NEW j \in 1..n, j > k + 1, Deletes(u, j)
          PROVE  Doomed(u, k)'
      <4>1. /\ j - 1 \in 1..(n - 1) /\ j - 1 > k /\ (j - 1) + 1 = j
            /\ j - 1 \in 1..Len(Queue(u)')
        BY <2>1, <2>3, <3>2
      <4>2. Deletes(u, j - 1)'
        BY <2>2, <3>2, <4>1
      <4>3. QED
        BY <4>1, <4>2 DEF Doomed
    <3>3. QED
      BY <2>3, <3>1, <3>2 DEF Doomed, n
  <2>4. ASSUME NEW m \in Held(u)' \ rows'
        PROVE  Doomed(u, 0)'
    <3>1. CASE e.type = "new_message" /\ u \in e.to /\ m = e.msg
      <4>1. Announces(u, 1, m) /\ 1 \in 1..Len(Queue(u)) /\ m \in Ids
        BY <1>3, <2>1, <3>1 DEF Announces, n
      <4>2. Doomed(u, 1)
        BY <1>1, <4>1 DEF GhostsDoomed
      <4>3. QED
        BY <2>1, <2>3, <4>2
    <3>2. CASE ~(e.type = "new_message" /\ u \in e.to /\ m = e.msg)
      <4>1. m \in Held(u)
        <5>1. CASE e.type = "new_message"
          <6>1. shown'[u] = shown[u] \/ (u \in e.to /\ shown'[u] = AddMessage(shown[u], e.msg))
            BY <1>3, <5>1 DEF ReceiveNew, Reached
          <6>2. shown[u] \in [Ids -> Nat] /\ m \in Ids /\ shown'[u][m] > 0
            BY <2>4 DEF Held, TypeOK
          <6>3. shown[u][m] > 0
            BY <3>2, <5>1, <6>1, <6>2 DEF AddMessage
          <6>4. QED
            BY <6>2, <6>3 DEF Held
        <5>2. CASE e.type # "new_message"
          BY <1>4, <5>2 DEF ReceiveDeleted, Held, SetMessages
        <5>3. QED
          BY <5>1, <5>2
      <4>2. ~(e.type = "messages_deleted" /\ u \in e.to)
        BY <1>4, <1>7 DEF ReceiveDeleted, Reached, Held, SetMessages
      <4>3. Doomed(u, 0) /\ ~Deletes(u, 1)
        BY <1>1, <2>1, <4>1, <4>2 DEF GhostsDoomed, Deletes
      <4>4. Doomed(u, 1)
        <5>1. CASE WillEmpty(u)
          BY <5>1 DEF Doomed
        <5>2. ASSUME NEW j \in 1..n, Deletes(u, j)
              PROVE  Doomed(u, 1)
          <6>1. j # 1
            BY <4>3, <5>2
          <6>2. j > 1 /\ j \in 1..Len(Queue(u))
            BY <2>1, <6>1 DEF n
          <6>3. QED
            BY <5>2, <6>2 DEF Doomed
        <5>3. QED
          BY <4>3, <5>1, <5>2 DEF Doomed, n
      <4>5. QED
        BY <2>1, <2>3, <4>4
    <3>3. QED
      BY <3>1, <3>2
  <2>5. ASSUME NEW k \in 1..Len(Queue(u)'), NEW m \in Ids \ rows', Announces(u, k, m)'
        PROVE  Doomed(u, k)'
    <3>1. k \in 1..(n - 1) /\ k + 1 \in 1..Len(Queue(u)) /\ k \in 0..(n - 1)
      BY <2>1 DEF n
    <3>2. Doomed(u, k + 1)
      BY <1>1, <2>2, <2>5, <3>1 DEF GhostsDoomed
    <3>3. QED
      BY <2>3, <3>1, <3>2
  <2>6. QED
    BY <2>4, <2>5 DEF GhostsDoomed
<1>8. QED
  BY <1>6, <1>7

LEMMA GhostStep ==
    ASSUME OneAtATime, "leaveWipe" \notin Ops, TypeOK, GhostInv, [Next]_vars,
           NEW u \in Users, Current(u)'
    PROVE  GhostsDoomed(u)'
<1> USE DEF At, db, browsers
<1>a. OfflineMissed /\ LocalsHold
  BY DEF GhostInv
<1>b. Current(u) => GhostsDoomed(u) /\ at[u] \in Instances
  BY DEF GhostInv, Current, TypeOK
<1>1. ASSUME NEW h \in Handlers,
             \/ Begin(h)
             \/ SendMembers(h) \/ ReadGetMembers(h) \/ ReadEmit(h)
             \/ LeaveRow(h) \/ LeaveCount(h) \/ FetchQuery(h)
      PROVE  GhostsDoomed(u)'
  <2>1. /\ UNCHANGED <<rows, bus, shown, at, missed>>
        /\ members' \subseteq members
    BY <1>1 DEF Begin, SendCheck, ReadUpdate, ClearCheck, LeaveCheck, FetchCheck, SendMembers,
                ReadGetMembers, ReadEmit, LeaveRow, LeaveCount, FetchQuery, ReadMembers,
                ReceiveRead
  <2>2. job[h].pc \notin {"clearMembers", "publishCleared"}
    BY <1>1 DEF Begin, SendCheck, ReadUpdate, ClearCheck, LeaveCheck, FetchCheck, SendMembers,
                ReadGetMembers, ReadEmit, LeaveRow, LeaveCount, FetchQuery, Start
  <2>3. ~WillEmpty(u)
    BY <2>2 DEF WillEmpty, OneAtATime
  <2>4. Current(u)
    BY <2>1 DEF Current
  <2>5. QED
    BY <1>b, <2>1, <2>3, <2>4, GhostFrame
<1>2. CASE \/ \E v \in Users : \/ \E m \in Ids : ReadRetried(v, m)
                               \/ Disconnect(v)
           \/ UNCHANGED vars
  <2>1. UNCHANGED <<rows, bus, shown, job, members>>
    BY <1>2 DEF ReadRetried, Disconnect, vars
  <2>2. Current(u) /\ at'[u] = at[u]
    BY <1>2 DEF ReadRetried, Disconnect, vars, Current, TypeOK
  <2>3. WillEmpty(u)' <=> WillEmpty(u)
    BY <2>1 DEF WillEmpty
  <2>4. QED
    BY <1>b, <2>1, <2>2, <2>3, GhostFrame
<1>3. ASSUME NEW v \in Users, NEW i \in Instances, Reconnect(v, i)
      PROVE  GhostsDoomed(u)'
  <2>1. UNCHANGED <<rows, bus, shown, job, members, missed>> /\ v \in missed
    BY <1>3, <1>a DEF Reconnect, OfflineMissed
  <2>2. u # v /\ at'[u] = at[u]
    BY <1>3, <2>1 DEF Reconnect, Current, TypeOK
  <2>3. Current(u)
    BY <2>1, <2>2 DEF Current
  <2>4. WillEmpty(u)' <=> WillEmpty(u)
    BY <2>1 DEF WillEmpty
  <2>5. QED
    BY <1>b, <2>1, <2>2, <2>3, <2>4, GhostFrame
<1>4. ASSUME NEW h \in Handlers, Crash(h)
      PROVE  GhostsDoomed(u)'
  <2>1. UNCHANGED <<rows, bus, shown, at, members>>
    BY <1>4 DEF Crash
  <2>2. job[h].pc \notin Owing /\ missed' = missed
    BY <1>4 DEF Crash, Current
  <2>3. ~WillEmpty(u)
    BY <2>2 DEF WillEmpty, OneAtATime, Owing
  <2>4. Current(u)
    BY <2>1, <2>2 DEF Current
  <2>5. QED
    BY <1>b, <2>1, <2>3, <2>4, GhostFrame
<1>5. ASSUME NEW h \in Handlers, LeaveWipe(h) \/ LeavePurge(h) \/ LeaveDrop(h)
      PROVE  FALSE
  BY <1>5, <1>a DEF LeaveWipe, LeavePurge, LeaveDrop, LocalsHold, Current
<1>6. ASSUME NEW h \in Handlers, SendCreate(h)
      PROVE  GhostsDoomed(u)'
  <2>1. /\ UNCHANGED <<bus, shown, at, members, missed>>
        /\ rows \subseteq rows'
    BY <1>6 DEF SendCreate
  <2>2. ~WillEmpty(u)
    BY <1>6 DEF SendCreate, WillEmpty, OneAtATime
  <2>3. Current(u)
    BY <2>1 DEF Current
  <2>4. /\ Queue(u)' = Queue(u)
        /\ Held(u)' = Held(u)
        /\ \A j : Deletes(u, j)' <=> Deletes(u, j)
        /\ \A k, m : Announces(u, k, m)' <=> Announces(u, k, m)
    BY <2>1 DEF Queue, Held, Deletes, Announces
  <2>5. \A k : Doomed(u, k) => Doomed(u, k)'
    BY <2>2, <2>4 DEF Doomed
  <2>6. QED
    BY <1>b, <2>1, <2>3, <2>4, <2>5 DEF GhostsDoomed
<1>7. ASSUME NEW h \in Handlers, ClearRows(h) \/ ClearMembers(h)
      PROVE  GhostsDoomed(u)'
  <2>1. job[h] \in Busy
    BY <1>7, BusyJob DEF ClearRows, ClearMembers
  <2>2. u \in members
    BY <1>7 DEF ClearRows, ClearMembers, ReadMembers, Current
  <2>3. WillEmpty(u)'
    BY <1>7, <2>1, <2>2, Carries DEF ClearRows, ClearMembers, WillEmpty, BusyPC
  <2>4. QED
    BY <2>3 DEF GhostsDoomed, Doomed
<1>8. ASSUME NEW h \in Handlers, ClearPublish(h)
      PROVE  GhostsDoomed(u)'
  <2>1. job[h] \in Busy /\ job[h].pc = "publishCleared"
    BY <1>8, BusyJob DEF ClearPublish
  <2> DEFINE e == [type |-> "messages_deleted", to |-> job[h].to]
  <2>2. e \in Event /\ e.type = "messages_deleted" /\ e.to = job[h].to
    BY <2>1 DEF Event, Busy
  <2>3. UNCHANGED <<rows, shown, at, members, missed>> /\ Publish(e)
    BY <1>8 DEF ClearPublish
  <2>4. WillEmpty(u) => u \in e.to
    BY <2>1 DEF WillEmpty, OneAtATime
  <2>5. Current(u) /\ Held(u)' = Held(u)
    BY <2>3 DEF Current, Held
  <2> HIDE DEF e
  <2>6. QED
    BY <1>b, <2>2, <2>3, <2>4, <2>5, GhostPublish
<1>9. ASSUME NEW h \in Handlers, SendEmit(h)
      PROVE  GhostsDoomed(u)'
  <2>1. job[h] \in Busy /\ job[h].pc = "emit" /\ job[h].msgs \subseteq rows
    BY <1>9, <1>a, BusyJob DEF SendEmit, LocalsHold
  <2>2. PICK m \in job[h].msgs :
           /\ ReceiveNew(Reached(job[h].inst, job[h].to), m)
           /\ Publish([type |-> "new_message", msg |-> m, to |-> job[h].to])
    BY <1>9 DEF SendEmit
  <2> DEFINE e == [type |-> "new_message", msg |-> m, to |-> job[h].to]
  <2>3. m \in Ids /\ m \in rows
    BY <2>1 DEF Busy
  <2>4. e \in Event /\ e.type = "new_message" /\ e.msg \in rows
    BY <2>1, <2>3 DEF Event, Busy
  <2>5. UNCHANGED <<rows, at, members, missed>> /\ Publish(e)
    BY <1>9, <2>2 DEF SendEmit
  <2>6. ~WillEmpty(u)
    BY <2>1 DEF WillEmpty, OneAtATime
  <2>7. Held(u)' \subseteq Held(u) \union {m}
    BY <2>2, <2>3 DEF ReceiveNew, AddMessage, Held, TypeOK
  <2>8. Current(u) /\ Held(u)' \subseteq Held(u) \union rows
    BY <2>3, <2>5, <2>7 DEF Current
  <2> HIDE DEF e
  <2>9. QED
    BY <1>b, <2>4, <2>5, <2>6, <2>8, GhostPublish
<1>10. ASSUME NEW h \in Handlers,
              ClearDone(h) \/ \E mine \in BOOLEAN : FetchApply(h, mine)
       PROVE  GhostsDoomed(u)'
  <2>0. job[h] \in Busy /\ job[h].pc \in {"cleared", "apply"}
    BY <1>10, BusyJob DEF ClearDone, FetchApply
  <2>1. UNCHANGED <<rows, bus, at, members>> /\ ~WillEmpty(u)
    BY <1>10, <2>0 DEF ClearDone, FetchApply, WillEmpty, OneAtATime
  <2>2. /\ Queue(u)' = Queue(u)
        /\ \A j : Deletes(u, j)' <=> Deletes(u, j)
        /\ \A k, m : Announces(u, k, m)' <=> Announces(u, k, m)
    BY <2>1 DEF Queue, Deletes, Announces
  <2>3. \A k : Doomed(u, k) => Doomed(u, k)'
    BY <2>1, <2>2 DEF Doomed
  <2>4. Held(u)' \subseteq rows \/ Held(u)' = Held(u)
    <3>1. CASE ClearDone(h)
      BY <3>1 DEF ClearDone, ReceiveDeleted, SetMessages, Held
    <3>2. ASSUME NEW mine \in BOOLEAN, FetchApply(h, mine)
          PROVE  Held(u)' \subseteq rows \/ Held(u)' = Held(u)
      <4>1. job[h].msgs \subseteq rows
        BY <1>a, <3>2 DEF FetchApply, LocalsHold
      <4>2. shown' = [shown EXCEPT ![job[h].user] = SetMessages(job[h].msgs)]
        BY <3>2 DEF FetchApply
      <4>3. QED
        BY <4>1, <4>2 DEF SetMessages, Held, TypeOK
    <3>3. QED
      BY <1>10, <3>1, <3>2
  <2>5. CASE Current(u)
    BY <1>b, <2>1, <2>2, <2>3, <2>4, <2>5 DEF GhostsDoomed
  <2>6. CASE ~Current(u)
    <3>1. PICK mine \in BOOLEAN : FetchApply(h, mine)
      BY <1>10, <2>1, <2>6 DEF ClearDone, Current
    <3>2. u = job[h].user /\ bus[at[u]] = <<>>
      BY <2>1, <2>6, <3>1 DEF FetchApply, Current
    <3>3. job[h].msgs \subseteq rows
      BY <1>a, <3>1 DEF FetchApply, LocalsHold
    <3>4. Held(u)' \subseteq rows
      BY <3>1, <3>2, <3>3 DEF FetchApply, SetMessages, Held, TypeOK
    <3>5. Queue(u)' = <<>>
      BY <2>2, <3>2 DEF Queue
    <3>6. QED
      BY <2>1, <3>4, <3>5 DEF GhostsDoomed
  <2>7. QED
    BY <2>5, <2>6
<1>11. ASSUME NEW i \in Instances, Deliver(i)
       PROVE  GhostsDoomed(u)'
  <2>1. Current(u)
    BY <1>11 DEF Deliver, Current
  <2>2. QED
    BY <1>b, <1>11, <2>1, GhostDeliver
<1>12. QED
  BY <1>1, <1>2, <1>3, <1>4, <1>5, <1>6, <1>7, <1>8, <1>9, <1>10, <1>11 DEF Next, Step

(* "Delete all messages in a conversation (for both users)": when the requests   *)
(* of a conversation do not overlap, no browser that missed nothing is left with *)
(* a message that was deleted, whatever the instances' delays, the connections   *)
(* lost and the handlers that die.  Leaving with deleteMessages=true is left out:*)
(* it deletes everyone's messages and tells nobody.                              *)
THEOREM NoGhostsCorrect ==
    ASSUME OneAtATime, "leaveWipe" \notin Ops
    PROVE  Spec => []NoGhosts
<1>1. Init => GhostInv
  <2>1. Init => OfflineMissed
    BY OfflineAssumption DEF Init, OfflineMissed
  <2>2. Init => LocalsHold
    BY DEF Init, LocalsHold, Idle
  <2>3. ASSUME Init, NEW u \in Users
        PROVE  GhostsDoomed(u)
    <3>1. Held(u) = {} /\ Queue(u) = <<>>
      BY <2>3 DEF Init, Held, Nothing, Queue
    <3>2. QED
      BY <3>1 DEF GhostsDoomed
  <2>4. QED
    BY <2>1, <2>2, <2>3 DEF GhostInv
<1>2. TypeOK /\ GhostInv /\ [Next]_vars => GhostInv'
  BY OfflineMissedStep, LocalsHoldStep, GhostStep DEF GhostInv
<1>3. TypeOK /\ GhostInv => NoGhosts
  <2> SUFFICES ASSUME GhostInv, Quiet, NEW u \in Users, Current(u), TypeOK
               PROVE  Held(u) \subseteq rows
    BY DEF NoGhosts
  <2>1. GhostsDoomed(u)
    BY DEF GhostInv
  <2>2. Queue(u) = <<>> /\ ~WillEmpty(u)
    BY DEF Quiet, At, Queue, WillEmpty, Current, TypeOK
  <2>3. ~Doomed(u, 0)
    BY <2>2 DEF Doomed
  <2>4. QED
    BY <2>1, <2>3 DEF GhostsDoomed
<1>4. QED
  BY <1>1, <1>2, <1>3, TypeInvariant, PTL DEF Spec, TypeInv

--------------------------------------------------------------------------------
(* NothingLost with clears, reloads, lost connections and crashes, one handler at *)
(* a time: no deletion is behind the announcement of a message that is there.     *)

(* nothing that waits in the queue after event k empties u's list *)
Lasts(u, k) == \A j \in 1..Len(Queue(u)) : j > k => ~Deletes(u, j)

Reaches(u, m) ==
    \/ m \in Held(u) /\ Lasts(u, 0)
    \/ \E k \in 1..Len(Queue(u)) : Announces(u, k, m) /\ Lasts(u, k)

WillSend(u, m) ==
    \E h \in Handlers : /\ m \in job[h].msgs
                        /\ \/ job[h].pc = "sendMembers"
                           \/ job[h].pc = "emit" /\ u \in job[h].to

(* what a handler has read or done is still so, since no other handler runs *)
AnswersHold ==
    \A h \in Handlers :
        /\ job[h].pc \in {"clearMembers", "publishCleared", "cleared"} => rows = {}
        /\ job[h].pc = "apply" => job[h].msgs = rows \/ job[h].user \notin members
        /\ job[h].pc \in SendPC => \E m \in Ids : job[h].msgs = {m}

SerialLostInv ==
    /\ OfflineMissed
    /\ AnswersHold
    /\ \A u \in Users : Current(u) => \A m \in rows : Reaches(u, m) \/ WillSend(u, m)

(* A page of PageSize is the whole history. *)
LEMMA WholePage ==
    ASSUME MaxMessages <= PageSize, rows \subseteq Ids
    PROVE  Page(rows) = rows
<1>1. SUFFICES ASSUME NEW m \in rows
               PROVE  Cardinality({k \in rows : k < m}) < PageSize
  BY DEF Page
<1>2. m \in Nat /\ 1 <= m /\ m <= MaxMessages /\ MaxMessages \in Nat /\ PageSize \in Nat
  BY BoundsAssumption DEF Ids
<1>3. IsFiniteSet(1..(m - 1)) /\ Cardinality(1..(m - 1)) = m - 1
  <2>1. 1 \in Int /\ m - 1 \in Int
    BY <1>2
  <2>2. /\ IsFiniteSet(1..(m - 1))
        /\ Cardinality(1..(m - 1)) = IF 1 > m - 1 THEN 0 ELSE (m - 1) - 1 + 1
    BY <2>1, FS_Interval
  <2>3. QED
    BY <1>2, <2>2
<1>4. {k \in rows : k < m} \subseteq 1..(m - 1)
  <2>1. ASSUME NEW k \in rows, k < m
        PROVE  k \in 1..(m - 1)
    <3>1. k \in Ids
      OBVIOUS
    <3>2. k \in Int /\ 1 <= k
      BY <3>1 DEF Ids
    <3>3. QED
      BY <1>2, <2>1, <3>2
  <2>2. QED
    BY <2>1
<1>5. Cardinality({k \in rows : k < m}) <= m - 1 /\ Cardinality({k \in rows : k < m}) \in Nat
  BY <1>3, <1>4, FS_Subset, FS_CardinalityType
<1>6. QED
  BY <1>2, <1>5

LEMMA AnswersHoldStep ==
    ASSUME OneAtATime, MaxMessages <= PageSize, TypeOK, Room, AnswersHold, [Next]_vars
    PROVE  AnswersHold'
<1> USE DEF At, db, browsers, SendPC
<1>1. ASSUME NEW h \in Handlers, Begin(h)
      PROVE  AnswersHold'
  <2>1. /\ job'[h].pc \notin {"clearMembers", "publishCleared", "cleared"} \union SendPC
        /\ job'[h].pc = "apply" => job'[h].user \notin members'
    BY <1>1 DEF Begin, SendCheck, ReadUpdate, ClearCheck, LeaveCheck, FetchCheck, Start, TypeOK
  <2>2. QED
    BY <2>1 DEF AnswersHold, OneAtATime
<1>2. ASSUME NEW h \in Handlers, SendCreate(h)
      PROVE  AnswersHold'
  <2>1. \/ job'[h].pc = "idle"
        \/ job'[h].pc = "sendMembers" /\ job'[h].msgs = {Len(sentBy) + 1}
    <3>1. job[h] \in Busy
      BY <1>2, BusyJob DEF SendCreate
    <3>2. QED
      BY <1>2, <3>1 DEF SendCreate, Finish, Idle, TypeOK, Busy
  <2>2. Len(sentBy) + 1 \in Ids
    BY <1>2, NewId
  <2>3. QED
    BY <2>1, <2>2 DEF AnswersHold, OneAtATime
<1>3. ASSUME NEW h \in Handlers, SendMembers(h)
      PROVE  AnswersHold'
  <2>1. job[h] \in Busy /\ job[h].pc = "sendMembers"
    BY <1>3, BusyJob DEF SendMembers
  <2>2. job'[h].pc = "emit" /\ job'[h].msgs = job[h].msgs
    BY <1>3, <2>1, Carries DEF SendMembers, BusyPC
  <2>3. QED
    BY <2>1, <2>2 DEF AnswersHold, OneAtATime
<1>4. ASSUME NEW h \in Handlers,
             \/ ReadGetMembers(h) \/ LeaveRow(h) \/ LeaveCount(h) \/ LeaveWipe(h)
             \/ LeavePurge(h)
      PROVE  AnswersHold'
  <2>1. job[h] \in Busy
    BY <1>4, BusyJob DEF ReadGetMembers, LeaveRow, LeaveCount, LeaveWipe, LeavePurge
  <2>2. job'[h].pc \in {"emitRead", "leaveRow", "count", "purge", "drop", "idle"}
    BY <1>4, <2>1, Carries, MovePC
       DEF ReadGetMembers, LeaveRow, LeaveCount, LeaveWipe, LeavePurge, BusyPC
  <2>3. QED
    BY <2>2 DEF AnswersHold, OneAtATime
<1>5. ASSUME NEW h \in Handlers,
             \/ SendEmit(h) \/ ReadEmit(h) \/ ClearDone(h) \/ LeaveDrop(h) \/ Crash(h)
             \/ \E mine \in BOOLEAN : FetchApply(h, mine)
      PROVE  AnswersHold'
  <2>1. job'[h].pc = "idle"
    BY <1>5, MovePC DEF SendEmit, ReadEmit, ClearDone, LeaveDrop, Crash, FetchApply
  <2>2. QED
    BY <2>1 DEF AnswersHold, OneAtATime
<1>6. ASSUME NEW h \in Handlers, ClearRows(h) \/ ClearMembers(h) \/ ClearPublish(h)
      PROVE  AnswersHold'
  <2>1. job[h] \in Busy
    BY <1>6, BusyJob DEF ClearRows, ClearMembers, ClearPublish
  <2>2. job'[h].pc \in {"clearMembers", "publishCleared", "cleared"}
    BY <1>6, <2>1, Carries DEF ClearRows, ClearMembers, ClearPublish, BusyPC
  <2>3. rows' = {}
    BY <1>6 DEF ClearRows, ClearMembers, ClearPublish, ReadMembers, AnswersHold
  <2>4. QED
    BY <2>2, <2>3 DEF AnswersHold, OneAtATime
<1>7. ASSUME NEW h \in Handlers, FetchQuery(h)
      PROVE  AnswersHold'
  <2>1. job[h] \in Busy
    BY <1>7, BusyJob DEF FetchQuery
  <2>2. job'[h].pc = "apply" /\ job'[h].msgs = Page(rows) /\ UNCHANGED rows
    BY <1>7, <2>1 DEF FetchQuery, TypeOK, Busy
  <2>3. Page(rows) = rows
    BY WholePage DEF TypeOK
  <2>4. QED
    BY <2>2, <2>3 DEF AnswersHold, OneAtATime
<1>8. CASE \/ \E i \in Instances : Deliver(i)
           \/ \E u \in Users : \/ \E m \in Ids : ReadRetried(u, m)
                               \/ Disconnect(u)
                               \/ \E i \in Instances : Reconnect(u, i)
           \/ UNCHANGED vars
  <2>1. UNCHANGED <<job, members, rows>>
    BY <1>8 DEF Deliver, ReadRetried, Disconnect, Reconnect, vars
  <2>2. QED
    BY <2>1 DEF AnswersHold
<1>9. QED
  BY <1>1, <1>2, <1>3, <1>4, <1>5, <1>6, <1>7, <1>8 DEF Next, Step

(* A step that leaves u's queue and what it holds leaves what reaches it. *)
LEMMA ReachesFrame ==
    ASSUME NEW u \in Users, UNCHANGED bus, at'[u] = at[u], Held(u) \subseteq Held(u)',
           NEW m, Reaches(u, m)
    PROVE  Reaches(u, m)'
<1>1. Queue(u)' = Queue(u)
  BY DEF Queue
<1>2. /\ \A j : Deletes(u, j)' <=> Deletes(u, j)
      /\ \A k : Announces(u, k, m)' <=> Announces(u, k, m)
  BY <1>1 DEF Deletes, Announces
<1>3. \A k : Lasts(u, k)' <=> Lasts(u, k)
  BY <1>1, <1>2 DEF Lasts
<1>4. QED
  BY <1>1, <1>2, <1>3 DEF Reaches

(* An announcement at the end of every queue deletes nothing, and reaches its *)
(* recipients.                                                                *)
LEMMA ReachesPublish ==
    ASSUME TypeOK, NEW u \in Users, at[u] \in Instances, UNCHANGED at,
           NEW e \in Event, e.type = "new_message", Publish(e),
           Held(u) \subseteq Held(u)', NEW m \in Ids
    PROVE  /\ Reaches(u, m) => Reaches(u, m)'
           /\ m = e.msg /\ u \in e.to => Reaches(u, m)'
<1>0. PICK n : n = Len(Queue(u))
  OBVIOUS
<1>1. /\ n \in Nat
      /\ Len(Queue(u)') = n + 1
      /\ \A k \in 1..n : Queue(u)'[k] = Queue(u)[k]
      /\ Queue(u)'[n + 1] = e
  BY <1>0 DEF Publish, Queue, TypeOK
<1>2. \A k \in 1..n : /\ Deletes(u, k)' <=> Deletes(u, k)
                      /\ Announces(u, k, m)' <=> Announces(u, k, m)
  BY <1>1 DEF Deletes, Announces
<1>3. ~Deletes(u, n + 1)'
  BY <1>1 DEF Deletes
<1>4. ASSUME NEW k \in 0..n, Lasts(u, k)
      PROVE  Lasts(u, k)'
  <2>1. ASSUME NEW j \in 1..(n + 1), j > k
        PROVE  ~Deletes(u, j)'
    BY <1>0, <1>1, <1>2, <1>3, <1>4, <2>1 DEF Lasts
  <2>2. QED
    BY <1>1, <2>1 DEF Lasts
<1>5. Lasts(u, n + 1)'
  BY <1>1 DEF Lasts
<1>6. ASSUME Reaches(u, m) PROVE Reaches(u, m)'
  <2>1. CASE m \in Held(u) /\ Lasts(u, 0)
    <3>1. 0 \in 0..n
      BY <1>1
    <3>2. QED
      BY <1>4, <2>1, <3>1 DEF Reaches
  <2>2. ASSUME NEW k \in 1..n, Announces(u, k, m), Lasts(u, k)
        PROVE  Reaches(u, m)'
    <3>1. k \in 0..n /\ k \in 1..Len(Queue(u)')
      BY <1>1
    <3>2. Announces(u, k, m)' /\ Lasts(u, k)'
      BY <1>2, <1>4, <2>2, <3>1
    <3>3. QED
      BY <3>1, <3>2 DEF Reaches
  <2>3. QED
    BY <1>0, <1>6, <2>1, <2>2 DEF Reaches
<1>7. ASSUME m = e.msg, u \in e.to PROVE Reaches(u, m)'
  <2>1. n + 1 \in 1..Len(Queue(u)')
    BY <1>1
  <2>2. Announces(u, n + 1, m)'
    BY <1>1, <1>7 DEF Announces
  <2>3. QED
    BY <1>5, <2>1, <2>2 DEF Reaches
<1>8. QED
  BY <1>6, <1>7

(* What reaches a browser still does when an event of its queue is handled. *)
LEMMA ReachesDeliver ==
    ASSUME TypeOK, NEW i \in Instances, Deliver(i), NEW u \in Users, at[u] \in Instances,
           NEW m \in Ids, Reaches(u, m)
    PROVE  Reaches(u, m)'
<1> USE DEF db, browsers
<1>1. /\ UNCHANGED at
      /\ bus[i] \in Seq(Event) /\ bus[i] # <<>>
      /\ bus' = [bus EXCEPT ![i] = Tail(bus[i])]
      /\ bus \in [Instances -> Seq(Event)]
  BY DEF Deliver, TypeOK
<1>2. PICK e : e = Head(bus[i])
  OBVIOUS
<1>3. e = bus[i][1] /\ e \in Event
  BY <1>1, <1>2
<1>4. e.type = "new_message" => e.msg \in Ids /\ ReceiveNew(Reached(i, e.to), e.msg)
  BY <1>2, <1>3 DEF Deliver, Event
<1>5. e.type # "new_message" => e.type = "messages_deleted" /\ ReceiveDeleted(Reached(i, e.to))
  BY <1>2, <1>3 DEF Deliver, Event
<1>6. \/ Held(u) \subseteq Held(u)' /\ (e.type = "new_message" /\ u \in e.to /\ at[u] = i
                                          => e.msg \in Held(u)')
      \/ e.type = "messages_deleted" /\ u \in e.to /\ at[u] = i
  <2>1. CASE e.type = "new_message"
    BY <1>4, <2>1, ReceiveHeld DEF Reached
  <2>2. CASE e.type # "new_message"
    BY <1>5, <2>2 DEF ReceiveDeleted, Reached, Held
  <2>3. QED
    BY <2>1, <2>2
<1>7. CASE at[u] # i
  <2>1. bus'[at'[u]] = bus[at[u]] /\ Held(u) \subseteq Held(u)'
    BY <1>1, <1>6, <1>7
  <2>2. Queue(u)' = Queue(u)
    BY <2>1 DEF Queue
  <2>3. /\ \A j : Deletes(u, j)' <=> Deletes(u, j)
        /\ \A k : Announces(u, k, m)' <=> Announces(u, k, m)
    BY <2>2 DEF Deletes, Announces
  <2>4. \A k : Lasts(u, k)' <=> Lasts(u, k)
    BY <2>2, <2>3 DEF Lasts
  <2>5. QED
    BY <2>1, <2>2, <2>3, <2>4 DEF Reaches
<1>8. CASE at[u] = i
  <2>0. PICK n : n = Len(Queue(u))
    OBVIOUS
  <2>1. /\ n \in Nat /\ n >= 1
        /\ Len(Queue(u)') = n - 1
        /\ \A k \in 1..(n - 1) : Queue(u)'[k] = Queue(u)[k + 1]
        /\ Queue(u)[1] = e
    BY <1>1, <1>3, <1>8, <2>0 DEF Queue
  <2>2. \A k \in 1..(n - 1) : /\ Deletes(u, k)' <=> Deletes(u, k + 1)
                              /\ Announces(u, k, m)' <=> Announces(u, k + 1, m)
    BY <2>1 DEF Deletes, Announces
  <2>3. ASSUME NEW k \in 0..(n - 1), Lasts(u, k + 1)
        PROVE  Lasts(u, k)'
    <3>1. ASSUME NEW j \in 1..(n - 1), j > k
          PROVE  ~Deletes(u, j)'
      <4>1. j + 1 \in 1..n /\ j + 1 > k + 1
        BY <2>1, <2>3, <3>1
      <4>2. ~Deletes(u, j + 1)
        BY <2>0, <2>3, <4>1 DEF Lasts
      <4>3. QED
        BY <2>2, <4>2
    <3>2. QED
      BY <2>1, <3>1 DEF Lasts
  <2>4. CASE m \in Held(u) /\ Lasts(u, 0)
    <3>1. ~Deletes(u, 1)
      BY <2>0, <2>1, <2>4 DEF Lasts
    <3>2. Held(u) \subseteq Held(u)'
      BY <1>6, <2>1, <3>1 DEF Deletes
    <3>3. Lasts(u, 0 + 1)
      BY <2>0, <2>1, <2>4 DEF Lasts
    <3>4. Lasts(u, 0)'
      BY <2>1, <2>3, <3>3
    <3>5. QED
      BY <2>4, <3>2, <3>4 DEF Reaches
  <2>5. ASSUME NEW k \in 1..n, Announces(u, k, m), Lasts(u, k)
        PROVE  Reaches(u, m)'
    <3>1. CASE k = 1
      <4>1. e.type = "new_message" /\ e.msg = m /\ u \in e.to
        BY <2>1, <2>5, <3>1 DEF Announces
      <4>2. m \in Held(u)'
        BY <1>6, <1>8, <4>1
      <4>3. Lasts(u, 0 + 1)
        BY <2>5, <3>1
      <4>4. Lasts(u, 0)'
        BY <2>1, <2>3, <4>3
      <4>5. QED
        BY <4>2, <4>4 DEF Reaches
    <3>2. CASE k # 1
      <4>1. /\ k - 1 \in 1..(n - 1) /\ k - 1 \in 0..(n - 1) /\ (k - 1) + 1 = k
            /\ k - 1 \in 1..Len(Queue(u)')
        BY <2>1, <3>2
      <4>2. Announces(u, k - 1, m)'
        BY <2>2, <2>5, <4>1
      <4>3. Lasts(u, k - 1)'
        BY <2>3, <2>5, <4>1
      <4>4. QED
        BY <4>1, <4>2, <4>3 DEF Reaches
    <3>3. QED
      BY <3>1, <3>2
  <2>6. QED
    BY <2>0, <2>4, <2>5 DEF Reaches
<1>9. QED
  BY <1>7, <1>8

LEMMA SerialLostStep ==
    ASSUME OneAtATime, TypeOK, Room, SerialLostInv, [Next]_vars,
           NEW u \in Users, Current(u)', NEW m \in rows'
    PROVE  (Reaches(u, m) \/ WillSend(u, m))'
<1> USE DEF At, db, browsers, SendPC
<1>a. OfflineMissed /\ AnswersHold
  BY DEF SerialLostInv
<1>b. Current(u) /\ m \in rows => /\ Reaches(u, m) \/ WillSend(u, m)
                                  /\ at[u] \in Instances /\ m \in Ids
  BY DEF SerialLostInv, Current, TypeOK
<1>1. ASSUME NEW h \in Handlers,
             \/ Begin(h)
             \/ ReadGetMembers(h) \/ ReadEmit(h)
             \/ LeaveRow(h) \/ LeaveCount(h) \/ FetchQuery(h)
      PROVE  Reaches(u, m)'
  <2>1. /\ UNCHANGED <<rows, bus, shown, at, missed>>
        /\ members' \subseteq members
    BY <1>1 DEF Begin, SendCheck, ReadUpdate, ClearCheck, LeaveCheck, FetchCheck,
                ReadGetMembers, ReadEmit, LeaveRow, LeaveCount, FetchQuery, ReadMembers,
                ReceiveRead
  <2>2. job[h].pc \notin SendPC
    BY <1>1 DEF Begin, SendCheck, ReadUpdate, ClearCheck, LeaveCheck, FetchCheck,
                ReadGetMembers, ReadEmit, LeaveRow, LeaveCount, FetchQuery, Start
  <2>3. ~WillSend(u, m)
    BY <2>2 DEF WillSend, OneAtATime
  <2>4. Current(u) /\ Held(u)' = Held(u)
    BY <2>1 DEF Current, Held
  <2>5. QED
    BY <1>b, <2>1, <2>3, <2>4, ReachesFrame
<1>2. CASE \/ \E v \in Users : \/ \E k \in Ids : ReadRetried(v, k)
                               \/ Disconnect(v)
                               \/ \E i \in Instances : Reconnect(v, i)
           \/ UNCHANGED vars
  <2>1. UNCHANGED <<rows, bus, shown, job, members>>
    BY <1>2 DEF ReadRetried, Disconnect, Reconnect, vars
  <2>2. Current(u) /\ at'[u] = at[u]
    BY <1>2, <1>a DEF ReadRetried, Disconnect, Reconnect, vars, Current, TypeOK, OfflineMissed
  <2>3. WillSend(u, m)' <=> WillSend(u, m)
    BY <2>1 DEF WillSend
  <2>4. Held(u)' = Held(u)
    BY <2>1 DEF Held
  <2>5. QED
    BY <1>b, <2>1, <2>2, <2>3, <2>4, ReachesFrame
<1>3. ASSUME NEW h \in Handlers, Crash(h)
      PROVE  Reaches(u, m)'
  <2>1. UNCHANGED <<rows, bus, shown, at, members>>
    BY <1>3 DEF Crash
  <2>2. job[h].pc \notin Owing /\ missed' = missed
    BY <1>3 DEF Crash, Current
  <2>3. ~WillSend(u, m)
    BY <2>2 DEF WillSend, OneAtATime, Owing
  <2>4. Current(u) /\ Held(u)' = Held(u)
    BY <2>1, <2>2 DEF Current, Held
  <2>5. QED
    BY <1>b, <2>1, <2>3, <2>4, ReachesFrame
<1>4. ASSUME NEW h \in Handlers,
             \/ ClearRows(h) \/ ClearMembers(h) \/ ClearPublish(h) \/ ClearDone(h)
             \/ LeaveWipe(h) \/ LeavePurge(h) \/ LeaveDrop(h)
      PROVE  FALSE
  BY <1>4, <1>a DEF ClearRows, ClearMembers, ClearPublish, ClearDone, LeaveWipe, LeavePurge,
                    LeaveDrop, ReadMembers, AnswersHold
<1>5. ASSUME NEW h \in Handlers, SendCreate(h)
      PROVE  (Reaches(u, m) \/ WillSend(u, m))'
  <2>1. UNCHANGED <<bus, shown, at, members, missed>> /\ job[h] \in Busy
    BY <1>5, BusyJob DEF SendCreate
  <2>2. m \in rows \/ (m = Len(sentBy) + 1 /\ alive)
    BY <1>5 DEF SendCreate
  <2>3. CASE m \in rows
    <3>1. ~WillSend(u, m)
      BY <1>5 DEF SendCreate, WillSend, OneAtATime
    <3>2. Current(u) /\ Held(u)' = Held(u)
      BY <2>1 DEF Current, Held
    <3>3. QED
      BY <1>b, <2>1, <2>3, <3>1, <3>2, ReachesFrame
  <2>4. CASE m = Len(sentBy) + 1 /\ alive
    <3>1. job'[h].pc = "sendMembers" /\ job'[h].msgs = {m}
      BY <1>5, <2>1, <2>4 DEF SendCreate, TypeOK, Busy
    <3>2. QED
      BY <3>1 DEF WillSend
  <2>5. QED
    BY <2>2, <2>3, <2>4
<1>6. ASSUME NEW h \in Handlers, SendMembers(h)
      PROVE  (Reaches(u, m) \/ WillSend(u, m))'
  <2>1. job[h] \in Busy /\ job[h].pc = "sendMembers"
    BY <1>6, BusyJob DEF SendMembers
  <2>2. /\ UNCHANGED <<rows, bus, shown, at, members, missed>>
        /\ job'[h].pc = "emit" /\ job'[h].msgs = job[h].msgs /\ job'[h].to = members
    BY <1>6, <2>1, Carries DEF SendMembers, ReadMembers, BusyPC
  <2>3. Current(u) /\ Held(u)' = Held(u) /\ u \in members
    BY <2>2 DEF Current, Held
  <2>4. CASE WillSend(u, m)
    <3>1. m \in job[h].msgs
      BY <2>4 DEF WillSend, OneAtATime
    <3>2. QED
      BY <2>2, <2>3, <3>1 DEF WillSend
  <2>5. CASE Reaches(u, m)
    BY <1>b, <2>2, <2>3, <2>5, ReachesFrame
  <2>6. QED
    BY <1>b, <2>2, <2>3, <2>4, <2>5
<1>7. ASSUME NEW h \in Handlers, SendEmit(h)
      PROVE  Reaches(u, m)'
  <2>1. job[h] \in Busy /\ job[h].pc = "emit"
    BY <1>7, BusyJob DEF SendEmit
  <2>2. PICK k \in job[h].msgs :
           /\ ReceiveNew(Reached(job[h].inst, job[h].to), k)
           /\ Publish([type |-> "new_message", msg |-> k, to |-> job[h].to])
    BY <1>7 DEF SendEmit
  <2>3. job[h].msgs = {k} /\ k \in Ids
    BY <1>a, <2>1, <2>2 DEF AnswersHold, Busy
  <2>4. PICK e : e = [type |-> "new_message", msg |-> k, to |-> job[h].to]
    OBVIOUS
  <2>5. e \in Event /\ e.type = "new_message" /\ e.msg = k /\ e.to = job[h].to /\ Publish(e)
    BY <2>1, <2>2, <2>3, <2>4 DEF Event, Busy
  <2>6. UNCHANGED <<rows, at, members, missed>>
    BY <1>7 DEF SendEmit
  <2>7. Current(u) /\ Held(u) \subseteq Held(u)'
    BY <2>2, <2>3, <2>6, ReceiveHeld DEF Current
  <2>8. WillSend(u, m) => m = e.msg /\ u \in e.to
    BY <2>1, <2>3, <2>5 DEF WillSend, OneAtATime
  <2>9. QED
    BY <1>b, <2>5, <2>6, <2>7, <2>8, ReachesPublish
<1>8. ASSUME NEW h \in Handlers, NEW mine \in BOOLEAN, FetchApply(h, mine)
      PROVE  Reaches(u, m)'
  <2>1. /\ UNCHANGED <<rows, bus, at, members>> /\ job[h].pc = "apply"
        /\ shown' = [shown EXCEPT ![job[h].user] = SetMessages(job[h].msgs)]
    BY <1>8 DEF FetchApply
  <2>2. u = job[h].user => Held(u)' = rows
    <3>1. ASSUME u = job[h].user
          PROVE  Held(u)' = rows
      <4>1. job[h].msgs = rows
        BY <1>a, <2>1, <3>1 DEF AnswersHold, Current
      <4>2. shown'[u] = [k \in Ids |-> IF k \in rows THEN 1 ELSE 0]
        BY <2>1, <3>1, <4>1 DEF SetMessages, TypeOK
      <4>3. QED
        BY <4>2 DEF Held, TypeOK
    <3>2. QED
      BY <3>1
  <2>3. u # job[h].user => Held(u)' = Held(u)
    BY <2>1 DEF Held, TypeOK
  <2>4. CASE Current(u)
    <3>1. ~WillSend(u, m)
      BY <2>1 DEF WillSend, OneAtATime
    <3>2. Reaches(u, m)
      BY <1>b, <2>1, <2>4, <3>1
    <3>3. Queue(u)' = Queue(u)
      BY <2>1 DEF Queue
    <3>4. /\ \A j : Deletes(u, j)' <=> Deletes(u, j)
          /\ \A k : Announces(u, k, m)' <=> Announces(u, k, m)
      BY <3>3 DEF Deletes, Announces
    <3>5. \A k : Lasts(u, k)' <=> Lasts(u, k)
      BY <3>3, <3>4 DEF Lasts
    <3>6. m \in Held(u) => m \in Held(u)'
      BY <2>1, <2>2, <2>3
    <3>7. QED
      BY <3>2, <3>3, <3>4, <3>5, <3>6 DEF Reaches
  <2>5. CASE ~Current(u)
    <3>1. u = job[h].user /\ bus[at[u]] = <<>>
      BY <1>8, <2>1, <2>5 DEF FetchApply, Current
    <3>2. Queue(u)' = <<>> /\ m \in Held(u)'
      BY <2>1, <2>2, <3>1 DEF Queue
    <3>3. QED
      BY <3>2 DEF Reaches, Lasts
  <2>6. QED
    BY <2>4, <2>5
<1>9. ASSUME NEW i \in Instances, Deliver(i)
      PROVE  (Reaches(u, m) \/ WillSend(u, m))'
  <2>1. Current(u) /\ m \in rows /\ UNCHANGED job
    BY <1>9 DEF Deliver, Current
  <2>2. WillSend(u, m)' <=> WillSend(u, m)
    BY <2>1 DEF WillSend
  <2>3. QED
    BY <1>b, <1>9, <2>1, <2>2, ReachesDeliver
<1>10. QED
  BY <1>1, <1>2, <1>3, <1>4, <1>5, <1>6, <1>7, <1>8, <1>9 DEF Next, Step

(* When the requests of a conversation do not overlap, clearing the history,     *)
(* reloading it (all of it: MaxMessages <= PageSize), lost connections and dying *)
(* handlers cost no participant a message, unless its own browser may have       *)
(* missed an event and has not reloaded since.                                   *)
THEOREM NothingLostSerially ==
    ASSUME OneAtATime, MaxMessages <= PageSize
    PROVE  Spec => []NothingLost
<1>1. Init => SerialLostInv
  <2>1. Init => OfflineMissed
    BY OfflineAssumption DEF Init, OfflineMissed
  <2>2. QED
    BY <2>1 DEF Init, SerialLostInv, AnswersHold, Idle, SendPC
<1>2. TypeOK /\ Room /\ SerialLostInv /\ [Next]_vars => SerialLostInv'
  BY OfflineMissedStep, AnswersHoldStep, SerialLostStep DEF SerialLostInv
<1>3. TypeOK /\ SerialLostInv => NothingLost
  <2> SUFFICES ASSUME TypeOK, SerialLostInv, Quiet, NEW u \in Users, Current(u), NEW m \in rows
               PROVE  m \in Held(u)
    BY DEF NothingLost
  <2>1. ~WillSend(u, m) /\ Queue(u) = <<>>
    BY DEF Quiet, At, WillSend, Queue, Current, TypeOK
  <2>2. QED
    BY <2>1 DEF SerialLostInv, Reaches
<1>4. QED
  BY <1>1, <1>2, <1>3, TypeInvariant, PTL DEF Spec, TypeInv

================================================================================
