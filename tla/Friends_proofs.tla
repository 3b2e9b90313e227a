---------------------------- MODULE Friends_proofs ----------------------------
(***************************************************************************)
(* What holds of the friends service for every set of users, any number of *)
(* overlapping requests and any crash: the type invariant, MutualConsent,  *)
(* OneFriendshipPerPair and the refinement of FriendsAbs.  What holds when *)
(* requests do not overlap: NoDuplicateRequests, NoRequestBetweenFriends   *)
(* and AnswerIsFinal.                                                      *)
(***************************************************************************)
EXTENDS Friends, TLAPS

USE DEF history

JobType == [Handlers -> Busy \union {Idle}]

(* A handler that is not idle carries a full record of locals. *)
LEMMA BusyJob ==
    ASSUME TypeOK, NEW h \in Handlers, ~At(h, "idle")
    PROVE  job[h] \in Busy
BY DEF TypeOK, At, Idle

(* The two ways the code moves a handler keep its record well formed. *)
LEMMA MoveType ==
    ASSUME TypeOK, NEW h \in Handlers
    PROVE  /\ ~At(h, "idle") => \A pc \in BusyPC : Goto(h, pc) => job' \in JobType
           /\ Finish(h) => job' \in JobType
<1>1. ASSUME ~At(h, "idle"), NEW pc \in BusyPC, Goto(h, pc)
      PROVE  job' \in JobType
  <2>1. job[h] \in Busy
    BY <1>1, BusyJob
  <2>2. [job[h] EXCEPT !.pc = pc] \in Busy
    BY <1>1, <2>1 DEF Busy
  <2>3. QED
    BY <1>1, <2>2 DEF Goto, TypeOK, JobType
<1>2. Finish(h) => job' \in JobType
  BY DEF Finish, TypeOK, JobType
<1>3. QED
  BY <1>1, <1>2

(* Publishing appends an event about the handler's own request. *)
LEMMA PublishType ==
    ASSUME TypeOK, NEW h \in Handlers, ~At(h, "idle"),
           NEW type \in {"friend_request", "friend_accepted", "friend_request_response"},
           Publish(type, job[h])
    PROVE  channel' \in Seq(Event)
<1>1. job[h] \in Busy
  BY BusyJob
<1>2. [type |-> type, from |-> job[h].from, to |-> job[h].to] \in Event
  BY <1>1 DEF Busy, Event
<1>3. QED
  BY <1>2 DEF Publish, TypeOK

(* What a write may record are pairs of users. *)
LEMMA WritesType ==
    ASSUME TypeOK, NEW h \in Handlers, ~At(h, "idle"), Writes(h)
    PROVE  overtaken' \subseteq SUBSET Users
<1>1. Between(h) \in SUBSET Users
  BY BusyJob DEF Between, Busy
<1>2. QED
  BY <1>1 DEF Writes, TypeOK

LEMMA TypeInit == Init => TypeOK
BY DEF Init, TypeOK, Idle, Status, Pairs

(* Each step of a running handler keeps the types. *)
LEMMA TypeStep ==
    ASSUME TypeOK, NEW h \in Handlers, Step(h)
    PROVE  TypeOK'
<1>0. /\ ~At(h, "idle")
      /\ job[h] \in Busy
      /\ <<job[h].from, job[h].to>> \in Pairs
  <2>1. ~At(h, "idle")
    BY DEF Step, At, SendCheckFriends, SendCheckPending, SendCheckAny,
           SendWriteRequest, SendPublish, RespondUpdate, RespondBefriend,
           RespondPublishAccepted, RespondPublishResponse, RemoveDelete
  <2>2. QED
    BY <2>1, BusyJob DEF Busy, Pairs
<1>a. \A j : j = job[h] => (Agree(j) => consent' \subseteq Pairs)
  BY <1>0 DEF Agree, TypeOK, Pairs, Busy
<1>1. CASE SendCheckFriends(h)
  BY <1>0, <1>1, MoveType DEF SendCheckFriends, TypeOK, BusyPC, JobType
<1>2. CASE SendCheckPending(h)
  BY <1>0, <1>2, MoveType DEF SendCheckPending, TypeOK, BusyPC, JobType
<1>3. CASE SendCheckAny(h)
  <2>1. \A c \in Choice :
           [job[h] EXCEPT !.pc = "writeRequest", !.choice = c] \in Busy
    BY <1>0 DEF Busy, BusyPC
  <2>2. PICK c \in Choice :
           job' = [job EXCEPT ![h] = [job[h] EXCEPT !.pc = "writeRequest", !.choice = c]]
    BY <1>3 DEF SendCheckAny, Choice, TypeOK
  <2>3. job' \in [Handlers -> Busy \union {Idle}]
    BY <2>1, <2>2 DEF TypeOK
  <2>4. QED
    BY <1>3, <2>3 DEF SendCheckAny, TypeOK
<1>4. CASE SendWriteRequest(h)
  <2>1. job' \in JobType
    BY <1>0, <1>4, MoveType DEF SendWriteRequest, BusyPC
  <2>2. requests' \in [Pairs -> Status] /\ consent' \subseteq Pairs
    BY <1>0, <1>4, <1>a DEF SendWriteRequest, TypeOK, Status
  <2>3. overtaken' \subseteq SUBSET Users
    BY <1>0, <1>4, WritesType DEF SendWriteRequest, TypeOK
  <2>4. QED
    BY <1>4, <2>1, <2>2, <2>3 DEF SendWriteRequest, TypeOK, JobType
<1>5. CASE SendPublish(h)
  BY <1>0, <1>5, MoveType, PublishType DEF SendPublish, TypeOK, JobType
<1>6. CASE RespondUpdate(h)
  <2>1. job' \in JobType
    BY <1>0, <1>6, MoveType DEF RespondUpdate, BusyPC
  <2>2. requests' \in [Pairs -> Status] /\ consent' \subseteq Pairs
    BY <1>0, <1>6, <1>a DEF RespondUpdate, TypeOK, Status
  <2>3. overtaken' \subseteq SUBSET Users
    BY <1>0, <1>6, WritesType DEF RespondUpdate
  <2>4. QED
    BY <1>6, <2>1, <2>2, <2>3 DEF RespondUpdate, TypeOK, JobType
<1>7. CASE RespondBefriend(h)
  <2>1. job' \in JobType
    BY <1>0, <1>7, MoveType DEF RespondBefriend, BusyPC
  <2>2. friendship' \in [Pairs -> RowIds \union {NoRow}]
    BY <1>0, <1>7 DEF RespondBefriend, TypeOK
  <2>3. overtaken' \subseteq SUBSET Users
    BY <1>0, <1>7, WritesType DEF RespondBefriend, TypeOK
  <2>4. QED
    BY <1>7, <2>1, <2>2, <2>3 DEF RespondBefriend, TypeOK, JobType
<1>8. CASE RespondPublishAccepted(h)
  BY <1>0, <1>8, MoveType, PublishType
     DEF RespondPublishAccepted, TypeOK, JobType, BusyPC
<1>9. CASE RespondPublishResponse(h)
  BY <1>0, <1>9, MoveType, PublishType DEF RespondPublishResponse, TypeOK, JobType
<1>10. CASE RemoveDelete(h)
  <2>1. job' \in JobType
    BY <1>10, MoveType DEF RemoveDelete
  <2>2. friendship' \in [Pairs -> RowIds \union {NoRow}]
    BY <1>10 DEF RemoveDelete, TypeOK
  <2>3. QED
    BY <1>10, <2>1, <2>2 DEF RemoveDelete, TypeOK, JobType
<1>11. QED
  BY <1>1, <1>2, <1>3, <1>4, <1>5, <1>6, <1>7, <1>8, <1>9, <1>10 DEF Step

(* The row a removeFriend handler holds is a friendship row. *)
LEMMA RowType ==
    ASSUME TypeOK, NEW a \in Users, NEW b \in Users
    PROVE  FriendshipRow(a, b) \in RowIds \union {NoRow}
BY DEF FriendshipRow, TypeOK, Pairs

(* Taking up a request fills in a full record of locals. *)
LEMMA TypeBegin ==
    ASSUME TypeOK, NEW h \in Handlers, Begin(h)
    PROVE  TypeOK'
<1>1. ASSUME NEW u \in Users, NEW v \in Users, SendFindCode(h, u, v)
      PROVE  TypeOK'
  <2>1. [pc |-> "checkFriends", user |-> u, from |-> u, to |-> v,
         choice |-> "none", row |-> NoRow] \in Busy
    BY DEF Busy, BusyPC, Choice
  <2>2. QED
    BY <1>1, <2>1 DEF SendFindCode, TypeOK
<1>2. ASSUME NEW u \in Users, NEW p \in Pairs, NEW c \in {"accept", "reject"},
             RespondFind(h, u, p, c)
      PROVE  TypeOK'
  <2>1. [pc |-> "update", user |-> u, from |-> p[1], to |-> p[2],
         choice |-> c, row |-> NoRow] \in Busy
    BY DEF Busy, BusyPC, Choice, Pairs
  <2>2. QED
    BY <1>2, <2>1 DEF RespondFind, TypeOK
<1>3. ASSUME NEW u \in Users, NEW v \in Users, RemoveFind(h, u, v)
      PROVE  TypeOK'
  <2>1. [pc |-> "delete", user |-> u, from |-> u, to |-> v,
         choice |-> "none", row |-> FriendshipRow(u, v)] \in Busy
    BY RowType DEF Busy, BusyPC, Choice
  <2>2. QED
    BY <1>3, <2>1 DEF RemoveFind, TypeOK
<1>4. QED
  BY <1>1, <1>2, <1>3 DEF Begin

LEMMA TypeNext == TypeOK /\ [Next]_vars => TypeOK'
<1> SUFFICES ASSUME TypeOK, [Next]_vars PROVE TypeOK'
  OBVIOUS
<1>1. CASE \E h \in Handlers : Begin(h)
  BY <1>1, TypeBegin
<1>2. CASE \E h \in Handlers : Step(h)
  BY <1>2, TypeStep
<1>3. CASE Codes
  BY <1>3 DEF Codes, GenerateInviteCode, ExpireInviteCode, TypeOK
<1>4. CASE Deliver
  BY <1>4 DEF Deliver, TypeOK
<1>5. CASE \E h \in Mortal : Crash(h)
  BY <1>5 DEF Crash, Finish, TypeOK
<1>6. CASE UNCHANGED vars
  BY <1>6 DEF vars, TypeOK
<1>7. QED
  BY <1>1, <1>2, <1>3, <1>4, <1>5, <1>6 DEF Next

(* The variables of the friends service always have their types.            *)
THEOREM TypeCorrect == Spec => []TypeOK
<1>1. QED
  BY TypeInit, TypeNext, PTL DEF Spec
--------------------------------------------------------------------------------
(***************************************************************************)
(* MutualConsent and OneFriendshipPerPair.  Neither is inductive: what a   *)
(* friendship row needs is gathered while a handler runs, so the invariant *)
(* also says what each handler has established at each of its steps.       *)
(***************************************************************************)

(* a request row exists only because its sender asked *)
AskedRows == \A p \in Pairs : requests[p] # "none" => p \in consent

SendPC == {"checkFriends", "checkPending", "checkAny", "writeRequest"}

(* what a handler knows: a sender writes its own request; a responder is    *)
(* the recipient of a request that exists; a friendship is about to be      *)
(* created only after both users agreed                                     *)
HandlerKnows(h) ==
    LET j == job[h] IN
    /\ At(h, "update") => j.user = j.to /\ requests[<<j.from, j.to>>] # "none"
    /\ At(h, "befriend") => {<<j.from, j.to>>, <<j.to, j.from>>} \subseteq consent
    /\ j.pc \in SendPC => j.user = j.from

(* friendship rows are stored under the sorted key, by consenting users *)
RowsAgreed ==
    \A a, b \in Users : friendship[<<a, b>>] # NoRow =>
        /\ ~(b < a)
        /\ {<<a, b>>, <<b, a>>} \subseteq consent

ConsentInv ==
    /\ TypeOK
    /\ AskedRows
    /\ RowsAgreed
    /\ \A h \in Handlers : HandlerKnows(h)

LEMMA ConsentInit == Init => ConsentInv
<1> SUFFICES ASSUME Init PROVE ConsentInv
  OBVIOUS
<1>1. AskedRows /\ RowsAgreed
  BY DEF Init, AskedRows, RowsAgreed, Pairs
<1>2. \A h \in Handlers : HandlerKnows(h)
  BY DEF Init, HandlerKnows, Idle, At, SendPC
<1>3. QED
  BY <1>1, <1>2, TypeInit DEF ConsentInv

(* Consent is never withdrawn and request rows never disappear, so what a   *)
(* handler knows stays true while other handlers run.                       *)
LEMMA KnowledgeStable ==
    ASSUME ConsentInv, NEW h \in Handlers, job'[h] = job[h],
           consent \subseteq consent',
           \A p \in Pairs : requests[p] # "none" => requests'[p] # "none"
    PROVE  HandlerKnows(h)'
<1>1. HandlerKnows(h)
  BY DEF ConsentInv
<1>2. At(h, "update") => <<job[h].from, job[h].to>> \in Pairs
  BY BusyJob DEF ConsentInv, At, Busy, Pairs
<1>3. QED
  BY <1>1, <1>2 DEF HandlerKnows, At

(* A handler that has just ended knows nothing. *)
LEMMA IdleKnows ==
    ASSUME NEW h, job'[h] = Idle
    PROVE  HandlerKnows(h)'
BY DEF HandlerKnows, At, Idle, SendPC

(* Moving on leaves the other locals of a handler alone. *)
LEMMA GotoFields ==
    ASSUME TypeOK, NEW h \in Handlers, ~At(h, "idle"), NEW pc, Goto(h, pc)
    PROVE  /\ job'[h].pc = pc
           /\ job'[h].user = job[h].user
           /\ job'[h].from = job[h].from
           /\ job'[h].to = job[h].to
<1>1. job[h] \in Busy
  BY BusyJob
<1>2. job'[h] = [job[h] EXCEPT !.pc = pc]
  BY DEF Goto, TypeOK
<1>3. QED
  BY <1>1, <1>2 DEF Busy

(* Only at these steps does the invariant say something of a handler. *)
LEMMA OtherPC ==
    ASSUME NEW h, job'[h].pc \notin SendPC \union {"update", "befriend"}
    PROVE  HandlerKnows(h)'
BY DEF HandlerKnows, At

LEMMA ConsentStep ==
    ASSUME ConsentInv, NEW h \in Handlers, Step(h)
    PROVE  ConsentInv'
<1> USE DEF ConsentInv
<1>0. /\ ~At(h, "idle")
      /\ job[h] \in Busy
      /\ <<job[h].from, job[h].to>> \in Pairs
      /\ HandlerKnows(h)
  <2>1. ~At(h, "idle")
    BY DEF Step, At, SendCheckFriends, SendCheckPending, SendCheckAny,
           SendWriteRequest, SendPublish, RespondUpdate, RespondBefriend,
           RespondPublishAccepted, RespondPublishResponse, RemoveDelete
  <2>2. QED
    BY <2>1, BusyJob DEF Busy, Pairs
<1>t. TypeOK'
  BY TypeStep
<1>o. \A g \in Handlers : g # h => job'[g] = job[g]
  BY DEF Step, SendCheckFriends, SendCheckPending, SendCheckAny,
         SendWriteRequest, SendPublish, RespondUpdate, RespondBefriend,
         RespondPublishAccepted, RespondPublishResponse, RemoveDelete,
         Goto, Finish, TypeOK
<1>m. /\ consent \subseteq consent'
      /\ \A p \in Pairs : requests[p] # "none" => requests'[p] # "none"
  BY DEF Step, SendCheckFriends, SendCheckPending, SendCheckAny,
         SendWriteRequest, SendPublish, RespondUpdate, RespondBefriend,
         RespondPublishAccepted, RespondPublishResponse, RemoveDelete,
         Agree, TypeOK
<1>g. \A g \in Handlers : g # h => HandlerKnows(g)'
  BY <1>o, <1>m, KnowledgeStable
<1>f. Finish(h) => HandlerKnows(h)'
  BY IdleKnows DEF Finish, TypeOK
<1>q. ASSUME AskedRows', RowsAgreed', HandlerKnows(h)'
      PROVE  ConsentInv'
  BY <1>q, <1>t, <1>g
<1>u. UNCHANGED <<requests, consent>> => AskedRows'
  BY DEF AskedRows
<1>v. UNCHANGED friendship => RowsAgreed'
  BY <1>m DEF RowsAgreed
<1>1. CASE SendCheckFriends(h)
  <2>1. HandlerKnows(h)'
    BY <1>0, <1>1, <1>f, GotoFields DEF SendCheckFriends, HandlerKnows, At, SendPC
  <2>2. QED
    BY <1>1, <1>q, <1>u, <1>v, <2>1 DEF SendCheckFriends
<1>2. CASE SendCheckPending(h)
  <2>1. HandlerKnows(h)'
    BY <1>0, <1>2, <1>f, GotoFields DEF SendCheckPending, HandlerKnows, At, SendPC
  <2>2. QED
    BY <1>2, <1>q, <1>u, <1>v, <2>1 DEF SendCheckPending
<1>3. CASE SendCheckAny(h)
  <2>1. /\ job'[h].pc = "writeRequest"
        /\ job'[h].user = job[h].user
        /\ job'[h].from = job[h].from
    BY <1>0, <1>3 DEF SendCheckAny, TypeOK, Busy
  <2>2. HandlerKnows(h)'
    BY <1>0, <1>3, <2>1 DEF SendCheckAny, HandlerKnows, At, SendPC
  <2>3. QED
    BY <1>3, <1>q, <1>u, <1>v, <2>2 DEF SendCheckAny
<1>4. CASE SendWriteRequest(h)
  <2>1. CASE Finish(h) /\ UNCHANGED <<requests, consent>>
    BY <1>4, <1>q, <1>u, <1>v, <1>f, <2>1 DEF SendWriteRequest
  <2>2. CASE /\ requests' = [requests EXCEPT ![<<job[h].from, job[h].to>>] = "pending"]
             /\ Agree(job[h])
             /\ Goto(h, "publishRequest")
    <3>1. job[h].user = job[h].from
      BY <1>0, <1>4 DEF SendWriteRequest, HandlerKnows, At, SendPC
    <3>2. <<job[h].from, job[h].to>> \in consent'
      BY <2>2, <3>1 DEF Agree
    <3>3. AskedRows'
      BY <1>0, <1>m, <2>2, <3>2 DEF AskedRows, TypeOK
    <3>4. HandlerKnows(h)'
      BY <1>0, <2>2, GotoFields, OtherPC DEF SendPC
    <3>5. QED
      BY <1>4, <1>q, <1>v, <3>3, <3>4 DEF SendWriteRequest
  <2>3. QED
    BY <1>4, <2>1, <2>2 DEF SendWriteRequest
<1>5. CASE SendPublish(h)
  BY <1>5, <1>q, <1>u, <1>v, <1>f DEF SendPublish
<1>6. CASE RespondUpdate(h)
  <2>1. <<job[h].from, job[h].to>> \in consent
    BY <1>0, <1>6 DEF RespondUpdate, HandlerKnows, AskedRows
  <2>2. AskedRows'
    BY <1>0, <1>6, <1>m, <2>1 DEF RespondUpdate, AskedRows, TypeOK
  <2>3. HandlerKnows(h)'
    <3>1. CASE job[h].choice = "accept"
      <4>1. job[h].user = job[h].to
        BY <1>0, <1>6 DEF RespondUpdate, HandlerKnows
      <4>2. <<job[h].to, job[h].from>> \in consent'
        BY <1>6, <3>1, <4>1 DEF RespondUpdate, Agree
      <4>3. QED
        BY <1>0, <1>6, <1>m, <2>1, <3>1, <4>2, GotoFields
           DEF RespondUpdate, HandlerKnows, At, SendPC
    <3>2. CASE job[h].choice # "accept"
      BY <1>0, <1>6, <3>2, GotoFields, OtherPC DEF RespondUpdate, SendPC
    <3>3. QED
      BY <3>1, <3>2
  <2>4. QED
    BY <1>6, <1>q, <1>v, <2>2, <2>3 DEF RespondUpdate
<1>7. CASE RespondBefriend(h)
  <2> DEFINE key == FriendshipKey(job[h].from, job[h].to)
  <2>1. HandlerKnows(h)'
    BY <1>0, <1>7, <1>f, GotoFields, OtherPC DEF RespondBefriend, SendPC
  <2>2. {<<job[h].from, job[h].to>>, <<job[h].to, job[h].from>>} \subseteq consent
    BY <1>0, <1>7 DEF RespondBefriend, HandlerKnows
  <2>3. /\ key \in Pairs
        /\ ~(key[2] < key[1])
        /\ {<<key[1], key[2]>>, <<key[2], key[1]>>} \subseteq consent
    <3>1. /\ job[h].from \in Int /\ job[h].from \in Users
          /\ job[h].to \in Int /\ job[h].to \in Users
      BY <1>0, UsersAssumption DEF Busy
    <3>2. CASE job[h].from < job[h].to
      BY <2>2, <3>1, <3>2 DEF FriendshipKey, Pairs
    <3>3. CASE ~(job[h].from < job[h].to)
      BY <2>2, <3>1, <3>3 DEF FriendshipKey, Pairs
    <3>4. QED
      BY <3>2, <3>3
  <2>4. \A p \in Pairs : p # key => friendship'[p] = friendship[p]
    BY <1>7 DEF RespondBefriend, TypeOK
  <2>5. RowsAgreed'
    <3> SUFFICES ASSUME NEW a \in Users, NEW b \in Users,
                        friendship'[<<a, b>>] # NoRow
                 PROVE  /\ ~(b < a)
                        /\ {<<a, b>>, <<b, a>>} \subseteq consent'
      BY DEF RowsAgreed
    <3>1. CASE <<a, b>> = key
      BY <1>m, <2>3, <3>1
    <3>2. CASE <<a, b>> # key
      BY <1>m, <2>4, <3>2 DEF RowsAgreed, Pairs
    <3>3. QED
      BY <3>1, <3>2
  <2>6. QED
    BY <1>7, <1>q, <1>u, <2>1, <2>5 DEF RespondBefriend
<1>8. CASE RespondPublishAccepted(h)
  <2>1. HandlerKnows(h)'
    BY <1>0, <1>8, GotoFields, OtherPC DEF RespondPublishAccepted, SendPC
  <2>2. QED
    BY <1>8, <1>q, <1>u, <1>v, <2>1 DEF RespondPublishAccepted
<1>9. CASE RespondPublishResponse(h)
  BY <1>9, <1>q, <1>u, <1>v, <1>f DEF RespondPublishResponse
<1>10. CASE RemoveDelete(h)
  <2>1. RowsAgreed'
    BY <1>10, <1>m DEF RemoveDelete, RowsAgreed, Pairs
  <2>2. QED
    BY <1>10, <1>q, <1>u, <1>f, <2>1 DEF RemoveDelete
<1>11. QED
  BY <1>1, <1>2, <1>3, <1>4, <1>5, <1>6, <1>7, <1>8, <1>9, <1>10 DEF Step

LEMMA ConsentNext == ConsentInv /\ [Next]_vars => ConsentInv'
<1> SUFFICES ASSUME ConsentInv, [Next]_vars PROVE ConsentInv'
  OBVIOUS
<1> USE DEF ConsentInv
<1>t. TypeOK'
  BY TypeNext
<1>k. ASSUME UNCHANGED <<requests, friendship, consent>>,
             \A h \in Handlers : job'[h] = job[h] \/ HandlerKnows(h)'
      PROVE  ConsentInv'
  BY <1>k, <1>t, KnowledgeStable DEF AskedRows, RowsAgreed
<1>1. ASSUME NEW h \in Handlers, Begin(h)
      PROVE  ConsentInv'
  <2>1. \A g \in Handlers : g # h => job'[g] = job[g]
    BY <1>1 DEF Begin, SendFindCode, RespondFind, RemoveFind, TypeOK
  <2>2. HandlerKnows(h)'
    <3>1. ASSUME NEW u \in Users, NEW v \in Users, SendFindCode(h, u, v)
          PROVE  HandlerKnows(h)'
      BY <3>1 DEF SendFindCode, HandlerKnows, At, SendPC, TypeOK
    <3>2. ASSUME NEW u \in Users, NEW p \in Pairs, NEW c \in {"accept", "reject"},
                 RespondFind(h, u, p, c)
          PROVE  HandlerKnows(h)'
      <4>1. <<p[1], p[2]>> = p
        BY DEF Pairs
      <4>2. QED
        BY <3>2, <4>1 DEF RespondFind, MayRespond, HandlerKnows, At, SendPC, TypeOK
    <3>3. ASSUME NEW u \in Users, NEW v \in Users, RemoveFind(h, u, v)
          PROVE  HandlerKnows(h)'
      BY <3>3 DEF RemoveFind, HandlerKnows, At, SendPC, TypeOK
    <3>4. QED
      BY <1>1, <3>1, <3>2, <3>3 DEF Begin
  <2>3. UNCHANGED <<requests, friendship, consent>>
    BY <1>1 DEF Begin, SendFindCode, RespondFind, RemoveFind
  <2>4. QED
    BY <1>k, <2>1, <2>2, <2>3
<1>2. CASE \E h \in Handlers : Step(h)
  BY <1>2, ConsentStep
<1>3. CASE Codes
  BY <1>3, <1>k DEF Codes, GenerateInviteCode, ExpireInviteCode
<1>4. CASE Deliver
  BY <1>4, <1>k DEF Deliver
<1>5. ASSUME NEW h \in Mortal, Crash(h)
      PROVE  ConsentInv'
  <2>1. HandlerKnows(h)'
    BY <1>5, MortalAssumption, IdleKnows DEF Crash, Finish, TypeOK
  <2>2. QED
    BY <1>5, <1>k, <2>1 DEF Crash, Finish, TypeOK
<1>6. CASE UNCHANGED vars
  BY <1>6, <1>k DEF vars
<1>7. QED
  BY <1>1, <1>2, <1>3, <1>4, <1>5, <1>6 DEF Next

LEMMA ConsentCorrect == Spec => []ConsentInv
<1>1. QED
  BY ConsentInit, ConsentNext, PTL DEF Spec

(* For any number of overlapping requests and crashes: both users of every  *)
(* friendship acted, one by asking and the other by accepting.              *)
THEOREM MutualConsentCorrect == Spec => []MutualConsent
<1>1. ConsentInv => MutualConsent
  BY DEF ConsentInv, RowsAgreed, MutualConsent, AreFriends
<1>2. QED
  BY <1>1, ConsentCorrect, PTL

(* For any number of overlapping accepts: a pair has one friendship row.    *)
THEOREM OneFriendshipCorrect == Spec => []OneFriendshipPerPair
<1>1. ConsentInv => OneFriendshipPerPair
  <2> SUFFICES ASSUME ConsentInv, NEW a \in Users, NEW b \in Users,
                      friendship[<<a, b>>] # NoRow, friendship[<<b, a>>] # NoRow
               PROVE  a = b
    BY DEF OneFriendshipPerPair
  <2>1. ~(b < a) /\ ~(a < b)
    BY DEF ConsentInv, RowsAgreed
  <2>2. a \in Int /\ b \in Int
    BY UsersAssumption
  <2>3. QED
    BY <2>1, <2>2
<1>2. QED
  BY <1>1, ConsentCorrect, PTL
--------------------------------------------------------------------------------
(***************************************************************************)
(* Pairs that are not overtaken.  sendFriendRequest checks, awaits, checks *)
(* again and writes; respondToFriendRequest reads and writes.  As long as  *)
(* nobody wrote in between, what a handler saw still holds when it writes: *)
(* the invariant is that a handler's findings are true.                    *)
(***************************************************************************)

NoSelfRequest == \A a \in Users : requests[<<a, a>>] = "none"

(* what the service promises of two users at any time *)
PairKept(a, b) ==
    /\ a # b => ~(requests[<<a, b>>] = "pending" /\ requests[<<b, a>>] = "pending")
    /\ AreFriends(a, b) => ~PendingBetween(a, b)

PairsKept == \A a, b \in Users : {a, b} \notin overtaken => PairKept(a, b)

Distinct(h) ==
    job[h].pc \in SendPC \union {"update", "befriend"} => job[h].from # job[h].to

(* what h has found of the two users it is about *)
Found(h) ==
    LET j == job[h] IN
    /\ j.pc \in {"checkPending", "checkAny", "writeRequest", "befriend"} => ~AreFriends(j.from, j.to)
    /\ j.pc \in {"checkAny", "writeRequest", "befriend"} => ~PendingBetween(j.from, j.to)
    /\ At(h, "update") => requests[<<j.from, j.to>>] = "pending"
    /\ At(h, "befriend") =>
          \A g \in Handlers \ {h} : At(g, "befriend") => Between(g) # Between(h)

FindingsHold(h) == job[h].pc \in RelyPC /\ Between(h) \notin overtaken => Found(h)

PromiseInv ==
    /\ TypeOK
    /\ NoSelfRequest
    /\ PairsKept
    /\ \A h \in Handlers : Distinct(h) /\ FindingsHold(h)

LEMMA PromiseInit == Init => PromiseInv
<1> SUFFICES ASSUME Init PROVE PromiseInv
  OBVIOUS
<1>1. \A a, b \in Users : requests[<<a, b>>] = "none" /\ friendship[<<a, b>>] = NoRow
  BY DEF Init, Pairs
<1>2. NoSelfRequest /\ PairsKept
  BY <1>1 DEF NoSelfRequest, PairsKept, PairKept, AreFriends, PendingBetween
<1>3. \A h \in Handlers : Distinct(h) /\ FindingsHold(h)
  BY DEF Init, Distinct, FindingsHold, RelyPC, Idle, SendPC
<1>4. QED
  BY <1>2, <1>3, TypeInit DEF PromiseInv

(* A step of a handler is about the rows of its two users and nobody else's. *)
LEMMA StepLocal ==
    ASSUME TypeOK, NEW h \in Handlers, Step(h)
    PROVE  /\ ~At(h, "idle")
           /\ job[h] \in Busy
           /\ \A g \in Handlers : g # h => job'[g] = job[g]
           /\ job'[h].pc # "idle" => /\ job'[h].from = job[h].from
                                     /\ job'[h].to = job[h].to
           /\ \A p \in Pairs : {p[1], p[2]} # Between(h) =>
                  requests'[p] = requests[p] /\ friendship'[p] = friendship[p]
           /\ overtaken \subseteq overtaken'
           /\ overtaken' \subseteq overtaken \union {Between(h)}
<1> DEFINE f == job[h].from
           t == job[h].to
<1>0. /\ ~At(h, "idle")
      /\ job[h] \in Busy
      /\ f \in Users /\ t \in Users
  <2>1. ~At(h, "idle")
    BY DEF Step, At, SendCheckFriends, SendCheckPending, SendCheckAny,
           SendWriteRequest, SendPublish, RespondUpdate, RespondBefriend,
           RespondPublishAccepted, RespondPublishResponse, RemoveDelete
  <2>2. QED
    BY <2>1, BusyJob DEF Busy
<1>1. \A g \in Handlers : g # h => job'[g] = job[g]
  BY DEF Step, SendCheckFriends, SendCheckPending, SendCheckAny,
         SendWriteRequest, SendPublish, RespondUpdate, RespondBefriend,
         RespondPublishAccepted, RespondPublishResponse, RemoveDelete,
         Goto, Finish, TypeOK
<1>2. job'[h].pc # "idle" => job'[h].from = f /\ job'[h].to = t
  <2>1. Finish(h) => job'[h].pc = "idle"
    BY DEF Finish, Idle, TypeOK
  <2>2. ASSUME NEW pc, Goto(h, pc) PROVE job'[h].from = f /\ job'[h].to = t
    BY <1>0, <2>2, GotoFields
  <2>3. SendCheckAny(h) => job'[h].from = f /\ job'[h].to = t
    BY <1>0 DEF SendCheckAny, TypeOK, Busy
  <2>4. QED
    BY <2>1, <2>2, <2>3
       DEF Step, SendCheckFriends, SendCheckPending,
           SendWriteRequest, SendPublish, RespondUpdate, RespondBefriend,
           RespondPublishAccepted, RespondPublishResponse, RemoveDelete
<1>3. ASSUME NEW p \in Pairs, {p[1], p[2]} # Between(h)
      PROVE  requests'[p] = requests[p] /\ friendship'[p] = friendship[p]
  <2>1. p # <<f, t>> /\ p # <<t, f>>
    BY <1>3 DEF Between
  <2>2. FriendshipKey(f, t) # p
    BY <2>1 DEF FriendshipKey
  <2>3. QED
    BY <2>1, <2>2
       DEF Step, SendCheckFriends, SendCheckPending, SendCheckAny,
           SendWriteRequest, SendPublish, RespondUpdate, RespondBefriend,
           RespondPublishAccepted, RespondPublishResponse, RemoveDelete, TypeOK
<1>4. overtaken \subseteq overtaken' /\ overtaken' \subseteq overtaken \union {Between(h)}
  BY DEF Step, SendCheckFriends, SendCheckPending, SendCheckAny,
         SendWriteRequest, SendPublish, RespondUpdate, RespondBefriend,
         RespondPublishAccepted, RespondPublishResponse, RemoveDelete, Writes
<1>5. QED
  BY <1>0, <1>1, <1>2, <1>3, <1>4

(* Whoever writes without overtaking is alone with its two users. *)
LEMMA WritesAlone ==
    ASSUME NEW h \in Handlers, Writes(h), Between(h) \notin overtaken',
           NEW g \in Handlers, g # h, job[g].pc \in RelyPC
    PROVE  Between(g) # Between(h)
BY DEF Writes

(* The findings of the others survive a step: it leaves their rows alone, or *)
(* overtakes them.                                                           *)
LEMMA OthersFindings ==
    ASSUME PromiseInv, NEW h \in Handlers, Step(h),
           \/ Writes(h)
           \/ /\ UNCHANGED requests /\ ~At(h, "befriend")'
              /\ \A p \in Pairs : friendship[p] = NoRow => friendship'[p] = NoRow,
           NEW g \in Handlers, g # h
    PROVE  Distinct(g)' /\ FindingsHold(g)'
<1> USE DEF PromiseInv
<1>1. job'[g] = job[g] /\ overtaken \subseteq overtaken'
  BY StepLocal
<1>2. Distinct(g)'
  BY <1>1 DEF Distinct
<1>3. ASSUME job[g].pc \in RelyPC, Between(g) \notin overtaken'
      PROVE  Found(g)'
  <2> DEFINE f == job[g].from
             t == job[g].to
  <2>1. Found(g)
    BY <1>1, <1>3 DEF FindingsHold
  <2>2. <<f, t>> \in Pairs /\ <<t, f>> \in Pairs
    BY <1>3, BusyJob DEF RelyPC, At, Busy, Pairs
  <2>3. /\ requests'[<<f, t>>] = requests[<<f, t>>]
        /\ requests'[<<t, f>>] = requests[<<t, f>>]
        /\ friendship[<<f, t>>] = NoRow => friendship'[<<f, t>>] = NoRow
        /\ friendship[<<t, f>>] = NoRow => friendship'[<<t, f>>] = NoRow
        /\ At(h, "befriend")' => Between(h)' # Between(g)
    <3>1. CASE Between(g) # Between(h)
      <4>1. {f, t} # Between(h) /\ {t, f} # Between(h)
        BY <3>1 DEF Between
      <4>2. At(h, "befriend")' => Between(h)' = Between(h)
        <5>1. job'[h].pc # "idle" => job'[h].from = job[h].from /\ job'[h].to = job[h].to
          BY StepLocal
        <5>2. QED
          BY <5>1 DEF At, Between
      <4>3. \A p \in {<<f, t>>, <<t, f>>} : {p[1], p[2]} # Between(h)
        BY <4>1
      <4>4. \A p \in {<<f, t>>, <<t, f>>} :
               requests'[p] = requests[p] /\ friendship'[p] = friendship[p]
        <5>1. \A p \in Pairs : {p[1], p[2]} # Between(h) =>
                  requests'[p] = requests[p] /\ friendship'[p] = friendship[p]
          BY StepLocal
        <5>2. QED
          BY <2>2, <4>3, <5>1
      <4>5. QED
        BY <3>1, <4>2, <4>4
    <3>2. CASE Between(g) = Between(h)
      <4>1. ~Writes(h)
        BY <1>3, <3>2, WritesAlone
      <4>2. QED
        BY <2>2, <4>1
    <3>3. QED
      BY <3>1, <3>2
  <2>4. AreFriends(f, t)' => AreFriends(f, t)
    BY <1>1, <2>3 DEF AreFriends
  <2>5. PendingBetween(f, t)' <=> PendingBetween(f, t)
    BY <1>1, <2>3 DEF PendingBetween
  <2>6. ASSUME At(g, "befriend"), NEW k \in Handlers \ {g}, At(k, "befriend")'
        PROVE  Between(k)' # Between(g)
    <3>1. CASE k = h
      BY <2>3, <2>6, <3>1
    <3>2. CASE k # h
      <4>1. job'[k] = job[k]
        BY <3>2, StepLocal
      <4>2. QED
        BY <2>1, <2>6, <4>1 DEF Found, At, Between
    <3>3. QED
      BY <3>1, <3>2
  <2>7. QED
    BY <1>1, <2>1, <2>3, <2>4, <2>5, <2>6 DEF Found, At, Between
<1>4. QED
  BY <1>1, <1>2, <1>3 DEF FindingsHold, Between

(* A step needs an argument for its own two users only. *)
LEMMA PromiseFrame ==
    ASSUME PromiseInv, NEW h \in Handlers, Step(h), NoSelfRequest',
           \/ Writes(h)
           \/ /\ UNCHANGED requests /\ ~At(h, "befriend")'
              /\ \A p \in Pairs : friendship[p] = NoRow => friendship'[p] = NoRow,
           \A a, b \in Users :
              {a, b} = Between(h) /\ {a, b} \notin overtaken' => PairKept(a, b)',
           Distinct(h)', FindingsHold(h)'
    PROVE  PromiseInv'
<1> USE DEF PromiseInv
<1>1. \A g \in Handlers : Distinct(g)' /\ FindingsHold(g)'
  BY OthersFindings
<1>2. PairsKept'
  <2> SUFFICES ASSUME NEW a \in Users, NEW b \in Users, {a, b} \notin overtaken'
               PROVE  PairKept(a, b)'
    BY DEF PairsKept
  <2>1. CASE {a, b} = Between(h)
    BY <2>1
  <2>2. CASE {a, b} # Between(h)
    <3>1. /\ <<a, b>> \in Pairs /\ <<b, a>> \in Pairs
          /\ {b, a} # Between(h)
      BY <2>2 DEF Pairs
    <3>2. /\ requests'[<<a, b>>] = requests[<<a, b>>]
          /\ requests'[<<b, a>>] = requests[<<b, a>>]
          /\ friendship'[<<a, b>>] = friendship[<<a, b>>]
          /\ friendship'[<<b, a>>] = friendship[<<b, a>>]
          /\ {a, b} \notin overtaken
      <4>1. /\ \A p \in Pairs : {p[1], p[2]} # Between(h) =>
                  requests'[p] = requests[p] /\ friendship'[p] = friendship[p]
            /\ overtaken \subseteq overtaken'
        BY StepLocal
      <4>2. QED
        BY <2>2, <3>1, <4>1
    <3>3. QED
      BY <3>2 DEF PairsKept, PairKept, AreFriends, PendingBetween
  <2>3. QED
    BY <2>1, <2>2
<1>3. QED
  BY <1>1, <1>2, TypeStep

(* A step that touches no request or friendship row. *)
LEMMA PromiseQuiet ==
    ASSUME PromiseInv, NEW h \in Handlers, Step(h),
           UNCHANGED <<requests, friendship>>, ~At(h, "befriend")',
           Distinct(h)', FindingsHold(h)'
    PROVE  PromiseInv'
<1>1. overtaken \subseteq overtaken'
  BY StepLocal DEF PromiseInv
<1>2. \A a, b \in Users : {a, b} \notin overtaken' => PairKept(a, b)'
  BY <1>1 DEF PromiseInv, PairsKept, PairKept, AreFriends, PendingBetween
<1>3. NoSelfRequest'
  BY DEF PromiseInv, NoSelfRequest
<1>4. QED
  BY <1>2, <1>3, PromiseFrame

(* At the other steps of a handler there is nothing to know. *)
LEMMA NoFindings ==
    ASSUME NEW h, job'[h].pc \notin SendPC \union {"update", "befriend"}
    PROVE  Distinct(h)' /\ FindingsHold(h)' /\ ~At(h, "befriend")'
BY DEF Distinct, FindingsHold, RelyPC, SendPC, At

LEMMA FinishedFindings ==
    ASSUME TypeOK, NEW h \in Handlers, Finish(h)
    PROVE  Distinct(h)' /\ FindingsHold(h)' /\ ~At(h, "befriend")'
<1>1. job'[h].pc = "idle"
  BY DEF Finish, Idle, TypeOK
<1>2. QED
  BY <1>1, NoFindings DEF SendPC
LEMMA PromiseStep ==
    ASSUME PromiseInv, NEW h \in Handlers, Step(h)
    PROVE  PromiseInv'
<1> DEFINE f == job[h].from
           t == job[h].to
<1>0. /\ TypeOK /\ ~At(h, "idle")
      /\ f \in Users /\ t \in Users
      /\ <<f, t>> \in Pairs /\ <<t, f>> \in Pairs
      /\ Distinct(h) /\ FindingsHold(h)
      /\ NoSelfRequest /\ PairsKept
      /\ Between(h) = {f, t}
      /\ overtaken \subseteq overtaken'
  BY StepLocal DEF PromiseInv, Busy, Pairs, Between
<1>f. Finish(h) => Distinct(h)' /\ FindingsHold(h)' /\ ~At(h, "befriend")'
  BY <1>0, FinishedFindings
<1>1. CASE SendCheckFriends(h)
  <2>1. CASE AreFriends(f, t)
    BY <1>1, <1>f, <2>1, PromiseQuiet DEF SendCheckFriends
  <2>2. CASE ~AreFriends(f, t)
    <3>1. job'[h].pc = "checkPending" /\ job'[h].from = f /\ job'[h].to = t
      BY <1>0, <1>1, <2>2, GotoFields DEF SendCheckFriends
    <3>2. Distinct(h)' /\ FindingsHold(h)' /\ ~At(h, "befriend")'
      BY <1>0, <1>1, <2>2, <3>1
         DEF SendCheckFriends, Distinct, FindingsHold, Found, At, SendPC, AreFriends
    <3>3. QED
      BY <1>1, <3>2, PromiseQuiet DEF SendCheckFriends
  <2>3. QED
    BY <2>1, <2>2
<1>2. CASE SendCheckPending(h)
  <2>1. CASE PendingBetween(f, t)
    BY <1>2, <1>f, <2>1, PromiseQuiet DEF SendCheckPending
  <2>2. CASE ~PendingBetween(f, t)
    <3>1. job'[h].pc = "checkAny" /\ job'[h].from = f /\ job'[h].to = t
      BY <1>0, <1>2, <2>2, GotoFields DEF SendCheckPending
    <3>2. Distinct(h)' /\ FindingsHold(h)' /\ ~At(h, "befriend")'
      BY <1>0, <1>2, <2>2, <3>1
         DEF SendCheckPending, Distinct, FindingsHold, Found, RelyPC, Between, At, SendPC,
             AreFriends, PendingBetween
    <3>3. QED
      BY <1>2, <3>2, PromiseQuiet DEF SendCheckPending
  <2>3. QED
    BY <2>1, <2>2
<1>3. CASE SendCheckAny(h)
  <2>1. job'[h].pc = "writeRequest" /\ job'[h].from = f /\ job'[h].to = t
    BY <1>0, <1>3, StepLocal DEF SendCheckAny, TypeOK, At
  <2>2. Distinct(h)' /\ FindingsHold(h)' /\ ~At(h, "befriend")'
    BY <1>0, <1>3, <2>1
       DEF SendCheckAny, Distinct, FindingsHold, Found, RelyPC, Between, At, SendPC,
           AreFriends, PendingBetween
  <2>3. QED
    BY <1>3, <2>2, PromiseQuiet DEF SendCheckAny
<1>4. CASE SendWriteRequest(h)
  <2>1. CASE Finish(h) /\ UNCHANGED requests
    BY <1>4, <1>f, <2>1, PromiseQuiet DEF SendWriteRequest
  <2>2. CASE /\ requests' = [requests EXCEPT ![<<f, t>>] = "pending"]
             /\ Writes(h)
             /\ Goto(h, "publishRequest")
    <3>1. f # t
      BY <1>0, <1>4 DEF SendWriteRequest, Distinct, At, SendPC
    <3>2. /\ requests'[<<f, t>>] = "pending"
          /\ \A p \in Pairs : p # <<f, t>> => requests'[p] = requests[p]
          /\ UNCHANGED friendship
      BY <1>0, <1>4, <2>2 DEF TypeOK, SendWriteRequest
    <3>3. ASSUME NEW a \in Users, NEW b \in Users, {a, b} = Between(h), {a, b} \notin overtaken'
          PROVE  PairKept(a, b)'
      <4>1. ~AreFriends(f, t) /\ ~PendingBetween(f, t)
        BY <1>0, <1>4, <3>3 DEF SendWriteRequest, FindingsHold, Found, RelyPC, At
      <4>2. <<a, b>> = <<f, t>> \/ <<a, b>> = <<t, f>>
        BY <1>0, <3>3
      <4>3. QED
        BY <1>0, <3>1, <3>2, <4>1, <4>2 DEF PairKept, AreFriends, PendingBetween
    <3>4. NoSelfRequest'
      BY <1>0, <3>1, <3>2 DEF NoSelfRequest, Pairs
    <3>5. Distinct(h)' /\ FindingsHold(h)'
      BY <1>0, <2>2, GotoFields, NoFindings DEF SendPC
    <3>6. QED
      BY <2>2, <3>3, <3>4, <3>5, PromiseFrame
  <2>3. QED
    BY <1>4, <2>1, <2>2 DEF SendWriteRequest
<1>5. CASE SendPublish(h)
  BY <1>5, <1>f, PromiseQuiet DEF SendPublish
<1>6. CASE RespondUpdate(h)
  <2>1. /\ requests'[<<f, t>>] \in {"accepted", "rejected"}
        /\ \A p \in Pairs : p # <<f, t>> => requests'[p] = requests[p]
        /\ UNCHANGED friendship
        /\ Writes(h)
        /\ f # t
    BY <1>0, <1>6 DEF RespondUpdate, TypeOK, Distinct, At
  <2>2. \A p \in Pairs : requests'[p] = "pending" => requests[p] = "pending"
    BY <2>1
  <2>3. ASSUME NEW a \in Users, NEW b \in Users, {a, b} = Between(h), {a, b} \notin overtaken'
        PROVE  PairKept(a, b)'
    <3>1. PairKept(a, b)
      BY <1>0, <2>3 DEF PairsKept
    <3>2. QED
      BY <2>1, <2>2, <3>1 DEF PairKept, AreFriends, PendingBetween, Pairs
  <2>4. NoSelfRequest'
    BY <2>1 DEF NoSelfRequest, Pairs, PromiseInv
  <2>5. Distinct(h)' /\ FindingsHold(h)'
    <3>1. CASE job[h].choice = "accept"
      <4>1. job'[h].pc = "befriend" /\ job'[h].from = f /\ job'[h].to = t
        BY <1>0, <1>6, <3>1, GotoFields DEF RespondUpdate
      <4>2. ASSUME {f, t} \notin overtaken'
            PROVE  /\ requests'[<<f, t>>] # "pending" /\ requests'[<<t, f>>] # "pending"
                   /\ friendship'[<<f, t>>] = NoRow /\ friendship'[<<t, f>>] = NoRow
                   /\ \A g \in Handlers \ {h} :
                         job'[g].pc = "befriend" => {job'[g].from, job'[g].to} # {f, t}
        <5>1. requests[<<f, t>>] = "pending"
          BY <1>0, <1>6, <4>2 DEF RespondUpdate, FindingsHold, Found, RelyPC, At
        <5>2. PairKept(f, t)
          BY <1>0, <4>2 DEF PairsKept
        <5>3. ASSUME NEW g \in Handlers \ {h}, job'[g].pc = "befriend"
              PROVE  {job'[g].from, job'[g].to} # {f, t}
          <6>1. job'[g] = job[g]
            BY StepLocal, <1>0
          <6>2. job[g].pc \in RelyPC
            BY <5>3, <6>1 DEF RelyPC
          <6>3. Between(g) # Between(h)
            BY <1>0, <2>1, <4>2, <6>2, WritesAlone
          <6>4. QED
            BY <1>0, <6>1, <6>3 DEF Between
        <5>4. QED
          BY <1>0, <2>1, <5>1, <5>2, <5>3 DEF PairKept, AreFriends, PendingBetween
      <4>3. QED
        BY <2>1, <4>1, <4>2
           DEF Distinct, FindingsHold, Found, Between, At, SendPC, PendingBetween, AreFriends
    <3>2. CASE job[h].choice # "accept"
      BY <1>0, <1>6, <3>2, GotoFields, NoFindings DEF RespondUpdate, SendPC
    <3>3. QED
      BY <3>1, <3>2
  <2>6. QED
    BY <2>1, <2>3, <2>4, <2>5, PromiseFrame
<1>7. CASE RespondBefriend(h)
  <2>1. CASE Finish(h) /\ UNCHANGED friendship
    BY <1>7, <1>f, <2>1, PromiseQuiet DEF RespondBefriend
  <2>2. CASE Goto(h, "publishAccepted") /\ Writes(h)
    <3>1. UNCHANGED requests
      BY <1>7 DEF RespondBefriend
    <3>2. Distinct(h)' /\ FindingsHold(h)'
      BY <1>0, <2>2, GotoFields, NoFindings DEF SendPC
    <3>3. ASSUME NEW a \in Users, NEW b \in Users, {a, b} = Between(h), {a, b} \notin overtaken'
          PROVE  PairKept(a, b)'
      <4>1. ~PendingBetween(f, t)
        BY <1>0, <1>7, <3>3 DEF RespondBefriend, FindingsHold, Found, RelyPC, At
      <4>2. <<a, b>> = <<f, t>> \/ <<a, b>> = <<t, f>>
        BY <1>0, <3>3
      <4>3. QED
        BY <3>1, <4>1, <4>2 DEF PairKept, PendingBetween
    <3>4. NoSelfRequest'
      BY <1>0, <3>1 DEF NoSelfRequest
    <3>5. QED
      BY <2>2, <3>2, <3>3, <3>4, PromiseFrame
  <2>3. QED
    BY <1>7, <2>1, <2>2 DEF RespondBefriend
<1>8. CASE RespondPublishAccepted(h)
  <2>1. Distinct(h)' /\ FindingsHold(h)' /\ ~At(h, "befriend")'
    BY <1>0, <1>8, GotoFields, NoFindings DEF RespondPublishAccepted, SendPC
  <2>2. QED
    BY <1>8, <2>1, PromiseQuiet DEF RespondPublishAccepted
<1>9. CASE RespondPublishResponse(h)
  BY <1>9, <1>f, PromiseQuiet DEF RespondPublishResponse
<1>10. CASE RemoveDelete(h)
  <2>1. \A p \in Pairs : friendship[p] = NoRow => friendship'[p] = NoRow
    BY <1>10 DEF RemoveDelete
  <2>2. \A a, b \in Users : AreFriends(a, b)' => AreFriends(a, b)
    BY <2>1 DEF AreFriends, Pairs
  <2>3. \A a, b \in Users : {a, b} \notin overtaken' => PairKept(a, b)'
    BY <1>0, <1>10, <2>2 DEF RemoveDelete, PairsKept, PairKept, PendingBetween
  <2>4. NoSelfRequest' /\ UNCHANGED requests
    BY <1>0, <1>10 DEF RemoveDelete, NoSelfRequest
  <2>5. QED
    BY <1>10, <1>f, <2>1, <2>3, <2>4, PromiseFrame DEF RemoveDelete
<1>11. QED
  BY <1>1, <1>2, <1>3, <1>4, <1>5, <1>6, <1>7, <1>8, <1>9, <1>10 DEF Step

LEMMA PromiseBegin ==
    ASSUME PromiseInv, NEW h \in Handlers, Begin(h)
    PROVE  /\ Distinct(h)' /\ FindingsHold(h)' /\ ~At(h, "befriend")'
           /\ ~At(h, "idle")' /\ At(h, "idle")
           /\ \A g \in Handlers : g # h => job'[g] = job[g]
           /\ UNCHANGED <<requests, friendship, overtaken>>
<1> USE DEF PromiseInv
<1>1. ASSUME NEW u \in Users, NEW v \in Users, SendFindCode(h, u, v)
      PROVE  Distinct(h)' /\ FindingsHold(h)' /\ job'[h].pc = "checkFriends"
  BY <1>1 DEF SendFindCode, Distinct, FindingsHold, Found, RelyPC, At, SendPC, TypeOK
<1>2. ASSUME NEW u \in Users, NEW p \in Pairs, NEW c \in {"accept", "reject"},
             RespondFind(h, u, p, c)
      PROVE  Distinct(h)' /\ FindingsHold(h)' /\ job'[h].pc = "update"
  <2>1. <<p[1], p[2]>> = p
    BY DEF Pairs
  <2>2. p[1] # p[2]
    BY <1>2, <2>1 DEF RespondFind, NoSelfRequest, Pairs
  <2>3. QED
    BY <1>2, <2>1, <2>2
       DEF RespondFind, Distinct, FindingsHold, Found, RelyPC, At, SendPC, TypeOK
<1>3. ASSUME NEW u \in Users, NEW v \in Users, RemoveFind(h, u, v)
      PROVE  Distinct(h)' /\ FindingsHold(h)' /\ job'[h].pc = "delete"
  BY <1>3, NoFindings DEF RemoveFind, SendPC, TypeOK
<1>4. /\ At(h, "idle")
      /\ \A g \in Handlers : g # h => job'[g] = job[g]
      /\ UNCHANGED <<requests, friendship, overtaken>>
  BY DEF Begin, SendFindCode, RespondFind, RemoveFind, TypeOK
<1>5. QED
  BY <1>1, <1>2, <1>3, <1>4 DEF Begin, At

LEMMA PromiseNext == PromiseInv /\ [Next]_vars => PromiseInv'
<1> SUFFICES ASSUME PromiseInv, [Next]_vars PROVE PromiseInv'
  OBVIOUS
<1>k. ASSUME UNCHANGED <<requests, friendship, overtaken>>,
             \A h \in Handlers :
                \/ job'[h] = job[h]
                \/ Distinct(h)' /\ FindingsHold(h)' /\ ~At(h, "befriend")'
      PROVE  PromiseInv'
  <2>1. \A h \in Handlers : At(h, "befriend")' => At(h, "befriend") /\ job'[h] = job[h]
    BY <1>k DEF At
  <2>2. ASSUME NEW h \in Handlers, job'[h] = job[h] PROVE Distinct(h)' /\ FindingsHold(h)'
    BY <1>k, <2>1, <2>2
       DEF PromiseInv, Distinct, FindingsHold, Found, Between, At, AreFriends, PendingBetween
  <2>3. NoSelfRequest' /\ PairsKept'
    BY <1>k DEF PromiseInv, NoSelfRequest, PairsKept, PairKept, AreFriends, PendingBetween
  <2>4. QED
    BY <1>k, <2>2, <2>3, TypeNext DEF PromiseInv
<1>1. CASE \E h \in Handlers : Begin(h)
  BY <1>1, <1>k, PromiseBegin
<1>2. CASE \E h \in Handlers : Step(h)
  BY <1>2, PromiseStep
<1>3. CASE Codes
  BY <1>3, <1>k DEF Codes, GenerateInviteCode, ExpireInviteCode
<1>4. CASE Deliver
  BY <1>4, <1>k DEF Deliver
<1>5. ASSUME NEW h \in Mortal, Crash(h)
      PROVE  PromiseInv'
  <2>1. Distinct(h)' /\ FindingsHold(h)' /\ ~At(h, "befriend")'
    BY <1>5, MortalAssumption, FinishedFindings DEF Crash, PromiseInv
  <2>2. QED
    BY <1>5, <1>k, <2>1 DEF Crash, Finish, PromiseInv, TypeOK
<1>6. CASE UNCHANGED vars
  BY <1>6, <1>k DEF vars
<1>7. QED
  BY <1>1, <1>2, <1>3, <1>4, <1>5, <1>6 DEF Next

LEMMA PromiseCorrect == Spec => []PromiseInv
<1>1. QED
  BY PromiseInit, PromiseNext, PTL DEF Spec
--------------------------------------------------------------------------------
(***************************************************************************)
(* Refinement: Friends implements FriendsAbs.  Writing the request row is  *)
(* Ask, creating the friendship row is Accept, a rejection or a death      *)
(* between update and create is Decline, deleting the row is Remove, and a *)
(* write under the eyes of another handler is Lose.  Every other step      *)
(* changes nothing of the abstract variables.                              *)
(***************************************************************************)

Asked == {p \in Pairs : /\ {p[1], p[2]} \notin overtaken
                        /\ \/ requests[p] = "pending"
                           \/ \E h \in Handlers : Accepting(h, p)}
Befriended == {{p[1], p[2]} : p \in {q \in Pairs : /\ friendship[q] # NoRow
                                                    /\ {q[1], q[2]} \notin overtaken}}

LEMMA AbsInit == Init => Abs!Init
<1> SUFFICES ASSUME Init PROVE Abs!Init
  OBVIOUS
<1>1. Asked = {}
  BY DEF Init, Asked, Accepting, At, Idle
<1>2. Befriended = {}
  BY DEF Init, Befriended
<1>3. QED
  BY <1>1, <1>2 DEF Abs!Init, Asked, Befriended, Init

(* the abstract steps, in terms of the mapped variables *)
LEMMA AbsAsk ==
    ASSUME NEW a \in Users, NEW b \in Users,
           overtaken' = overtaken, {a, b} \notin overtaken,
           a # b, {a, b} \notin Befriended,
           <<a, b>> \notin Asked, <<b, a>> \notin Asked,
           Asked' = Asked \union {<<a, b>>}, Befriended' = Befriended
    PROVE  Abs!Next
BY DEF Abs!Next, Abs!Ask, Asked, Befriended

(* ... answers a request, one way or the other, ... *)
LEMMA AbsAnswer ==
    ASSUME NEW a \in Users, NEW b \in Users,
           overtaken' = overtaken,
           <<a, b>> \in Asked, Asked' = Asked \ {<<a, b>>},
           Befriended' = Befriended \union {{a, b}} \/ Befriended' = Befriended
    PROVE  Abs!Next
BY DEF Abs!Next, Abs!Accept, Abs!Decline, Asked, Befriended

(* ... ends a friendship, ... *)
LEMMA AbsRemove ==
    ASSUME NEW a \in Users, NEW b \in Users,
           overtaken' = overtaken,
           {a, b} \in Befriended, Befriended' = Befriended \ {{a, b}},
           Asked' = Asked
    PROVE  Abs!Next
BY DEF Abs!Next, Abs!Remove, Asked, Befriended

(* ... or ends the promise to a pair. *)
LEMMA AbsLose ==
    ASSUME NEW a \in Users, NEW b \in Users,
           {a, b} \notin overtaken, overtaken' = overtaken \union {{a, b}},
           Asked' = Asked \ {<<a, b>>, <<b, a>>},
           Befriended' = Befriended \ {{a, b}}
    PROVE  Abs!Next
BY DEF Abs!Next, Abs!Lose, Asked, Befriended

(* A step that changes none of the three is a stutter of the abstract service. *)
LEMMA AbsStutter ==
    ASSUME Asked' = Asked, Befriended' = Befriended, overtaken' = overtaken
    PROVE  UNCHANGED Abs!vars
BY DEF Abs!vars, Asked, Befriended

(* What a step of a handler does not touch of the mapped variables: whatever *)
(* is about other users.                                                     *)
LEMMA AbsLocal ==
    ASSUME TypeOK, NEW h \in Handlers, Step(h)
    PROVE  /\ \A p \in Pairs : {p[1], p[2]} # Between(h) => (p \in Asked' <=> p \in Asked)
           /\ \A p \in Pairs : {p[1], p[2]} # Between(h) =>
                 /\ (friendship'[p] # NoRow <=> friendship[p] # NoRow)
                 /\ ({p[1], p[2]} \in overtaken' <=> {p[1], p[2]} \in overtaken)
<1>1. /\ \A g \in Handlers : g # h => job'[g] = job[g]
      /\ job'[h].pc # "idle" => job'[h].from = job[h].from /\ job'[h].to = job[h].to
      /\ \A p \in Pairs : {p[1], p[2]} # Between(h) =>
            requests'[p] = requests[p] /\ friendship'[p] = friendship[p]
      /\ overtaken \subseteq overtaken'
      /\ overtaken' \subseteq overtaken \union {Between(h)}
  BY StepLocal
<1>2. ASSUME NEW p \in Pairs, {p[1], p[2]} # Between(h), NEW g \in Handlers
      PROVE  Accepting(g, p)' <=> Accepting(g, p)
  <2>1. CASE g # h
    BY <1>1, <2>1 DEF Accepting, At
  <2>2. CASE g = h
    BY <1>1, <1>2, <2>2 DEF Accepting, At, Between
  <2>3. QED
    BY <2>1, <2>2
<1>3. QED
  BY <1>1, <1>2 DEF Asked

LEMMA AbsStep ==
    ASSUME ConsentInv, PromiseInv, NEW h \in Handlers, Step(h)
    PROVE  Abs!Next \/ UNCHANGED Abs!vars
<1> DEFINE f == job[h].from
           t == job[h].to
<1>0. /\ TypeOK /\ ~At(h, "idle")
      /\ f \in Users /\ t \in Users
      /\ <<f, t>> \in Pairs /\ <<t, f>> \in Pairs
      /\ Distinct(h) /\ FindingsHold(h) /\ PairsKept
      /\ Between(h) = {f, t}
      /\ overtaken \subseteq overtaken'
      /\ overtaken' \subseteq overtaken \union {{f, t}}
      /\ \A g \in Handlers : g # h => job'[g] = job[g]
  BY StepLocal DEF PromiseInv, Busy, Pairs, Between
<1>a. /\ Asked \subseteq Pairs /\ Asked' \subseteq Pairs
      /\ \A p \in Pairs : {p[1], p[2]} = {f, t} => p = <<f, t>> \/ p = <<t, f>>
      /\ \A p \in Pairs : p # <<f, t>> /\ p # <<t, f>> =>
            /\ (p \in Asked' <=> p \in Asked)
            /\ (friendship'[p] # NoRow <=> friendship[p] # NoRow)
            /\ ({p[1], p[2]} \in overtaken' <=> {p[1], p[2]} \in overtaken)
  <2>1. \A p \in Pairs : {p[1], p[2]} = {f, t} => p = <<f, t>> \/ p = <<t, f>>
    BY DEF Pairs
  <2>2. Asked \subseteq Pairs /\ Asked' \subseteq Pairs
    BY DEF Asked
  <2>3. QED
    BY <1>0, <2>1, <2>2, AbsLocal
(* a pair of which nothing is promised any more *)
<1>A. CASE {f, t} \in overtaken
  <2>1. overtaken' = overtaken
    BY <1>0, <1>A
  <2>2. <<f, t>> \notin Asked /\ <<t, f>> \notin Asked /\ <<f, t>> \notin Asked' /\ <<t, f>> \notin Asked'
    BY <1>A, <2>1 DEF Asked
  <2>3. Asked' = Asked
    <3>1. \A p \in Pairs : p \in Asked' <=> p \in Asked
      BY <1>a, <2>2
    <3>2. QED
      BY <1>a, <3>1
  <2>4. \A q \in Pairs : friendship'[q] # NoRow /\ {q[1], q[2]} \notin overtaken'
                            <=> friendship[q] # NoRow /\ {q[1], q[2]} \notin overtaken
    <3>1. \A q \in {<<f, t>>, <<t, f>>} : {q[1], q[2]} \in overtaken
      BY <1>A
    <3>2. QED
      BY <1>a, <2>1, <3>1
  <2>5. Befriended' = Befriended
    BY <2>4 DEF Befriended
  <2>6. QED
    BY <2>1, <2>3, <2>5, AbsStutter
(* a pair of which nothing is promised from now on *)
<1>B. CASE {f, t} \notin overtaken /\ {f, t} \in overtaken'
  <2>1. overtaken' = overtaken \union {{f, t}}
    BY <1>0, <1>B
  <2>2. <<f, t>> \notin Asked' /\ <<t, f>> \notin Asked'
    BY <1>B DEF Asked
  <2>3. Asked' = Asked \ {<<f, t>>, <<t, f>>}
    BY <1>a, <2>2
  <2>4. \A q \in Pairs : friendship'[q] # NoRow /\ {q[1], q[2]} \notin overtaken'
           <=> friendship[q] # NoRow /\ {q[1], q[2]} \notin overtaken /\ {q[1], q[2]} # {f, t}
    BY <1>a, <1>B, <2>1
  <2>5. Befriended' = Befriended \ {{f, t}}
    BY <2>4 DEF Befriended
  <2>6. QED
    BY <1>0, <1>B, <2>1, <2>3, <2>5, AbsLose
(* a pair nobody has overtaken *)
<1>C. CASE {f, t} \notin overtaken'
  <2>0. /\ overtaken' = overtaken /\ {f, t} \notin overtaken
        /\ PairKept(f, t)
        /\ job[h].pc \in RelyPC => Found(h)
    <3>1. overtaken' = overtaken /\ {f, t} \notin overtaken
      BY <1>0, <1>C
    <3>2. PairKept(f, t)
      BY <1>0, <3>1 DEF PairsKept
    <3>3. job[h].pc \in RelyPC => Found(h)
      BY <1>0, <3>1 DEF FindingsHold
    <3>4. QED
      BY <3>1, <3>2, <3>3
  <2>b. UNCHANGED friendship => Befriended' = Befriended
    BY <2>0 DEF Befriended
  <2>i. Finish(h) => job'[h].pc = "idle"
    BY <1>0 DEF Finish, Idle, TypeOK
  <2>w. ASSUME Writes(h), NEW g \in Handlers, g # h
        PROVE  /\ ~Accepting(g, <<f, t>>) /\ ~Accepting(g, <<t, f>>)
               /\ job'[g] = job[g]
    BY <1>0, <1>C, <2>w, WritesAlone DEF Accepting, At, Between, RelyPC
  <2>x. ASSUME NEW p \in {<<f, t>>, <<t, f>>}, Writes(h)
        PROVE  /\ p \in Asked <=> requests[p] = "pending" \/ Accepting(h, p)
               /\ p \in Asked' <=> \/ requests'[p] = "pending"
                                   \/ job'[h].pc = "befriend" /\ <<job'[h].from, job'[h].to>> = p
    <3>1. p \in Pairs /\ {p[1], p[2]} = {f, t}
      BY <1>0
    <3>2. \A g \in Handlers : g # h => ~Accepting(g, p) /\ job'[g] = job[g]
      BY <2>w, <2>x
    <3>3. \A g \in Handlers : job'[g].pc = "befriend" /\ <<job'[g].from, job'[g].to>> = p => g = h
      BY <3>2 DEF Accepting, At
    <3>4. p \in Asked <=> requests[p] = "pending" \/ Accepting(h, p)
      BY <2>0, <3>1, <3>2 DEF Asked
    <3>5. p \in Asked' <=> \/ requests'[p] = "pending"
                           \/ job'[h].pc = "befriend" /\ <<job'[h].from, job'[h].to>> = p
      BY <1>C, <3>1, <3>3 DEF Asked, Accepting, At
    <3>6. QED
      BY <3>4, <3>5
  <2>s. ASSUME UNCHANGED <<requests, friendship>>, ~At(h, "befriend"), ~At(h, "befriend")'
        PROVE  UNCHANGED Abs!vars
    <3>1. \A g \in Handlers, p \in Pairs : Accepting(g, p)' <=> Accepting(g, p)
      BY <1>0, <2>s DEF Accepting, At
    <3>2. Asked' = Asked
      BY <2>s, <2>0, <3>1 DEF Asked
    <3>3. QED
      BY <2>s, <2>b, <2>0, <3>2, AbsStutter
  <2>1. CASE SendCheckFriends(h)
    <3>1. job'[h].pc \in {"idle", "checkPending"}
      BY <1>0, <2>1, <2>i, GotoFields DEF SendCheckFriends
    <3>2. QED
      BY <2>1, <2>s, <3>1 DEF SendCheckFriends, At
  <2>2. CASE SendCheckPending(h)
    <3>1. job'[h].pc \in {"idle", "checkAny"}
      BY <1>0, <2>2, <2>i, GotoFields DEF SendCheckPending
    <3>2. QED
      BY <2>2, <2>s, <3>1 DEF SendCheckPending, At
  <2>3. CASE SendCheckAny(h)
    <3>1. job[h] \in Busy
      BY <1>0, BusyJob
    <3>2. job'[h].pc = "writeRequest"
      BY <1>0, <2>3, <3>1 DEF SendCheckAny, TypeOK, Busy
    <3>3. QED
      BY <2>3, <2>s, <3>2 DEF SendCheckAny, At
  <2>4. CASE SendWriteRequest(h)
    <3>1. CASE Finish(h) /\ UNCHANGED requests
      BY <2>4, <2>s, <2>i, <3>1 DEF SendWriteRequest, At
    <3>2. CASE /\ requests' = [requests EXCEPT ![<<f, t>>] = "pending"]
               /\ Writes(h)
               /\ Goto(h, "publishRequest")
      <4>1. f # t /\ ~AreFriends(f, t) /\ ~PendingBetween(f, t)
        BY <1>0, <2>0, <2>4 DEF SendWriteRequest, Distinct, Found, RelyPC, At, SendPC
      <4>2. /\ job'[h].pc = "publishRequest" /\ At(h, "writeRequest")
            /\ requests'[<<f, t>>] = "pending" /\ requests'[<<t, f>>] = requests[<<t, f>>]
        BY <1>0, <2>4, <3>2, <4>1, GotoFields DEF SendWriteRequest, TypeOK
      <4>3. /\ <<f, t>> \notin Asked /\ <<t, f>> \notin Asked
            /\ <<f, t>> \in Asked' /\ <<t, f>> \notin Asked'
        BY <2>x, <3>2, <4>1, <4>2 DEF PendingBetween, Accepting, At
      <4>4. Asked' = Asked \union {<<f, t>>}
        BY <1>0, <1>a, <4>3
      <4>5. {f, t} \notin Befriended
        BY <1>a, <4>1 DEF Befriended, AreFriends
      <4>6. Befriended' = Befriended
        BY <2>4, <2>b DEF SendWriteRequest
      <4>7. QED
        BY <1>0, <2>0, <4>1, <4>3, <4>4, <4>5, <4>6, AbsAsk
    <3>3. QED
      BY <2>4, <3>1, <3>2 DEF SendWriteRequest
  <2>5. CASE SendPublish(h)
    BY <2>5, <2>s, <2>i DEF SendPublish, At
  <2>6. CASE RespondUpdate(h)
    <3>1. /\ requests[<<f, t>>] = "pending" /\ requests[<<t, f>>] # "pending"
          /\ requests'[<<f, t>>] # "pending" /\ requests'[<<t, f>>] # "pending"
          /\ Writes(h) /\ At(h, "update") /\ f # t
      BY <1>0, <2>0, <2>6
         DEF RespondUpdate, Found, RelyPC, At, TypeOK, Distinct, PairKept
    <3>2. Befriended' = Befriended
      BY <2>6, <2>b DEF RespondUpdate
    <3>3. CASE job[h].choice = "accept"
      <4>1. job'[h].pc = "befriend" /\ job'[h].from = f /\ job'[h].to = t
        BY <1>0, <2>6, <3>3, GotoFields DEF RespondUpdate
      <4>2. /\ <<f, t>> \in Asked /\ <<f, t>> \in Asked'
            /\ <<t, f>> \notin Asked /\ <<t, f>> \notin Asked'
        BY <2>x, <3>1, <4>1 DEF Accepting, At
      <4>3. Asked' = Asked
        <5>1. \A p \in Pairs : p \in Asked' <=> p \in Asked
          BY <1>a, <4>2
        <5>2. QED
          BY <1>a, <5>1
      <4>4. QED
        BY <2>0, <3>2, <4>3, AbsStutter
    <3>4. CASE job[h].choice # "accept"
      <4>1. job'[h].pc = "publishResponse"
        BY <1>0, <2>6, <3>4, GotoFields DEF RespondUpdate
      <4>2. /\ <<f, t>> \in Asked /\ <<f, t>> \notin Asked'
            /\ <<t, f>> \notin Asked /\ <<t, f>> \notin Asked'
        BY <2>x, <3>1, <4>1 DEF Accepting, At
      <4>3. Asked' = Asked \ {<<f, t>>}
        BY <1>a, <4>2
      <4>4. QED
        BY <1>0, <2>0, <3>2, <4>2, <4>3, AbsAnswer
    <3>5. QED
      BY <3>3, <3>4
  <2>7. CASE RespondBefriend(h)
    <3> DEFINE key == FriendshipKey(f, t)
    <3>1. /\ At(h, "befriend") /\ f # t
          /\ ~PendingBetween(f, t) /\ ~AreFriends(f, t)
      BY <1>0, <2>0, <2>7 DEF RespondBefriend, Found, RelyPC, Distinct, At
    <3>2. key \in {<<f, t>>, <<t, f>>}
      BY DEF FriendshipKey
    <3>3. friendship[key] = NoRow
      BY <3>1, <3>2 DEF AreFriends
    <3>4. PICK r \in RowIds : friendship' = [friendship EXCEPT ![key] = r]
      BY <2>7, <3>3 DEF RespondBefriend
    <3>5. job'[h].pc = "publishAccepted" /\ UNCHANGED requests /\ Writes(h)
      BY <1>0, <2>7, <3>3, GotoFields DEF RespondBefriend
    <3>6. /\ <<f, t>> \in Asked /\ <<f, t>> \notin Asked'
          /\ <<t, f>> \notin Asked /\ <<t, f>> \notin Asked'
      BY <2>x, <3>1, <3>5 DEF Accepting, At, PendingBetween
    <3>7. Asked' = Asked \ {<<f, t>>}
      BY <1>a, <3>6
    <3>8. Befriended' = Befriended \union {{f, t}}
      <4>1. /\ friendship'[key] # NoRow
            /\ \A p \in Pairs : p # key => friendship'[p] = friendship[p]
        BY <1>0, <3>2, <3>4, RowsAssumption DEF TypeOK
      <4>2. key \in Pairs /\ {key[1], key[2]} = {f, t}
        BY <1>0, <3>2
      <4>3. ASSUME NEW p \in Pairs
            PROVE  friendship'[p] # NoRow <=> friendship[p] # NoRow \/ p = key
        BY <3>3, <4>1
      <4>4. QED
        BY <2>0, <4>2, <4>3 DEF Befriended
    <3>9. QED
      BY <1>0, <2>0, <3>6, <3>7, <3>8, AbsAnswer
  <2>8. CASE RespondPublishAccepted(h)
    <3>1. job'[h].pc = "publishResponse"
      BY <1>0, <2>8, GotoFields DEF RespondPublishAccepted
    <3>2. QED
      BY <2>8, <2>s, <3>1 DEF RespondPublishAccepted, At
  <2>9. CASE RespondPublishResponse(h)
    BY <2>9, <2>s, <2>i DEF RespondPublishResponse, At
  <2>10. CASE RemoveDelete(h)
    <3>1. Asked' = Asked
      <4>1. \A g \in Handlers, p \in Pairs : Accepting(g, p)' <=> Accepting(g, p)
        BY <1>0, <2>10, <2>i DEF RemoveDelete, Accepting, At
      <4>2. QED
        BY <2>0, <2>10, <4>1 DEF RemoveDelete, Asked
    <3>2. \A p \in Pairs : p \notin {<<f, t>>, <<t, f>>} => friendship'[p] = friendship[p]
      BY <2>10 DEF RemoveDelete
    <3>3. \A p \in Pairs : friendship'[p] # friendship[p] => friendship'[p] = NoRow
      BY <2>10 DEF RemoveDelete
    <3>4. CASE friendship' = friendship
      BY <2>0, <2>b, <3>1, <3>4, AbsStutter
    <3>5. CASE friendship' # friendship
      <4>1. PICK p \in Pairs : friendship'[p] # friendship[p]
        BY <1>0, <2>10, <3>5 DEF RemoveDelete, TypeOK
      <4>2. p \in {<<f, t>>, <<t, f>>} /\ friendship[p] # NoRow
        BY <3>2, <3>3, <4>1
      <4>3. \A q \in {<<f, t>>, <<t, f>>} : q # p => friendship[q] = NoRow
        <5>1. f \in Int /\ t \in Int
          BY <1>0, UsersAssumption
        <5>2. /\ friendship[<<f, t>>] # NoRow => ~(t < f)
              /\ friendship[<<t, f>>] # NoRow => ~(f < t)
          BY <1>0 DEF ConsentInv, RowsAgreed
        <5>3. QED
          BY <4>2, <5>1, <5>2
      <4>4. \A q \in Pairs : friendship'[q] # NoRow <=> friendship[q] # NoRow /\ q # p
        BY <3>2, <3>3, <4>1, <4>2, <4>3
      <4>5. \A q \in Pairs : friendship[q] # NoRow /\ {q[1], q[2]} = {f, t} => q = p
        BY <1>a, <4>2, <4>3
      <4>6. {p[1], p[2]} = {f, t}
        BY <4>2
      <4>7. {f, t} \in Befriended
        BY <2>0, <4>2, <4>6 DEF Befriended
      <4>8. \A q \in Pairs : friendship'[q] # NoRow /\ {q[1], q[2]} \notin overtaken'
               <=> friendship[q] # NoRow /\ {q[1], q[2]} \notin overtaken
                   /\ {q[1], q[2]} # {f, t}
        BY <2>0, <4>4, <4>5, <4>6
      <4>9. Befriended' = Befriended \ {{f, t}}
        BY <4>8 DEF Befriended
      <4>10. QED
        BY <1>0, <2>0, <3>1, <4>7, <4>9, AbsRemove
    <3>6. QED
      BY <3>4, <3>5
  <2>11. QED
    BY <2>1, <2>2, <2>3, <2>4, <2>5, <2>6, <2>7, <2>8, <2>9, <2>10 DEF Step
<1>Z. QED
  BY <1>A, <1>B, <1>C

LEMMA AbsNext == ConsentInv /\ PromiseInv /\ [Next]_vars => [Abs!Next]_(Abs!vars)
<1> SUFFICES ASSUME ConsentInv, PromiseInv, [Next]_vars
             PROVE  Abs!Next \/ UNCHANGED Abs!vars
  OBVIOUS
<1>k. ASSUME UNCHANGED <<requests, friendship, overtaken>>,
             \A g \in Handlers :
                \/ job'[g] = job[g]
                \/ ~At(g, "befriend") /\ ~At(g, "befriend")'
      PROVE  UNCHANGED Abs!vars
  <2>1. \A g \in Handlers, p \in Pairs : Accepting(g, p)' <=> Accepting(g, p)
    BY <1>k DEF Accepting, At
  <2>2. Asked' = Asked /\ Befriended' = Befriended
    BY <1>k, <2>1 DEF Asked, Befriended
  <2>3. QED
    BY <1>k, <2>2, AbsStutter
<1>1. ASSUME NEW h \in Handlers, Begin(h)
      PROVE  UNCHANGED Abs!vars
  <2>1. ~At(h, "befriend") /\ ~At(h, "befriend")'
    BY <1>1, PromiseBegin DEF At
  <2>2. QED
    BY <1>1, <1>k, <2>1, PromiseBegin
<1>2. CASE \E h \in Handlers : Step(h)
  BY <1>2, AbsStep
<1>3. CASE Codes
  BY <1>3, <1>k DEF Codes, GenerateInviteCode, ExpireInviteCode
<1>4. CASE Deliver
  BY <1>4, <1>k DEF Deliver
<1>5. ASSUME NEW h \in Mortal, Crash(h)
      PROVE  Abs!Next \/ UNCHANGED Abs!vars
  <2>1. /\ UNCHANGED <<requests, friendship, overtaken>>
        /\ h \in Handlers /\ ~At(h, "befriend")' /\ ~At(h, "idle")
        /\ \A g \in Handlers : g # h => job'[g] = job[g]
    BY <1>5, MortalAssumption DEF Crash, Finish, At, Idle, PromiseInv, TypeOK
  <2>2. CASE At(h, "befriend") /\ Between(h) \notin overtaken
    <3> DEFINE f == job[h].from
               t == job[h].to
    <3>1. f \in Users /\ t \in Users /\ <<f, t>> \in Pairs /\ {f, t} \notin overtaken
      BY <2>1, <2>2, BusyJob DEF PromiseInv, Busy, Pairs, Between
    <3>2. Found(h)
      BY <2>1, <2>2 DEF PromiseInv, FindingsHold, RelyPC, At
    <3>3. \A g \in Handlers, p \in Pairs : Accepting(g, p)' <=> Accepting(g, p) /\ g # h
      BY <2>1 DEF Accepting, At
    <3>4. \A g \in Handlers, p \in Pairs :
             Accepting(h, p) /\ Accepting(g, p) => g = h /\ p = <<f, t>>
      BY <2>1, <2>2, <3>2 DEF Found, Accepting, At, Between, Pairs
    <3>5. <<f, t>> \in Asked /\ Asked' = Asked \ {<<f, t>>}
      <4>1. requests[<<f, t>>] # "pending" /\ Accepting(h, <<f, t>>)
        BY <2>2, <3>2 DEF Found, At, PendingBetween, Accepting
      <4>2. \A p \in Pairs : Accepting(h, p) => p = <<f, t>>
        BY <2>1, <3>4
      <4>3. ASSUME NEW p \in Pairs
            PROVE  (\E g \in Handlers : Accepting(g, p)') <=>
                   (\E g \in Handlers : Accepting(g, p)) /\ p # <<f, t>>
        BY <2>1, <3>3, <3>4, <4>1, <4>2, <4>3
      <4>4. QED
        BY <2>1, <3>1, <4>1, <4>3 DEF Asked
    <3>6. Befriended' = Befriended
      BY <2>1 DEF Befriended
    <3>7. QED
      BY <2>1, <3>1, <3>5, <3>6, AbsAnswer
  <2>3. CASE At(h, "befriend") /\ Between(h) \in overtaken
    <3>1. \A g \in Handlers, p \in Pairs :
             {p[1], p[2]} \notin overtaken => (Accepting(g, p)' <=> Accepting(g, p))
      BY <2>1, <2>3 DEF Accepting, At, Between
    <3>2. Asked' = Asked /\ Befriended' = Befriended
      BY <2>1, <3>1 DEF Asked, Befriended
    <3>3. QED
      BY <2>1, <3>2, AbsStutter
  <2>4. CASE ~At(h, "befriend")
    BY <1>k, <2>1, <2>4
  <2>5. QED
    BY <2>2, <2>3, <2>4
<1>6. CASE UNCHANGED vars
  BY <1>6, <1>k DEF vars
<1>7. QED
  BY <1>1, <1>2, <1>3, <1>4, <1>5, <1>6 DEF Next

(* Whatever overlaps and whichever handler dies, the service is FriendsAbs: *)
(* two users only ever move between strangers, asked and friends, one whole *)
(* HTTP request at a time, until a row of theirs is written between another *)
(* handler's reading and its writing.                                       *)
THEOREM ImplementsCorrect == Spec => ImplementsFriendsAbs
<1>1. Init => Abs!Init
  BY AbsInit
<1>2. ConsentInv /\ PromiseInv /\ [Next]_vars => [Abs!Next]_(Abs!vars)
  BY AbsNext
<1>3. QED
  BY <1>1, <1>2, ConsentCorrect, PromiseCorrect, PTL DEF Spec, Abs!Spec, ImplementsFriendsAbs
--------------------------------------------------------------------------------
(***************************************************************************)
(* What the refinement says of the request rows themselves: the pairs that *)
(* are not overtaken have no second pending request, none between friends  *)
(* and no answer changed.  Without overlapping requests that is all pairs. *)
(***************************************************************************)

(* Two users never have a pending request in each direction, nor one while  *)
(* they are friends, until a row of theirs is written between another       *)
(* handler's reading and its writing; whatever else overlaps or crashes.    *)
THEOREM PairsKeptCorrect == Spec => []PairsKept
<1>1. PromiseInv => PairsKept
  BY DEF PromiseInv
<1>2. QED
  BY <1>1, PromiseCorrect, PTL

(* what a step may do to the row of request p *)
AnswerKept(p) ==
    requests[p] \in {"accepted", "rejected"} /\ requests'[p] # requests[p]
        => requests'[p] = "pending"

AnswersKept == [][\A p \in Pairs : {p[1], p[2]} \notin overtaken' => AnswerKept(p)]_vars

(* Only two steps write a request row: sending stores "pending", and an answer is *)
(* written over a request that is still pending, as its handler found it.         *)
LEMMA AnswerStep ==
    ASSUME PromiseInv, NEW h \in Handlers, Step(h), NEW p \in Pairs,
           {p[1], p[2]} \notin overtaken'
    PROVE  AnswerKept(p)
<1> DEFINE q == <<job[h].from, job[h].to>>
<1>1. requests \in [Pairs -> Status]
  BY DEF PromiseInv, TypeOK
<1>2. CASE SendWriteRequest(h)
  <2>1. requests' = requests \/ requests' = [requests EXCEPT ![q] = "pending"]
    BY <1>2 DEF SendWriteRequest
  <2> HIDE DEF q
  <2>2. QED
    BY <1>1, <2>1 DEF AnswerKept
<1>3. CASE RespondUpdate(h)
  <2>1. \E s \in Status : requests' = [requests EXCEPT ![q] = s]
    BY <1>3 DEF RespondUpdate, Status
  <2>2. p = q => requests[q] = "pending"
    <3>1. overtaken \subseteq overtaken' /\ job[h].pc \in RelyPC
      BY <1>3, StepLocal DEF PromiseInv, RespondUpdate, At, RelyPC
    <3>2. p = q => Between(h) \notin overtaken
      BY <3>1 DEF Between
    <3>3. QED
      BY <1>3, <3>1, <3>2 DEF RespondUpdate, PromiseInv, FindingsHold, Found
  <2> HIDE DEF q
  <2>3. QED
    BY <1>1, <2>1, <2>2 DEF AnswerKept
<1>4. CASE ~(SendWriteRequest(h) \/ RespondUpdate(h))
  <2>1. UNCHANGED requests
    BY <1>4 DEF Step, SendCheckFriends, SendCheckPending, SendCheckAny, SendPublish,
                RespondBefriend, RespondPublishAccepted, RespondPublishResponse, RemoveDelete
  <2>2. QED
    BY <2>1 DEF AnswerKept
<1>5. QED
  BY <1>2, <1>3, <1>4

LEMMA AnswerNext ==
    ASSUME PromiseInv, [Next]_vars, NEW p \in Pairs, {p[1], p[2]} \notin overtaken'
    PROVE  AnswerKept(p)
<1>1. CASE \E h \in Handlers : Step(h)
  BY <1>1, AnswerStep
<1>2. CASE ~\E h \in Handlers : Step(h)
  <2>1. UNCHANGED requests
    BY <1>2 DEF Next, Begin, SendFindCode, RespondFind, RemoveFind, Codes,
                GenerateInviteCode, ExpireInviteCode, Deliver, Crash, vars
  <2>2. QED
    BY <2>1 DEF AnswerKept
<1>3. QED
  BY <1>1, <1>2

(* An answered request keeps its answer until it is sent again, unless a row *)
(* of its users is written between another handler's reading and its writing.*)
THEOREM AnswersKeptCorrect == Spec => AnswersKept
<1>1. PromiseInv /\ [Next]_vars =>
        [\A p \in Pairs : {p[1], p[2]} \notin overtaken' => AnswerKept(p)]_vars
  BY AnswerNext
<1>2. QED
  BY <1>1, PromiseCorrect, PTL DEF Spec, AnswersKept

(* no two requests overlap *)
Serial == \A g, h \in Handlers : g = h

LEMMA SerialFree == ASSUME Serial PROVE Spec => [](overtaken = {})
<1>1. Init => overtaken = {}
  BY DEF Init
<1>2. ASSUME NEW h \in Handlers, Writes(h) PROVE UNCHANGED overtaken
  BY <1>2 DEF Writes, Serial
<1>3. ASSUME NEW h \in Handlers, Step(h) PROVE UNCHANGED overtaken
  BY <1>2, <1>3 DEF Step, SendCheckFriends, SendCheckPending, SendCheckAny, SendWriteRequest,
         SendPublish, RespondUpdate, RespondBefriend, RespondPublishAccepted,
         RespondPublishResponse, RemoveDelete
<1>4. overtaken = {} /\ [Next]_vars => (overtaken = {})'
  BY <1>3 DEF Next, Begin, SendFindCode, RespondFind, RemoveFind, Codes,
              GenerateInviteCode, ExpireInviteCode, Deliver, Crash, vars
<1>5. QED
  BY <1>1, <1>4, PTL DEF Spec

(* Without overlapping requests the service keeps its promise: two users    *)
(* never have a pending request in each direction, for any number of users  *)
(* and any crashes.                                                         *)
THEOREM SerialNoDuplicates == ASSUME Serial PROVE Spec => []NoDuplicateRequests
<1>1. PairsKept /\ overtaken = {} => NoDuplicateRequests
  BY DEF PairsKept, PairKept, NoDuplicateRequests
<1>2. QED
  BY <1>1, PairsKeptCorrect, SerialFree, PTL

(* Without overlapping requests friends have no request left to answer.     *)
THEOREM SerialNoRequestBetweenFriends ==
    ASSUME Serial PROVE Spec => []NoRequestBetweenFriends
<1>1. PairsKept /\ overtaken = {} => NoRequestBetweenFriends
  BY DEF PairsKept, PairKept, NoRequestBetweenFriends
<1>2. QED
  BY <1>1, PairsKeptCorrect, SerialFree, PTL

(* Without overlapping requests an answer is final: neither a second answer nor  *)
(* a crash changes an answered request, only sending it again does.              *)
THEOREM SerialAnswerIsFinal == ASSUME Serial PROVE Spec => AnswerIsFinal
<1>1. PromiseInv /\ (overtaken = {})' /\ [Next]_vars =>
        [\A p \in Pairs :
            requests[p] \in {"accepted", "rejected"} /\ requests'[p] # requests[p]
               => requests'[p] = "pending"]_requests
  BY AnswerNext DEF AnswerKept
<1>2. QED
  BY <1>1, PromiseCorrect, SerialFree, PTL DEF Spec, AnswerIsFinal
================================================================================
