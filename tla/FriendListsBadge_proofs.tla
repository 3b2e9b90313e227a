-------------------------- MODULE FriendListsBadge_proofs --------------------------
(* Theorems about what FriendLists counts: the copies in its bags, which are all of  *)
(* finite sets, and the badge.                                                       *)
EXTENDS FiniteSetTheorems, FriendLists_proofs

(***************************************************************************)
(* Sizes of lists.                                                         *)
(***************************************************************************)

(* A bag of finitely many members. *)
GoodBag(B) == IsABag(B) /\ IsFiniteSet(DOMAIN B)

(* The entries of finitely many members are finitely many. *)
LEMMA EntriesFinite ==
    ASSUME NEW B, GoodBag(B)
    PROVE  IsFiniteSet(Entries(B))
<1> DEFINE f == [x \in DOMAIN B |-> {x} \X (1..B[x])]
           T == {f[x] : x \in DOMAIN B}
<1>1. IsFiniteSet(DOMAIN B) /\ \A x \in DOMAIN B : B[x] \in Nat
  BY DEF GoodBag, IsABag
<1>2. IsFiniteSet(T)
  <2>1. f \in Surjection(DOMAIN B, T)
    BY DEF Surjection
  <2>2. QED
    BY <1>1, <2>1, FS_Surjection
<1>3. \A t \in T : IsFiniteSet(t)
  <2>1. SUFFICES ASSUME NEW x \in DOMAIN B
                 PROVE  IsFiniteSet({x} \X (1..B[x]))
    OBVIOUS
  <2>2. IsFiniteSet({x})
    BY FS_Singleton
  <2>3. IsFiniteSet(1..B[x])
    BY <1>1, FS_Interval
  <2>4. QED
    BY <2>2, <2>3, FS_Product
<1>4. IsFiniteSet(UNION T)
  BY <1>2, <1>3, FS_UNION
<1>5. UNION T = Entries(B)
  BY DEF Entries
<1>6. QED
  BY <1>4, <1>5

(* So a bag has a number of entries. *)
LEMMA SizeNat ==
    ASSUME NEW B, GoodBag(B)
    PROVE  Size(B) \in Nat
BY EntriesFinite, FS_CardinalityType DEF Size

(* A list that shows each user once is as long as the users are many. *)
LEMMA SizeOfSet ==
    ASSUME NEW S, IsFiniteSet(S)
    PROVE  Size(SetToBag(S)) = Cardinality(S)
<1>1. Entries(SetToBag(S)) = S \X {1}
  <2>1. DOMAIN SetToBag(S) = S /\ \A x \in S : SetToBag(S)[x] = 1
    BY DEF SetToBag
  <2>2. 1..1 = {1}
    OBVIOUS
  <2>3. Entries(SetToBag(S)) = UNION {{x} \X {1} : x \in S}
    BY <2>1, <2>2 DEF Entries
  <2>4. QED
    BY <2>3
<1>2. IsFiniteSet({1}) /\ Cardinality({1}) = 1
  BY FS_Singleton
<1>3. Cardinality(S) \in Nat
  BY FS_CardinalityType
<1>4. Cardinality(S \X {1}) = Cardinality(S) * 1
  BY <1>2, FS_Product
<1>5. QED
  BY <1>1, <1>3, <1>4 DEF Size

(* Of finitely many rows finitely many are of one kind. *)
LEMMA OfFinite ==
    ASSUME NEW kind, NEW data, IsFiniteSet(data)
    PROVE  IsFiniteSet(Of(kind, data))
<1> DEFINE g == [u \in Of(kind, data) |-> <<kind, u>>]
<1>1. g \in Injection(Of(kind, data), data)
  BY DEF Injection, IsInjective, Of
<1>2. QED
  BY <1>1, FS_Injection

(* The count of the requests received is that of their senders. *)
LEMMA CountOfRows ==
    ASSUME NEW data, data \subseteq Rows, IsFiniteSet(data), \A r \in data : r[1] = "received"
    PROVE  Cardinality(data) = Cardinality(Of("received", data))
<1>1. data = {"received"} \X Of("received", data)
  BY DEF Of, Rows
<1>2. IsFiniteSet(Of("received", data)) /\ Cardinality(Of("received", data)) \in Nat
  BY OfFinite, FS_CardinalityType
<1>3. IsFiniteSet({"received"}) /\ Cardinality({"received"}) = 1
  BY FS_Singleton
<1>4. Cardinality(data) = 1 * Cardinality(Of("received", data))
  BY <1>1, <1>2, <1>3, FS_Product
<1>5. QED
  BY <1>2, <1>4

(***************************************************************************)
(* Bags stay bags, of finitely many members.                               *)
(***************************************************************************)
LEMMA GoodBagWith ==
    ASSUME NEW B, GoodBag(B), NEW x
    PROVE  GoodBag(With(B, x))
<1>1. IsFiniteSet(DOMAIN B \union {x})
  BY FS_AddElement DEF GoodBag
<1>2. IsABag(With(B, x))
  BY DEF GoodBag, IsABag, With, (+), SetToBag
<1>3. QED
  BY <1>1, <1>2, WithDomain DEF GoodBag

(* One copy is taken away ... *)
LEMMA GoodBagLess ==
    ASSUME NEW B, GoodBag(B), NEW x \in DOMAIN B
    PROVE  GoodBag(Less(B, x))
<1>1. IsFiniteSet(DOMAIN Less(B, x))
  BY LessDomain, FS_Subset DEF GoodBag
<1>2. IsABag(Less(B, x))
  BY DEF GoodBag, IsABag, Less, Without, Restrict
<1>3. QED
  BY <1>1, <1>2 DEF GoodBag

(* ... or all of them ... *)
LEMMA GoodBagWithout ==
    ASSUME NEW B, GoodBag(B), NEW x
    PROVE  GoodBag(Without(B, x)) /\ DOMAIN Without(B, x) \subseteq DOMAIN B
<1>1. DOMAIN Without(B, x) = DOMAIN B \ {x}
  BY DEF Without, Restrict
<1>2. IsFiniteSet(DOMAIN B \ {x})
  BY FS_RemoveElement DEF GoodBag
<1>3. IsABag(Without(B, x))
  BY DEF GoodBag, IsABag, Without, Restrict
<1>4. QED
  BY <1>1, <1>2, <1>3 DEF GoodBag

(* ... or two bags are put together. *)
LEMMA GoodBagPlus ==
    ASSUME NEW B, NEW C, GoodBag(B), GoodBag(C)
    PROVE  GoodBag(B (+) C)
<1>1. IsFiniteSet(DOMAIN B \union DOMAIN C)
  BY FS_Union DEF GoodBag
<1>2. IsABag(B (+) C)
  BY DEF GoodBag, IsABag, (+)
<1>3. QED
  BY <1>1, <1>2, PlusDomain DEF GoodBag

(* A set is a bag with one copy of each. *)
LEMMA GoodBagOfSet ==
    ASSUME NEW S, IsFiniteSet(S)
    PROVE  GoodBag(SetToBag(S)) /\ DOMAIN SetToBag(S) = S
BY SetDomain DEF GoodBag, IsABag, SetToBag

(* The empty list is a bag. *)
LEMMA GoodBagEmpty == GoodBag(EmptyBag) /\ DOMAIN EmptyBag = {}
BY GoodBagOfSet, FS_EmptySet DEF EmptyBag

(* What the handlers make of one event is a bag. *)
LEMMA GoodBagTimes ==
    ASSUME SocketInv, NEW x
    PROVE  GoodBag(Times(x)) /\ DOMAIN Times(x) \subseteq {x}
<1>1. IsFiniteSet({x})
  BY FS_Singleton
<1>2. CASE handlers = 0
  BY <1>2, GoodBagEmpty DEF Times
<1>3. CASE handlers = 1
  BY <1>1, <1>3, TimesDomain, GoodBagOfSet
<1>4. QED
  BY <1>2, <1>3 DEF SocketInv

(* The calls left behind by a tab or a page: each has been one of the calls. *)
LEMMA GoodBagOrphaned ==
    ASSUME NEW by, GoodBag(calls)
    PROVE  GoodBag(Orphaned(by))
<1> DEFINE left == {Left(by, c) : c \in DOMAIN calls}
           kept == {c \in left : c.by = "gone" => c.op \notin Reads}
           copies(d) == {e \in Entries(calls) : Left(by, e[1]) = d}
           f == [c \in DOMAIN calls |-> Left(by, c)]
<1>1. IsFiniteSet(kept)
  <2>1. f \in Surjection(DOMAIN calls, left)
    BY DEF Surjection
  <2>2. IsFiniteSet(left)
    BY <2>1, FS_Surjection DEF GoodBag
  <2>3. QED
    BY <2>2, FS_Subset
<1>2. \A d \in kept : Cardinality(copies(d)) \in {n \in Nat : n > 0}
  <2>1. SUFFICES ASSUME NEW d \in kept
                 PROVE  Cardinality(copies(d)) \in Nat /\ Cardinality(copies(d)) # 0
    OBVIOUS
  <2>2. PICK c \in DOMAIN calls : d = Left(by, c)
    OBVIOUS
  <2>3. calls[c] \in Nat /\ calls[c] > 0
    BY DEF GoodBag, IsABag
  <2>4. <<c, 1>> \in {c} \X (1..calls[c])
    BY <2>3
  <2>5. <<c, 1>> \in Entries(calls)
    BY <2>4 DEF Entries
  <2>6. <<c, 1>> \in copies(d)
    BY <2>2, <2>5
  <2>7. IsFiniteSet(copies(d))
    BY EntriesFinite, FS_Subset
  <2>8. QED
    BY <2>6, <2>7, FS_CardinalityType, FS_EmptySet
<1>3. Orphaned(by) = [d \in kept |-> Cardinality(copies(d))]
  BY DEF Orphaned
<1>4. IsABag(Orphaned(by)) /\ DOMAIN Orphaned(by) = kept
  BY <1>2, <1>3 DEF IsABag
<1>5. QED
  BY <1>1, <1>4 DEF GoodBag
--------------------------------------------------------------------------------
(* What a call carries is finitely many rows, and a count those received only. *)
GoodDatum(c) == IsFiniteSet(c.data) /\ (c.op = "count" => \A r \in c.data : r[1] = "received")

CallsGood == GoodBag(calls) /\ \A c \in DOMAIN calls : GoodDatum(c)

(* A call that is asked carries nothing yet. *)
LEMMA AsksDatum ==
    ASSUME NEW op, NEW who, NEW by
    PROVE  GoodDatum(Asks(op, who, by))
BY FS_EmptySet DEF GoodDatum, Asks

(* Calls are added ... *)
LEMMA CallsGoodPlus ==
    ASSUME CallsGood, NEW K, GoodBag(K), \A c \in DOMAIN K : GoodDatum(c),
           calls' = calls (+) K
    PROVE  CallsGood'
<1>1. GoodBag(calls') /\ DOMAIN calls' = DOMAIN calls \union DOMAIN K
  BY GoodBagPlus, PlusDomain DEF CallsGood
<1>2. QED
  BY <1>1 DEF CallsGood

(* ... taken away ... *)
LEMMA CallsGoodLess ==
    ASSUME CallsGood, NEW c \in DOMAIN calls, calls' = Less(calls, c)
    PROVE  CallsGood'
<1>1. GoodBag(calls') /\ DOMAIN calls' \subseteq DOMAIN calls
  BY GoodBagLess, LessDomain DEF CallsGood
<1>2. QED
  BY <1>1 DEF CallsGood

(* ... or served. *)
LEMMA CallsGoodServed ==
    ASSUME CallsGood, NEW c \in DOMAIN calls, NEW d, GoodDatum(d),
           calls' = With(Less(calls, c), d)
    PROVE  CallsGood'
<1>1. PICK rest : rest = Less(calls, c)
  OBVIOUS
<1>2. GoodBag(rest) /\ DOMAIN rest \subseteq DOMAIN calls
  BY <1>1, GoodBagLess, LessDomain DEF CallsGood
<1>3. calls' = With(rest, d)
  BY <1>1
<1>4. GoodBag(calls') /\ DOMAIN calls' = DOMAIN rest \union {d}
  BY <1>2, <1>3, GoodBagWith, WithDomain
<1>5. QED
  BY <1>2, <1>4 DEF CallsGood

(* Calls that lose their tab or page carry what they did. *)
LEMMA CallsGoodOrphaned ==
    ASSUME CallsGood, CallsPast, NEW by \in {"gone", "chat"}, calls' = Orphaned(by)
    PROVE  CallsGood'
<1>1. GoodBag(calls')
  BY GoodBagOrphaned DEF CallsGood
<1>2. ASSUME NEW c \in DOMAIN calls'
      PROVE  GoodDatum(c)
  <2>1. PICK d \in DOMAIN calls : c = Left(by, d)
    BY <1>2, OrphanedDomain
  <2>2. d \in Call /\ GoodDatum(d)
    BY <2>1 DEF CallsPast, GoodCall, CallsGood
  <2>3. c.data = d.data /\ c.op = d.op
    BY <2>1, <2>2 DEF Left, Call
  <2>4. QED
    BY <2>2, <2>3 DEF GoodDatum
<1>3. QED
  BY <1>1, <1>2 DEF CallsGood

(* What the tab and the page ask for. *)
LEMMA TabAsksGood ==
    GoodBag(TabAsks) /\ \A c \in DOMAIN TabAsks : GoodDatum(c)
<1> DEFINE a == Asks("lists", Nobody, "tab")
           b == Asks("friends", Nobody, "tab")
<1>1. IsFiniteSet({a, b})
  <2>1. IsFiniteSet({a})
    BY FS_Singleton
  <2>2. IsFiniteSet({a} \union {b})
    BY <2>1, FS_AddElement
  <2>3. {a, b} = {a} \union {b}
    OBVIOUS
  <2>4. QED
    BY <2>2, <2>3
<1>2. GoodBag(TabAsks) /\ DOMAIN TabAsks = {a, b}
  BY <1>1, GoodBagOfSet DEF TabAsks
<1>3. QED
  BY <1>2, AsksDatum

(* One call that is asked, as a bag. *)
LEMMA AskGood ==
    ASSUME NEW op, NEW who, NEW by, NEW a, a = Asks(op, who, by)
    PROVE  GoodBag(SetToBag({a})) /\ \A c \in DOMAIN SetToBag({a}) : GoodDatum(c)
<1>1. IsFiniteSet({a})
  BY FS_Singleton
<1>2. QED
  BY <1>1, GoodBagOfSet, AsksDatum

(* Every step keeps the calls finitely many, and what they carry. *)
LEMMA CallsGoodNext ==
    ASSUME CallsGood, IsFiniteSet(rows), SocketInv, CallsPast, [Next]_vars
    PROVE  CallsGood'
<1>1. CASE calls' = calls
  BY <1>1 DEF CallsGood
<1>2. CASE EnterChat \/ OpenFriends
  <2>1. PICK a : a = Asks("count", Nobody, "chat")
    OBVIOUS
  <2>2. PICK K : K = TabAsks
    OBVIOUS
  <2>3. GoodBag(K) /\ \A c \in DOMAIN K : GoodDatum(c)
    BY <2>2, TabAsksGood
  <2>4. PICK A : A = SetToBag({a})
    OBVIOUS
  <2>5. GoodBag(A) /\ \A c \in DOMAIN A : GoodDatum(c)
    BY <2>1, <2>4, AskGood
  <2>6. calls' = calls (+) K \/ calls' = (calls (+) K) (+) A
    BY <1>2, <2>1, <2>2, <2>4 DEF EnterChat, OpenFriends
  <2>7. PICK B : B = calls (+) K
    OBVIOUS
  <2>8. GoodBag(B) /\ \A c \in DOMAIN B : GoodDatum(c)
    BY <2>3, <2>7, GoodBagPlus, PlusDomain DEF CallsGood
  <2>9. CASE calls' = B
    BY <2>8, <2>9 DEF CallsGood
  <2>10. CASE calls' = B (+) A
    <3>1. GoodBag(calls') /\ DOMAIN calls' = DOMAIN B \union DOMAIN A
      BY <2>5, <2>8, <2>10, GoodBagPlus, PlusDomain
    <3>2. QED
      BY <2>5, <2>8, <3>1 DEF CallsGood
  <2>11. QED
    BY <2>6, <2>7, <2>9, <2>10
<1>3. CASE OpenSettings \/ OpenConversations \/ LogsOut
  <2>1. calls' = Orphaned("gone") \/ calls' = Orphaned("chat")
    BY <1>3 DEF OpenSettings, OpenConversations, LogsOut
  <2>2. QED
    BY <2>1, CallsGoodOrphaned
<1>4. CASE \E op \in {"send", "accept", "reject", "remove"}, u \in Others : User(op, u)
  <2>1. PICK op, u : calls' = With(calls, Asks(op, u, "tab"))
    BY <1>4 DEF User
  <2>2. PICK a : a = Asks(op, u, "tab")
    OBVIOUS
  <2>3. PICK K : K = SetToBag({a})
    OBVIOUS
  <2>4. calls' = calls (+) K
    BY <2>1, <2>2, <2>3 DEF With
  <2>5. GoodBag(K) /\ \A c \in DOMAIN K : GoodDatum(c)
    BY <2>2, <2>3, AskGood
  <2>6. QED
    BY <2>4, <2>5, CallsGoodPlus
<1>5. CASE \E c \in DOMAIN calls : ServeRead(c)
  <2>1. PICK c \in DOMAIN calls : ServeRead(c)
    BY <1>5
  <2>2. PICK d : d = [c EXCEPT !.stage = "answered", !.data = Read(c.op), !.n = now]
    OBVIOUS
  <2>3. calls' = With(Less(calls, c), d)
    BY <2>1, <2>2 DEF ServeRead
  <2>4. c \in Call
    BY DEF CallsPast, GoodCall
  <2>5. d.data = Read(c.op) /\ d.op = c.op
    BY <2>2, <2>4 DEF Call
  <2>6. IsFiniteSet(Read(c.op))
    BY FS_Subset DEF Read
  <2>7. c.op = "count" => \A r \in Read(c.op) : r[1] = "received"
    BY DEF Read
  <2>8. GoodDatum(d)
    BY <2>5, <2>6, <2>7 DEF GoodDatum
  <2>9. QED
    BY <2>3, <2>8, CallsGoodServed
<1>6. CASE \E c \in DOMAIN calls : ServeWrite(c)
  <2>1. PICK c \in DOMAIN calls : ServeWrite(c)
    BY <1>6
  <2>2. PICK d : d = [c EXCEPT !.stage = "answered", !.n = now']
    OBVIOUS
  <2>3. calls' = With(Less(calls, c), d)
    BY <2>1, <2>2 DEF ServeWrite
  <2>4. c \in Call /\ GoodDatum(c)
    BY DEF CallsPast, GoodCall, CallsGood
  <2>5. d.data = c.data /\ d.op = c.op
    BY <2>2, <2>4 DEF Call
  <2>6. GoodDatum(d)
    BY <2>4, <2>5 DEF GoodDatum
  <2>7. QED
    BY <2>3, <2>6, CallsGoodServed
<1>7. CASE \E c \in DOMAIN calls : \/ ServeRefuses(c)
                                   \/ ListsAnswer(c) \/ CountAnswer(c) \/ FriendsAnswer(c)
                                   \/ SendAnswer(c) \/ RespondAnswer(c) \/ RemoveAnswer(c)
  <2>1. PICK c \in DOMAIN calls : calls' = Less(calls, c)
    BY <1>7 DEF ServeRefuses, ListsAnswer, CountAnswer, FriendsAnswer, SendAnswer, RespondAnswer, RemoveAnswer, Returned
  <2>2. QED
    BY <2>1, CallsGoodLess
<1>8. CASE FriendRequest \/ FriendAccepted
  <2>1. CASE calls' = calls
    BY <1>1, <2>1
  <2>2. CASE calls' # calls
    <3>1. PICK op, by : calls' = calls (+) Times(Asks(op, Nobody, by))
      BY <1>8, <2>2 DEF FriendRequest, FriendAccepted
    <3>2. PICK a : a = Asks(op, Nobody, by)
      OBVIOUS
    <3>3. PICK K : K = Times(a)
      OBVIOUS
    <3>4. GoodBag(K) /\ DOMAIN K \subseteq {a}
      BY <3>3, GoodBagTimes
    <3>5. GoodDatum(a)
      BY <3>2, AsksDatum
    <3>6. calls' = calls (+) K
      BY <3>1, <3>2, <3>3
    <3>7. QED
      BY <3>4, <3>5, <3>6, CallsGoodPlus
  <2>3. QED
    BY <2>1, <2>2
<1>9. CASE Connected \/ Lost \/ FriendRequestResponse \/ Unheard \/ Elsewhere \/ UNCHANGED vars
  <2>1. calls' = calls
    BY <1>9 DEF Connected, Lost, FriendRequestResponse, Unheard, Elsewhere,
                OtherSends, OtherAnswers, OtherRemoves, vars
  <2>2. QED
    BY <1>1, <2>1
<1>10. QED
  BY <1>2, <1>3, <1>4, <1>5, <1>6, <1>7, <1>8, <1>9 DEF Next, Moving, Calling, Hearing
--------------------------------------------------------------------------------
(* The rows are finitely many, and so are the entries of a list. *)
OtherBag(B) == GoodBag(B) /\ DOMAIN B \subseteq Others

Counted ==
    /\ IsFiniteSet(rows)
    /\ OtherBag(received) /\ OtherBag(sent)
    /\ contacts \subseteq Others /\ badge \in Nat

(* A list loaded from an answer ... *)
LEMMA OtherBagOf ==
    ASSUME NEW kind, NEW data, IsFiniteSet(data)
    PROVE  OtherBag(SetToBag(Of(kind, data)))
<1>1. IsFiniteSet(Of(kind, data)) /\ Of(kind, data) \subseteq Others
  BY OfFinite DEF Of
<1>2. QED
  BY <1>1, GoodBagOfSet DEF OtherBag

(* ... one from which a user is filtered out ... *)
LEMMA OtherBagWithout ==
    ASSUME NEW B, OtherBag(B), NEW x
    PROVE  OtherBag(Without(B, x)) /\ Size(Without(B, x)) \in Nat
BY GoodBagWithout, SizeNat DEF OtherBag

(* ... one to which the handlers add a user ... *)
LEMMA OtherBagPlus ==
    ASSUME NEW B, OtherBag(B), NEW C, OtherBag(C)
    PROVE  OtherBag(B (+) C) /\ Size(B (+) C) \in Nat
<1>1. GoodBag(B (+) C)
  BY GoodBagPlus DEF OtherBag
<1>2. DOMAIN (B (+) C) = DOMAIN B \union DOMAIN C
  BY PlusDomain
<1>3. QED
  BY <1>1, <1>2, SizeNat DEF OtherBag

(* ... one that gets a user sent to ... *)
LEMMA OtherBagWith ==
    ASSUME NEW B, OtherBag(B), NEW x \in Others
    PROVE  OtherBag(With(B, x))
<1>1. GoodBag(With(B, x))
  BY GoodBagWith DEF OtherBag
<1>2. DOMAIN With(B, x) = DOMAIN B \union {x}
  BY WithDomain
<1>3. QED
  BY <1>1, <1>2 DEF OtherBag

(* ... and an empty one hold other users, finitely often. *)
LEMMA OtherBagEmpty == OtherBag(EmptyBag)
BY GoodBagEmpty DEF OtherBag

(* A row is added, taken away or both. *)
LEMMA RowsFinite ==
    ASSUME IsFiniteSet(rows), CallsPast, [Next]_vars
    PROVE  IsFiniteSet(rows')
<1>1. rows' = rows \/ \E r, s : rows' \subseteq (rows \union {r}) \union {s}
  <2>1. CASE \E c \in DOMAIN calls : ServeWrite(c)
    <3>1. PICK c \in DOMAIN calls : ServeWrite(c)
      BY <2>1
    <3>2. rows' \subseteq (rows \union {<<"sent", c.who>>}) \union {<<"friend", c.who>>}
      <4>1. \/ rows' = rows \union {<<"sent", c.who>>}
            \/ rows' = (rows \ {<<"received", c.who>>}) \union {<<"friend", c.who>>}
            \/ rows' = rows \ {<<"received", c.who>>}
            \/ rows' = rows \ {<<"friend", c.who>>}
        BY <3>1 DEF ServeWrite, CallsPast, GoodCall, Call, Reads
      <4>2. QED
        BY <4>1
    <3>3. QED
      BY <3>2
  <2>2. CASE Elsewhere
    <3>1. PICK u \in Others : OtherSends(u) \/ (\E accepts \in BOOLEAN : OtherAnswers(u, accepts)) \/ OtherRemoves(u)
      BY <2>2 DEF Elsewhere
    <3>2. rows' \subseteq (rows \union {<<"received", u>>}) \union {<<"friend", u>>}
      BY <3>1 DEF OtherSends, OtherAnswers, OtherRemoves
    <3>3. QED
      BY <3>2
  <2>3. CASE Moving \/ Hearing \/ UNCHANGED vars
    BY <2>3 DEF Moving, Connected, Lost, EnterChat, OpenSettings, OpenConversations, OpenFriends, LogsOut,
                Hearing, FriendRequest, FriendAccepted, FriendRequestResponse, Unheard, vars
  <2>4. CASE Calling /\ ~\E c \in DOMAIN calls : ServeWrite(c)
    BY <2>4 DEF Calling, User, ServeRead, ServeRefuses, ListsAnswer, CountAnswer, FriendsAnswer,
                SendAnswer, RespondAnswer, RemoveAnswer
  <2>5. QED
    BY <2>1, <2>2, <2>3, <2>4 DEF Next
<1>2. ASSUME NEW r, NEW s, rows' \subseteq (rows \union {r}) \union {s}
      PROVE  IsFiniteSet(rows')
  <2>1. IsFiniteSet(rows \union {r})
    BY FS_AddElement
  <2>2. IsFiniteSet((rows \union {r}) \union {s})
    BY <2>1, FS_AddElement
  <2>3. QED
    BY <1>2, <2>2, FS_Subset
<1>3. QED
  BY <1>1, <1>2

(* Every step keeps the lists finite, and the badge a number. *)
LEMMA CountedNext ==
    ASSUME Counted, CallsGood, SocketInv, Past, [Next]_vars
    PROVE  Counted'
<1>1. IsFiniteSet(rows')
  BY RowsFinite DEF Counted, Past
<1>2. /\ OtherBag(received) /\ OtherBag(sent) /\ contacts \subseteq Others /\ badge \in Nat
      /\ \A c \in DOMAIN calls : IsFiniteSet(c.data) /\ (c.op \notin Reads => c.who \in Others)
  BY DEF Counted, CallsGood, GoodDatum, Past, CallsPast, GoodCall
<1>3. SUFFICES OtherBag(received') /\ OtherBag(sent') /\ contacts' \subseteq Others /\ badge' \in Nat
  BY <1>1 DEF Counted, OtherBag, GoodBag, IsABag
<1>4. CASE UNCHANGED lists
  BY <1>2, <1>4 DEF lists
<1>5. CASE OpenSettings \/ OpenConversations \/ LogsOut
  <2>1. /\ received' = EmptyBag /\ sent' = EmptyBag /\ contacts' = {}
        /\ badge' = badge \/ badge' = 0
    BY <1>5 DEF OpenSettings, OpenConversations, LogsOut, UnmountTab
  <2>2. QED
    BY <1>2, <2>1, OtherBagEmpty
<1>6. CASE \E c \in DOMAIN calls : ListsAnswer(c)
  <2>1. PICK c \in DOMAIN calls : ListsAnswer(c)
    BY <1>6
  <2>2. /\ received' = received \/ received' = SetToBag(Of("received", c.data))
        /\ sent' = sent \/ sent' = SetToBag(Of("sent", c.data))
        /\ contacts' = contacts /\ badge' = Cardinality(Of("received", c.data))
    BY <2>1 DEF ListsAnswer
  <2>3. OtherBag(SetToBag(Of("received", c.data))) /\ OtherBag(SetToBag(Of("sent", c.data)))
    BY <1>2, OtherBagOf
  <2>4. Cardinality(Of("received", c.data)) \in Nat
    BY <1>2, OfFinite, FS_CardinalityType
  <2>5. QED
    BY <1>2, <2>2, <2>3, <2>4
<1>7. CASE \E c \in DOMAIN calls : CountAnswer(c) \/ FriendsAnswer(c)
  <2>1. PICK c \in DOMAIN calls : CountAnswer(c) \/ FriendsAnswer(c)
    BY <1>7
  <2>2. /\ received' = received /\ sent' = sent
        /\ contacts' = contacts \/ contacts' = Of("friend", c.data)
        /\ badge' = badge \/ badge' = Cardinality(c.data)
    BY <2>1 DEF CountAnswer, FriendsAnswer
  <2>3. Cardinality(c.data) \in Nat /\ Of("friend", c.data) \subseteq Others
    BY <1>2, FS_CardinalityType DEF Of
  <2>4. QED
    BY <1>2, <2>2, <2>3
<1>8. CASE \E c \in DOMAIN calls : SendAnswer(c) \/ RemoveAnswer(c)
  <2>1. PICK c \in DOMAIN calls : SendAnswer(c) \/ RemoveAnswer(c)
    BY <1>8
  <2>2. /\ received' = received /\ badge' = badge /\ contacts' \subseteq contacts
        /\ sent' = sent \/ (c.op = "send" /\ sent' = With(sent, c.who))
    BY <2>1 DEF SendAnswer, RemoveAnswer
  <2>3. c.op = "send" => OtherBag(With(sent, c.who))
    BY <1>2, OtherBagWith DEF Reads
  <2>4. QED
    BY <1>2, <2>2, <2>3
<1>9. CASE \E c \in DOMAIN calls : RespondAnswer(c)
  <2>1. PICK c \in DOMAIN calls : RespondAnswer(c)
    BY <1>9
  <2>2. PICK rest : rest = Without(received, c.who)
    OBVIOUS
  <2>3. /\ sent' = sent /\ contacts' = contacts
        /\ \/ received' = rest /\ badge' = Size(rest)
           \/ received' = received /\ badge' \in {badge, 0, 1}
    BY <2>1, <2>2 DEF RespondAnswer
  <2>4. OtherBag(rest) /\ Size(rest) \in Nat
    BY <1>2, <2>2, OtherBagWithout
  <2>5. QED
    BY <1>2, <2>3, <2>4
<1>10. CASE FriendRequest
  <2>1. PICK u : u = Head(channel).who
    OBVIOUS
  <2>2. PICK K : K = Times(u)
    OBVIOUS
  <2>3. /\ sent' = sent /\ contacts' = contacts
        /\ \/ received' = received /\ badge' = badge
           \/ received' = received (+) K /\ badge' = Size(received (+) K)
    BY <1>10, <2>1, <2>2 DEF FriendRequest
  <2>4. u \in Others
    <3>1. channel # <<>> /\ channel \in Seq(Event)
      BY <1>10 DEF FriendRequest, Arrives, Past, EventsPast
    <3>2. Head(channel) \in Event
      BY <3>1
    <3>3. QED
      BY <2>1, <3>2 DEF Event
  <2>5. OtherBag(K)
    BY <2>2, <2>4, GoodBagTimes DEF OtherBag
  <2>6. QED
    BY <1>2, <2>3, <2>5, OtherBagPlus
<1>11. CASE FriendRequestResponse
  <2>1. PICK u : u = Head(channel).who
    OBVIOUS
  <2>2. received' = received /\ badge' = badge /\ contacts' = contacts
        /\ (sent' = sent \/ sent' = Without(sent, u))
    BY <1>11, <2>1 DEF FriendRequestResponse
  <2>3. QED
    BY <1>2, <2>2, OtherBagWithout
<1>12. CASE \/ Connected \/ Lost \/ EnterChat \/ OpenFriends \/ FriendAccepted \/ Unheard \/ Elsewhere
            \/ UNCHANGED vars
  <2>1. UNCHANGED lists
    BY <1>12 DEF Connected, Lost, EnterChat, OpenFriends, FriendAccepted, Unheard, Elsewhere,
                 OtherSends, OtherAnswers, OtherRemoves, vars
  <2>2. QED
    BY <1>4, <2>1
<1>13. CASE \/ \E op \in {"send", "accept", "reject", "remove"}, u \in Others : User(op, u)
            \/ \E c \in DOMAIN calls : ServeRead(c) \/ ServeWrite(c) \/ ServeRefuses(c)
  <2>1. UNCHANGED lists
    BY <1>13 DEF User, ServeRead, ServeWrite, ServeRefuses
  <2>2. QED
    BY <1>4, <2>1
<1>14. QED
  BY <1>5, <1>6, <1>7, <1>8, <1>9, <1>10, <1>11, <1>12, <1>13 DEF Next, Moving, Calling, Hearing

(* What the lists that hear, miss or forget something are. *)
LEMMA DoubtTyped ==
    ASSUME doubt \subseteq Lists, NEW ls, ls \subseteq Lists, NEW n,
           \/ \E whole \in BOOLEAN : Hears(ls, n, whole)
           \/ HearsCounted({"received"}, n)
           \/ Misses(ls, n)
           \/ Forgets(ls)
    PROVE  doubt' \subseteq Lists
<1>1. CASE \E whole \in BOOLEAN : Hears(ls, n, whole)
  BY <1>1 DEF Hears
<1>2. CASE HearsCounted({"received"}, n)
  BY <1>2 DEF HearsCounted, Lists
<1>3. CASE Misses(ls, n) \/ Forgets(ls)
  BY <1>3 DEF Misses, Forgets
<1>4. QED
  BY <1>1, <1>2, <1>3

Flags ==
    /\ listenersSetup \in BOOLEAN /\ onResponse \in BOOLEAN /\ view \in Views
    /\ moves \in 0..MaxMoves /\ doubt \subseteq Lists

(* Every step changes only what it says, and to what it may be. *)
LEMMA FlagsNext ==
    ASSUME MaxMoves \in Nat, Flags, [Next]_vars
    PROVE  Flags'
<1>1. /\ listenersSetup' \in BOOLEAN /\ onResponse' \in BOOLEAN /\ view' \in Views
      /\ moves' \in 0..MaxMoves
  <2>1. CASE Moving
    <3>1. CASE Connected \/ Lost
      BY <3>1 DEF Flags, Connected, Lost, Moves
    <3>2. CASE EnterChat
      <4>1. listenersSetup' \in BOOLEAN
        BY <3>2 DEF Flags, EnterChat, ConnectOnce, Connect, SetupListeners
      <4>2. QED
        BY <3>2, <4>1 DEF Flags, EnterChat, Moves, Views
    <3>3. CASE OpenSettings \/ OpenConversations \/ OpenFriends \/ LogsOut
      <4>1. listenersSetup' \in BOOLEAN
        BY <3>3 DEF Flags, OpenSettings, OpenConversations, OpenFriends, LogsOut
      <4>2. onResponse' \in BOOLEAN
        BY <3>3 DEF OpenSettings, OpenConversations, OpenFriends, LogsOut
      <4>3. view' \in Views
        BY <3>3 DEF OpenSettings, OpenConversations, OpenFriends, LogsOut, Views
      <4>4. moves' \in 0..MaxMoves
        BY <3>3 DEF Flags, OpenSettings, OpenConversations, OpenFriends, LogsOut, Moves
      <4>5. QED
        BY <4>1, <4>2, <4>3, <4>4
    <3>4. QED
      BY <2>1, <3>1, <3>2, <3>3 DEF Moving
  <2>2. CASE Calling \/ Hearing \/ Elsewhere \/ UNCHANGED vars
    <3>1. Calling => UNCHANGED <<client, moves>>
      BY DEF Calling, User, ServeRead, ServeWrite, ServeRefuses, ListsAnswer, CountAnswer,
             FriendsAnswer, SendAnswer, RespondAnswer, RemoveAnswer
    <3>2. Hearing => UNCHANGED <<client, moves>>
      BY DEF Hearing, FriendRequest, FriendAccepted, FriendRequestResponse, Unheard
    <3>3. Elsewhere => UNCHANGED <<client, moves>>
      BY DEF Elsewhere, OtherSends, OtherAnswers, OtherRemoves
    <3>4. UNCHANGED <<client, moves>>
      BY <2>2, <3>1, <3>2, <3>3 DEF vars
    <3>5. QED
      BY <3>4 DEF Flags, client
  <2>3. QED
    BY <2>1, <2>2 DEF Next
<1>2. \/ doubt' = doubt
      \/ \E ls \in SUBSET Lists :
            \E n : \/ \E whole \in BOOLEAN : Hears(ls, n, whole)
                  \/ HearsCounted({"received"}, n)
                  \/ Misses(ls, n)
                  \/ Forgets(ls)
  <2>1. /\ {"badge"} \in SUBSET Lists /\ {"contacts"} \in SUBSET Lists /\ {"sent"} \in SUBSET Lists
        /\ {"received", "badge"} \in SUBSET Lists /\ {"received", "sent", "badge"} \in SUBSET Lists
        /\ Lists \in SUBSET Lists /\ Lists \ {"badge"} \in SUBSET Lists
    BY DEF Lists
  <2>2. CASE OpenSettings \/ OpenConversations \/ LogsOut
    <3>1. Forgets(Lists) \/ Forgets(Lists \ {"badge"})
      BY <2>2 DEF OpenSettings, OpenConversations, LogsOut
    <3>2. QED
      BY <2>1, <3>1
  <2>3. CASE \E c \in DOMAIN calls : \/ ListsAnswer(c) \/ CountAnswer(c) \/ FriendsAnswer(c)
                                     \/ SendAnswer(c) \/ RespondAnswer(c) \/ RemoveAnswer(c)
    <3>1. PICK c \in DOMAIN calls : \/ ListsAnswer(c) \/ CountAnswer(c) \/ FriendsAnswer(c)
                                    \/ SendAnswer(c) \/ RespondAnswer(c) \/ RemoveAnswer(c)
      BY <2>3
    <3>2. \/ doubt' = doubt \/ HearsCounted({"received"}, c.n)
          \/ Hears({"received", "sent", "badge"}, c.n, TRUE) \/ Hears({"badge"}, c.n, TRUE)
          \/ Hears({"contacts"}, c.n, TRUE) \/ Hears({"contacts"}, c.n, FALSE) \/ Hears({"sent"}, c.n, FALSE)
          \/ Misses({"sent"}, c.n) \/ Misses({"contacts"}, c.n) \/ Misses({"received", "badge"}, c.n)
      BY <3>1 DEF ListsAnswer, CountAnswer, FriendsAnswer, SendAnswer, RespondAnswer, RemoveAnswer, history
    <3>3. QED
      BY <2>1, <3>2
  <2>4. CASE Hearing
    <3>1. PICK n : n = Head(channel).n
      OBVIOUS
    <3>2. CASE FriendRequest
      <4>1. doubt' = doubt \/ HearsCounted({"received"}, n)
        BY <3>1, <3>2 DEF FriendRequest, history
      <4>2. QED
        BY <2>1, <4>1
    <3>3. CASE FriendAccepted
      BY <3>3 DEF FriendAccepted, history
    <3>4. CASE FriendRequestResponse
      <4>1. doubt' = doubt \/ Hears({"sent"}, n, FALSE)
        BY <3>1, <3>4 DEF FriendRequestResponse, history
      <4>2. QED
        BY <2>1, <4>1
    <3>5. CASE Unheard
      <4>1. PICK ls : ls = CASE Head(channel).type = "request" -> {"received", "badge"}
                             [] Head(channel).type = "accepted" -> {"contacts"}
                             [] Head(channel).type = "response" -> {"sent"}
        OBVIOUS
      <4>2. Misses(ls, n)
        BY <3>1, <3>5, <4>1 DEF Unheard
      <4>3. doubt' \subseteq doubt \union Mounted
        BY <4>2 DEF Misses
      <4>4. Mounted \in SUBSET Lists
        BY DEF Mounted, Lists
      <4>5. Misses(ls \intersect Mounted, n)
        BY <4>2 DEF Misses
      <4>6. QED
        BY <4>4, <4>5
    <3>6. QED
      BY <2>4, <3>2, <3>3, <3>4, <3>5 DEF Hearing
  <2>5. CASE \/ Connected \/ Lost \/ EnterChat \/ OpenFriends \/ Elsewhere \/ UNCHANGED vars
             \/ \E op \in {"send", "accept", "reject", "remove"}, u \in Others : User(op, u)
             \/ \E c \in DOMAIN calls : ServeRead(c) \/ ServeWrite(c) \/ ServeRefuses(c)
    BY <2>5 DEF Connected, Lost, EnterChat, OpenFriends, Elsewhere, OtherSends, OtherAnswers,
                OtherRemoves, Change, User, ServeRead, ServeWrite, ServeRefuses, history, vars
  <2>6. QED
    BY <2>2, <2>3, <2>4, <2>5 DEF Next, Moving, Calling
<1>3. doubt' \subseteq Lists
  BY <1>2, DoubtTyped DEF Flags
<1>4. QED
  BY <1>1, <1>3 DEF Flags

--------------------------------------------------------------------------------
(* The numbers of the past, the bags and the flags together. *)
TypeInv == SocketInv /\ Past /\ CallsGood /\ Counted /\ Flags

(* The first page has empty lists, and nothing under way. *)
LEMMA TypeInvInit == Init => TypeInv
<1> SUFFICES ASSUME Init PROVE TypeInv
    OBVIOUS
<1>1. SocketInv /\ Past
  BY ListsInvInit DEF ListsInv
<1>2. CallsGood
  BY GoodBagEmpty DEF Init, CallsGood
<1>3. IsFiniteSet(rows)
  BY FS_EmptySet, FS_Singleton DEF Init
<1>4. Counted
  BY <1>3, OtherBagEmpty DEF Init, Counted
<1>5. Flags
  <2>1. 0 \in 0..MaxMoves
    BY BoundsAssumption
  <2>2. QED
    BY <2>1 DEF Init, Flags, Views
<1>6. QED
  BY <1>1, <1>2, <1>4, <1>5 DEF TypeInv

(* Every step keeps them. *)
LEMMA TypeInvInductive == TypeInv /\ [Next]_vars => TypeInv'
<1> SUFFICES ASSUME TypeInv, [Next]_vars
             PROVE  TypeInv'
    OBVIOUS
<1>1. SocketInv /\ Past /\ CallsPast /\ CallsGood /\ Counted /\ Flags /\ IsFiniteSet(rows)
  BY DEF TypeInv, Past, Counted
<1>2. SocketInv' /\ Past'
  BY <1>1, BoundsAssumption, SocketInvInductive, PastNext
<1>3. CallsGood' /\ Counted' /\ Flags'
  BY <1>1, BoundsAssumption, CallsGoodNext, CountedNext, FlagsNext
<1>4. QED
  BY <1>2, <1>3 DEF TypeInv

(* However often a tab, the page or the socket comes and goes, the lists are bags of *)
(* other users, and no call is left to a tab that is gone.                           *)
THEOREM TypeCorrect == Spec => []TypeOK
<1>1. TypeInv => TypeOK
  <2>1. SUFFICES ASSUME TypeInv PROVE TypeOK
    OBVIOUS
  <2>2. /\ rows \subseteq Rows /\ \A q, r \in rows : q[2] = r[2] => q = r
        /\ channel \in Seq(Event)
        /\ DOMAIN calls \subseteq Call
        /\ view # "friends" => \A c \in DOMAIN calls : c.by # "tab"
    BY <2>1 DEF TypeInv, Past, RowsOne, EventsPast, CallsPast, GoodCall, TabCalls
  <2>3. now \in 0..MaxChanges /\ newest \in [Lists -> 0..MaxChanges]
    BY <2>1, BoundsAssumption DEF TypeInv, Past, ListsPast
  <2>4. socket \in {"none", "down", "up"} /\ handlers \in Nat
    BY <2>1 DEF TypeInv, SocketInv
  <2>5. /\ IsABag(received) /\ DOMAIN received \subseteq Others
        /\ IsABag(sent) /\ DOMAIN sent \subseteq Others
        /\ contacts \subseteq Others /\ badge \in Nat /\ IsABag(calls)
    BY <2>1 DEF TypeInv, Counted, CallsGood, OtherBag, GoodBag
  <2>6. QED
    BY <2>1, <2>2, <2>3, <2>4, <2>5 DEF TypeInv, Flags, TypeOK
<1>2. QED
  BY <1>1, TypeInvInit, TypeInvInductive, PTL DEF Spec
--------------------------------------------------------------------------------
(***************************************************************************)
(* The badge.  Q holds the reads of the count that were asked, by anyone,  *)
(* A those answered, and S the news of the requests received: events, and  *)
(* answers of the user's own calls.  The page counts anew with each.       *)
(***************************************************************************)

(* something newer than x has been heard, or will be *)
Settling(Q, A, S, N, x) == N > x \/ Q # {} \/ \E w \in A \union S : w.n > x

(* an answer holds the requests that wait, or something newer settles the count; and *)
(* once nothing is under way the badge is the count, or in doubt                     *)
Badge(Q, A, S, R, b, N, D, t) ==
    /\ \A a \in A : Of("received", a.data) = R \/ (a.n < t /\ Settling(Q, A, S, N, a.n))
    /\ "badge" \in D \/ Q # {} \/ A # {} \/ S # {} \/ b = Cardinality(R)

(* Nothing happens to the count; time may pass. *)
LEMMA BadgeIdle ==
    ASSUME NEW Q, NEW A, NEW S, NEW R, NEW b, NEW N, NEW D, NEW t \in Nat, Numbered(A, t),
           Badge(Q, A, S, R, b, N, D, t),
           NEW P, Q \subseteq P, NEW E, "badge" \in D => "badge" \in E, NEW s \in Nat, t <= s
    PROVE  Badge(P, A, S, R, b, N, E, s)
<1>1. \A a \in A : a.n < t => a.n < s
  BY DEF Numbered
<1>2. Q # {} => P # {}
  OBVIOUS
<1>3. QED
  BY <1>1, <1>2 DEF Badge, Settling

(* Once the count is asked for, all else may change but the requests that wait. *)
LEMMA BadgeAsked ==
    ASSUME NEW A, NEW S, NEW R, NEW b, NEW N, NEW D, NEW t,
           \A a \in A : Of("received", a.data) = R \/ a.n < t,
           NEW P, P # {}
    PROVE  Badge(P, A, S, R, b, N, D, t)
BY DEF Badge, Settling

(* The requests that wait change, and news tells of it. *)
LEMMA BadgeChanged ==
    ASSUME NEW A, NEW S, NEW b, NEW N, NEW D, NEW t \in Nat, Numbered(A, t),
           NEW w0, w0.n = t + 1, NEW R, NEW P
    PROVE  Badge(P, A, S \union {w0}, R, b, N, D, t + 1)
<1>1. \A a \in A : a.n < t + 1 /\ w0.n > a.n
  BY DEF Numbered
<1>2. QED
  BY <1>1 DEF Badge, Settling

(* An answer of just now holds the requests that wait. *)
LEMMA BadgeServed ==
    ASSUME NEW Q, NEW A, NEW S, NEW R, NEW b, NEW N, NEW D, NEW t, Badge(Q, A, S, R, b, N, D, t),
           NEW d, d.n = t, Of("received", d.data) = R, NEW P
    PROVE  Badge(P, A \union {d}, S, R, b, N, D, t)
<1>1. \A a \in A : Of("received", a.data) = R \/ (a.n < t /\ d.n > a.n)
  BY DEF Badge
<1>2. QED
  BY <1>1 DEF Badge, Settling

(* An answer is heard, and counted. *)
LEMMA BadgeAnswered ==
    ASSUME NEW Q, NEW A, NEW S, NEW R, NEW b, NEW N \in Nat, NEW D, NEW t \in Nat,
           Numbered(A, t), Badge(Q, A, S, R, b, N, D, t),
           NEW a0 \in A, NEW B, A \ {a0} \subseteq B, B \subseteq A,
           NEW P, Q \subseteq P, NEW M \in Nat, M >= N, M >= a0.n, NEW E, "badge" \in E <=> a0.n < N
    PROVE  Badge(P, B, S, R, Cardinality(Of("received", a0.data)), M, E, t)
<1>1. \A a \in A : a.n \in Nat
  BY DEF Numbered
<1>2. ASSUME NEW x \in Nat, Settling(Q, A, S, N, x)
      PROVE  Settling(P, B, S, M, x)
  <2>1. CASE N > x
    BY <2>1 DEF Settling
  <2>2. CASE Q # {}
    BY <2>2 DEF Settling
  <2>3. CASE \E w \in A \union S : w.n > x
    <3>1. PICK w \in A \union S : w.n > x
      BY <2>3
    <3>2. CASE w = a0
      <4>1. M > x
        BY <1>1, <3>1, <3>2
      <4>2. QED
        BY <4>1 DEF Settling
    <3>3. CASE w # a0
      BY <3>1, <3>3 DEF Settling
    <3>4. QED
      BY <3>2, <3>3
  <2>4. QED
    BY <1>2, <2>1, <2>2, <2>3 DEF Settling
<1>3. \A a \in B : Of("received", a.data) = R \/ (a.n < t /\ Settling(P, B, S, M, a.n))
  BY <1>1, <1>2 DEF Badge
<1>4. ASSUME "badge" \notin E, P = {}, B = {}, S = {}
      PROVE  Of("received", a0.data) = R
  <2>1. Q = {} /\ ~(a0.n < N) /\ \A w \in A \union S : w = a0
    BY <1>4
  <2>2. ~Settling(Q, A, S, N, a0.n)
    BY <1>1, <2>1 DEF Settling
  <2>3. QED
    BY <2>2 DEF Badge
<1>5. QED
  BY <1>3, <1>4 DEF Badge

(* News is heard, or missed. *)
LEMMA BadgeTold ==
    ASSUME NEW Q, NEW A, NEW S, NEW R, NEW b, NEW N \in Nat, NEW D, NEW t \in Nat,
           Numbered(A, t), Numbered(S, t), Badge(Q, A, S, R, b, N, D, t),
           NEW w0 \in S, NEW V, S \ {w0} \subseteq V,
           NEW P, Q \subseteq P, NEW M \in Nat, M >= N, M >= w0.n, NEW E, NEW c,
           "badge" \in E \/ P # {} \/ A # {} \/ V # {} \/ c = Cardinality(R)
    PROVE  Badge(P, A, V, R, c, M, E, t)
<1>1. \A a \in A \union S : a.n \in Nat
  BY DEF Numbered
<1>2. ASSUME NEW x \in Nat, Settling(Q, A, S, N, x)
      PROVE  Settling(P, A, V, M, x)
  <2>1. CASE N > x
    BY <2>1 DEF Settling
  <2>2. CASE Q # {}
    BY <2>2 DEF Settling
  <2>3. CASE \E w \in A \union S : w.n > x
    <3>1. PICK w \in A \union S : w.n > x
      BY <2>3
    <3>2. CASE w = w0
      <4>1. M > x
        BY <1>1, <3>1, <3>2
      <4>2. QED
        BY <4>1 DEF Settling
    <3>3. CASE w # w0
      BY <3>1, <3>3 DEF Settling
    <3>4. QED
      BY <3>2, <3>3
  <2>4. QED
    BY <1>2, <2>1, <2>2, <2>3 DEF Settling
<1>3. \A a \in A : Of("received", a.data) = R \/ (a.n < t /\ Settling(P, A, V, M, a.n))
  BY <1>1, <1>2 DEF Badge
<1>4. QED
  BY <1>3 DEF Badge

(* Calls and answers go to another owner. *)
LEMMA BadgeRelabelled ==
    ASSUME NEW Q, NEW A, NEW S, NEW R, NEW b, NEW N, NEW D, NEW t, Badge(Q, A, S, R, b, N, D, t),
           NEW P, Q # {} => P # {},
           NEW B, \A x \in B : \E a \in A : x.data = a.data /\ x.n = a.n,
           NEW V, \A a \in A : \E x \in B : x.n = a.n,
           \A w \in S : \E x \in V : x.n = w.n,
           NEW E, "badge" \in D => "badge" \in E
    PROVE  Badge(P, B, V, R, b, N, E, t)
<1>1. \A x : Settling(Q, A, S, N, x) => Settling(P, B, V, N, x)
  BY DEF Settling
<1>2. ASSUME NEW y \in B
      PROVE  Of("received", y.data) = R \/ (y.n < t /\ Settling(P, B, V, N, y.n))
  <2>1. PICK a \in A : y.data = a.data /\ y.n = a.n
    BY <1>2
  <2>2. Of("received", a.data) = R \/ (a.n < t /\ Settling(Q, A, S, N, a.n))
    BY DEF Badge
  <2>3. QED
    BY <1>1, <2>1, <2>2
<1>3. (A # {} => B # {}) /\ (S # {} => V # {})
  OBVIOUS
<1>4. QED
  BY <1>2, <1>3 DEF Badge
--------------------------------------------------------------------------------
Waited == {c \in DOMAIN calls : c.op \in {"lists", "count"} /\ c.stage = "asked"}
Counts == Answered({"lists", "count"})
News == Events("request") \union Answered({"accept", "reject"})

(* without the chat page nobody waits for a count *)
Unasked == ~OnChat => \A c \in DOMAIN calls : c.op \notin {"lists", "count"}

BadgeInv ==
    OnChat => Badge(Waited, Counts, News, Of("received", rows), badge, newest["badge"], doubt, now)

(* What is under way is not of the future. *)
LEMMA BadgePast ==
    ASSUME MaxChanges \in Nat, Past
    PROVE  /\ now \in Nat /\ newest \in [Lists -> Nat] /\ newest["badge"] \in Nat
           /\ Numbered(Counts, now) /\ Numbered(News, now)
<1>1. now \in Nat /\ newest \in [Lists -> Nat] /\ newest["badge"] \in Nat
  BY DEF Past, ListsPast, Lists
<1>2. \A c \in DOMAIN calls : c.n \in Nat /\ c.n <= now
  BY DEF Past, CallsPast, GoodCall, Call
<1>3. PastNews(Events("request"), Answered({"accept", "reject"}), Answers("lists"), newest["badge"], now)
  BY PastOf DEF Lists
<1>4. Numbered(News, now)
  BY <1>3 DEF PastNews, News
<1>5. Numbered(Counts, now)
  BY <1>2 DEF Counts, Answered, Numbered
<1>6. QED
  BY <1>1, <1>4, <1>5

(* The count is not concerned. *)
LEMMA BadgeSame ==
    ASSUME MaxChanges \in Nat, Past, BadgeInv, now' \in Nat, now <= now', view' = view,
           Events("request")' = Events("request"),
           Answered({"accept", "reject"})' = Answered({"accept", "reject"}),
           Counts' = Counts, Waited \subseteq Waited',
           Of("received", rows)' = Of("received", rows),
           badge' = badge, newest'["badge"] = newest["badge"], "badge" \in doubt' <=> "badge" \in doubt
    PROVE  BadgeInv'
<1>1. SUFFICES ASSUME OnChat
               PROVE  Badge(Waited', Counts, News, Of("received", rows), badge, newest["badge"], doubt', now')
  BY DEF BadgeInv, OnChat, News
<1>2. Badge(Waited, Counts, News, Of("received", rows), badge, newest["badge"], doubt, now)
  BY <1>1 DEF BadgeInv
<1>3. QED
  BY <1>2, BadgePast, BadgeIdle

(* Who reads while calls are made ... *)
LEMMA WaitedAsked ==
    ASSUME DOMAIN calls \subseteq DOMAIN calls',
           \A c \in DOMAIN calls' : c \in DOMAIN calls \/ c.stage = "asked"
    PROVE  /\ Waited \subseteq Waited' /\ Counts' = Counts
           /\ Answered({"accept", "reject"})' = Answered({"accept", "reject"})
BY CallsAsked DEF Waited, Counts

(* ... and answered. *)
LEMMA WaitedLeave ==
    ASSUME NEW c \in DOMAIN calls, DOMAIN calls \ {c} \subseteq DOMAIN calls',
           c.stage = "answered" \/ c.op \notin {"lists", "count"}
    PROVE  Waited \subseteq Waited'
BY DEF Waited

(* When the page is left its reads are dropped, and another page starts without. *)
LEMMA UnaskedNext ==
    ASSUME MaxChanges \in Nat, Past, SocketInv, Unasked, [Next]_vars
    PROVE  Unasked'
<1>1. SUFFICES ASSUME ~OnChat', NEW c \in DOMAIN calls', c.op \in {"lists", "count"}
               PROVE  FALSE
  BY DEF Unasked
<1>2. CASE EnterChat \/ OpenFriends \/ OpenConversations
  BY <1>1, <1>2 DEF EnterChat, OpenFriends, OpenConversations, OnChat
<1>3. CASE OpenSettings \/ LogsOut
  <2>1. c \in DOMAIN Orphaned("gone")
    BY <1>1, <1>3 DEF OpenSettings, LogsOut
  <2>2. PICK d \in DOMAIN calls : c = Left("gone", d)
    BY <2>1, OrphanedDomain
  <2>3. d \in Call
    BY DEF Past, CallsPast, GoodCall
  <2>4. c.by = "gone"
    BY <2>2, <2>3 DEF Left, Call
  <2>5. c.op \notin Reads
    BY <2>1, <2>4, OrphanedDomain
  <2>6. QED
    BY <1>1, <2>5 DEF Reads
<1>4. CASE Calling
  <2>1. view' = view
    BY <1>4 DEF Calling, client, User, ServeRead, ServeWrite, ServeRefuses, ListsAnswer, CountAnswer,
                FriendsAnswer, SendAnswer, RespondAnswer, RemoveAnswer
  <2>2. ~OnChat /\ \A d \in DOMAIN calls : d.op \notin {"lists", "count"}
    BY <1>1, <2>1 DEF OnChat, Unasked
  <2>3. \E d \in DOMAIN calls : c.op = d.op
    <3>1. CASE \E op \in {"send", "accept", "reject", "remove"}, u \in Others : User(op, u)
      BY <2>2, <3>1 DEF User, OnChat
    <3>2. CASE \E d \in DOMAIN calls : ServeRead(d)
      BY <1>1, <3>2, ReadServed
    <3>3. CASE \E d \in DOMAIN calls : ServeWrite(d)
      BY <1>1, <3>3, WriteServed
    <3>4. CASE \E d \in DOMAIN calls : ServeRefuses(d)
      BY <1>1, <3>4, CallTaken
    <3>5. CASE \E d \in DOMAIN calls : \/ ListsAnswer(d) \/ CountAnswer(d) \/ FriendsAnswer(d)
                                       \/ SendAnswer(d) \/ RespondAnswer(d) \/ RemoveAnswer(d)
      BY <1>1, <3>5, PastAnswer
    <3>6. QED
      BY <1>4, <3>1, <3>2, <3>3, <3>4, <3>5 DEF Calling
  <2>4. QED
    BY <1>1, <2>2, <2>3
<1>5. CASE FriendRequest \/ FriendAccepted
  BY <1>1, <1>5 DEF FriendRequest, FriendAccepted, client, OnChat
<1>6. CASE Connected \/ Lost \/ FriendRequestResponse \/ Unheard \/ Elsewhere \/ UNCHANGED vars
  <2>1. calls' = calls /\ view' = view
    BY <1>6 DEF Connected, Lost, FriendRequestResponse, Unheard, Elsewhere,
                OtherSends, OtherAnswers, OtherRemoves, vars, client
  <2>2. QED
    BY <1>1, <2>1 DEF Unasked, OnChat
<1>7. QED
  BY <1>2, <1>3, <1>4, <1>5, <1>6 DEF Next, Moving, Hearing

(* a page that is gone has no reads under way *)
GoneWrites == \A c \in DOMAIN calls : c.by = "gone" => c.op \notin Reads

(* New calls are of the page and the tab that make them. *)
LEMMA GoneWritesNext ==
    ASSUME MaxChanges \in Nat, Past, SocketInv, GoneWrites, [Next]_vars
    PROVE  GoneWrites'
<1>1. SUFFICES ASSUME NEW c \in DOMAIN calls', c.by = "gone", c.op \in Reads
               PROVE  \E d \in DOMAIN calls : d.by = "gone" /\ d.op \in Reads
  BY DEF GoneWrites
<1>2. CASE EnterChat \/ OpenFriends
  <2>1. PICK a : a = Asks("lists", Nobody, "tab")
    OBVIOUS
  <2>2. PICK f : f = Asks("friends", Nobody, "tab")
    OBVIOUS
  <2>3. PICK k : k = Asks("count", Nobody, "chat")
    OBVIOUS
  <2>4. PICK K : K = SetToBag({k})
    OBVIOUS
  <2>5. PICK B : B = calls (+) TabAsks
    OBVIOUS
  <2>6. calls' = B \/ calls' = B (+) K
    BY <1>2, <2>3, <2>4, <2>5 DEF EnterChat, OpenFriends
  <2>7. DOMAIN TabAsks = {a, f} /\ DOMAIN K = {k}
    BY <2>1, <2>2, <2>4, SetDomain DEF TabAsks
  <2>8. DOMAIN B = DOMAIN calls \union {a, f}
    BY <2>5, <2>7, PlusDomain
  <2>9. c \in DOMAIN B \union {k}
    <3>1. DOMAIN (B (+) K) = DOMAIN B \union {k}
      BY <2>7, PlusDomain
    <3>2. QED
      BY <2>6, <3>1
  <2>10. a.by # "gone" /\ f.by # "gone" /\ k.by # "gone"
    BY <2>1, <2>2, <2>3 DEF Asks
  <2>11. QED
    BY <1>1, <2>8, <2>9, <2>10
<1>3. CASE OpenSettings \/ OpenConversations \/ LogsOut
  <2>1. PICK by : calls' = Orphaned(by)
    BY <1>3 DEF OpenSettings, OpenConversations, LogsOut
  <2>2. QED
    BY <1>1, <2>1, OrphanedDomain
<1>4. CASE Calling
  <2>1. CASE \E op \in {"send", "accept", "reject", "remove"}, u \in Others : User(op, u)
    <3>1. PICK op \in {"send", "accept", "reject", "remove"}, u \in Others : User(op, u)
      BY <2>1
    <3>2. PICK a : a = Asks(op, u, "tab")
      OBVIOUS
    <3>3. DOMAIN calls' = DOMAIN calls \union {a}
      BY <3>1, <3>2, WithDomain DEF User
    <3>4. a.by # "gone"
      BY <3>2 DEF Asks
    <3>5. QED
      BY <1>1, <3>3, <3>4
  <2>2. CASE \E d \in DOMAIN calls : ServeRead(d)
    BY <1>1, <2>2, ReadServed
  <2>3. CASE \E d \in DOMAIN calls : ServeWrite(d)
    BY <1>1, <2>3, WriteServed
  <2>4. CASE \E d \in DOMAIN calls : ServeRefuses(d)
    BY <1>1, <2>4, CallTaken
  <2>5. CASE \E d \in DOMAIN calls : \/ ListsAnswer(d) \/ CountAnswer(d) \/ FriendsAnswer(d)
                                     \/ SendAnswer(d) \/ RespondAnswer(d) \/ RemoveAnswer(d)
    BY <1>1, <2>5, PastAnswer
  <2>6. QED
    BY <1>4, <2>1, <2>2, <2>3, <2>4, <2>5 DEF Calling
<1>5. CASE FriendRequest \/ FriendAccepted
  <2>1. CASE calls' = calls
    BY <1>1, <2>1
  <2>2. CASE calls' # calls
    <3>1. PICK op, by : calls' = calls (+) Times(Asks(op, Nobody, by)) /\ by \in {"tab", "chat"}
      BY <1>5, <2>2 DEF FriendRequest, FriendAccepted
    <3>2. PICK a : a = Asks(op, Nobody, by)
      OBVIOUS
    <3>3. PICK K : K = Times(a)
      OBVIOUS
    <3>4. DOMAIN K \subseteq {a}
      BY <3>3, TimesDomain
    <3>5. DOMAIN calls' = DOMAIN calls \union DOMAIN K
      BY <3>1, <3>2, <3>3, PlusDomain
    <3>6. a.by # "gone"
      BY <3>1, <3>2 DEF Asks
    <3>7. QED
      BY <1>1, <3>4, <3>5, <3>6
  <2>3. QED
    BY <2>1, <2>2
<1>6. CASE Connected \/ Lost \/ FriendRequestResponse \/ Unheard \/ Elsewhere \/ UNCHANGED vars
  <2>1. calls' = calls
    BY <1>6 DEF Connected, Lost, FriendRequestResponse, Unheard, Elsewhere,
                OtherSends, OtherAnswers, OtherRemoves, vars
  <2>2. QED
    BY <1>1, <2>1
<1>7. QED
  BY <1>2, <1>3, <1>4, <1>5, <1>6 DEF Next, Moving, Hearing

(* Who waits, and for what, when a tab is left. *)
LEMMA TabLeft ==
    ASSUME Past, GoneWrites, calls' = Orphaned("chat")
    PROVE  /\ \A d \in DOMAIN calls : \E c \in DOMAIN calls' :
                 c.op = d.op /\ c.stage = d.stage /\ c.data = d.data /\ c.n = d.n
           /\ \A c \in DOMAIN calls' : \E d \in DOMAIN calls :
                 c.op = d.op /\ c.stage = d.stage /\ c.data = d.data /\ c.n = d.n
<1>1. ASSUME NEW d \in DOMAIN calls, NEW c, c = Left("chat", d)
      PROVE  c.op = d.op /\ c.stage = d.stage /\ c.data = d.data /\ c.n = d.n
             /\ c.by = IF d.by = "tab" THEN "chat" ELSE d.by
  <2>1. d \in Call
    BY DEF Past, CallsPast, GoodCall
  <2>2. QED
    BY <1>1, <2>1 DEF Left, Call
<1>2. ASSUME NEW d \in DOMAIN calls
      PROVE  \E c \in DOMAIN calls' :
                c.op = d.op /\ c.stage = d.stage /\ c.data = d.data /\ c.n = d.n
  <2>1. PICK c : c = Left("chat", d)
    OBVIOUS
  <2>2. c.op = d.op /\ c.stage = d.stage /\ c.data = d.data /\ c.n = d.n
    BY <1>1, <2>1
  <2>3. c.by = "gone" => d.by = "gone"
    BY <1>1, <2>1
  <2>4. c.by = "gone" => c.op \notin Reads
    BY <2>2, <2>3 DEF GoneWrites
  <2>5. c \in DOMAIN Orphaned("chat")
    BY <2>1, <2>4, OrphanedDomain
  <2>6. QED
    BY <2>2, <2>5
<1>3. \A c \in DOMAIN calls' : \E d \in DOMAIN calls : c = Left("chat", d)
  BY OrphanedDomain
<1>4. QED
  BY <1>1, <1>2, <1>3

(* The pages and tabs. *)
LEMMA BadgeMoves ==
    ASSUME MaxChanges \in Nat, Past, Unasked, GoneWrites, BadgeInv, Moving
    PROVE  BadgeInv'
<1>1. /\ now \in Nat /\ newest \in [Lists -> Nat] /\ newest["badge"] \in Nat
      /\ Numbered(Counts, now) /\ Numbered(News, now)
  BY BadgePast
<1>2. CASE Connected \/ Lost
  <2>1. UNCHANGED <<rows, channel, view, lists, calls, history>>
    BY <1>2 DEF Connected, Lost
  <2>2. QED
    BY <1>1, <2>1, BadgeSame DEF lists, history, Events, Of, Answered, Counts, Waited
<1>3. CASE EnterChat \/ OpenFriends
  <2>1. /\ UNCHANGED <<rows, channel, lists, history>>
        /\ DOMAIN calls \subseteq DOMAIN calls'
        /\ \A c \in DOMAIN calls' : c \in DOMAIN calls \/ c.stage = "asked"
        /\ Asked("lists")' # {}
    BY <1>3, PastEnters
  <2>2. Counts' = Counts /\ Answered({"accept", "reject"})' = Answered({"accept", "reject"})
    BY <2>1, WaitedAsked
  <2>3. Waited' # {}
    BY <2>1 DEF Asked, Waited
  <2>4. /\ Of("received", rows)' = Of("received", rows) /\ badge' = badge /\ newest' = newest
        /\ doubt' = doubt /\ now' = now /\ News' = News
    BY <2>1, <2>2 DEF lists, history, Of, News, Events
  <2>5. \A a \in Counts : Of("received", a.data) = Of("received", rows) \/ a.n < now
    <3>1. CASE OnChat
      BY <3>1 DEF BadgeInv, Badge
    <3>2. CASE ~OnChat
      BY <3>2 DEF Unasked, Counts, Answered
    <3>3. QED
      BY <3>1, <3>2
  <2>6. Badge(Waited', Counts, News, Of("received", rows), badge, newest["badge"], doubt, now)
    BY <2>3, <2>5, BadgeAsked
  <2>7. QED
    BY <2>2, <2>4, <2>6 DEF BadgeInv
<1>4. CASE OpenSettings \/ LogsOut
  BY <1>4 DEF OpenSettings, LogsOut, BadgeInv, OnChat
<1>5. CASE OpenConversations
  <2>1. /\ OnChat /\ calls' = Orphaned("chat") /\ Forgets(Lists \ {"badge"})
        /\ badge' = badge /\ rows' = rows /\ channel' = channel
    BY <1>5 DEF OpenConversations, OnChat
  <2>2. newest'["badge"] = newest["badge"] /\ ("badge" \in doubt => "badge" \in doubt') /\ now' = now
    BY <2>1 DEF Forgets, Lists
  <2>3. /\ \A d \in DOMAIN calls : \E c \in DOMAIN calls' :
              c.op = d.op /\ c.stage = d.stage /\ c.data = d.data /\ c.n = d.n
        /\ \A c \in DOMAIN calls' : \E d \in DOMAIN calls :
              c.op = d.op /\ c.stage = d.stage /\ c.data = d.data /\ c.n = d.n
    BY <2>1, TabLeft
  <2>4. Waited # {} => Waited' # {}
    BY <2>3 DEF Waited
  <2>5. /\ \A x \in Counts' : \E a \in Counts : x.data = a.data /\ x.n = a.n
        /\ \A a \in Counts : \E x \in Counts' : x.n = a.n
    BY <2>3 DEF Counts, Answered
  <2>6. \A w \in Answered({"accept", "reject"}) : \E x \in Answered({"accept", "reject"})' : x.n = w.n
    BY <2>3 DEF Answered
  <2>7. \A w \in News : \E x \in News' : x.n = w.n
    BY <2>1, <2>6 DEF News, Events
  <2>8. Badge(Waited, Counts, News, Of("received", rows), badge, newest["badge"], doubt, now)
    BY <2>1 DEF BadgeInv
  <2>9. Badge(Waited', Counts', News', Of("received", rows), badge, newest["badge"], doubt', now)
    <3>1. PICK Q, A, S, R, N, D : /\ Q = Waited /\ A = Counts /\ S = News
                                  /\ R = Of("received", rows) /\ N = newest["badge"] /\ D = doubt
      OBVIOUS
    <3>2. PICK P, B, V, E : P = Waited' /\ B = Counts' /\ V = News' /\ E = doubt'
      OBVIOUS
    <3>3. Badge(Q, A, S, R, badge, N, D, now)
      BY <2>8, <3>1
    <3>4. /\ Q # {} => P # {}
          /\ \A x \in B : \E a \in A : x.data = a.data /\ x.n = a.n
          /\ \A a \in A : \E x \in B : x.n = a.n
          /\ \A w \in S : \E x \in V : x.n = w.n
          /\ "badge" \in D => "badge" \in E
      BY <2>2, <2>4, <2>5, <2>7, <3>1, <3>2
    <3>5. Badge(P, B, V, R, badge, N, E, now)
      BY <3>3, <3>4, BadgeRelabelled
    <3>6. QED
      BY <3>1, <3>2, <3>5
  <2>10. Of("received", rows)' = Of("received", rows)
    BY <2>1 DEF Of
  <2>11. Badge(Waited', Counts', News', Of("received", rows)', badge', newest'["badge"], doubt', now')
    BY <2>1, <2>2, <2>9, <2>10
  <2>12. QED
    BY <2>11 DEF BadgeInv
<1>6. QED
  BY <1>2, <1>3, <1>4, <1>5 DEF Moving

(* What the server does for the count: it answers, or changes what waits. *)
LEMMA BadgeServes ==
    ASSUME MaxChanges \in Nat, Past, BadgeInv, NEW c \in DOMAIN calls,
           ServeRead(c) \/ ServeWrite(c) \/ ServeRefuses(c)
    PROVE  BadgeInv'
<1>1. /\ now \in Nat /\ newest \in [Lists -> Nat] /\ newest["badge"] \in Nat
      /\ Numbered(Counts, now) /\ Numbered(News, now)
  BY BadgePast
<1>2. /\ view' = view /\ badge' = badge /\ newest' = newest /\ doubt' = doubt
      /\ c.stage = "asked" /\ now' \in Nat /\ now <= now'
  BY <1>1 DEF ServeRead, ServeWrite, ServeRefuses, client, lists, history, Change
<1>3. CASE ServeRead(c)
  <2>1. PICK d \in DOMAIN calls' :
              /\ d.op = c.op /\ d.by = c.by /\ d.stage = "answered" /\ d.data = Read(c.op) /\ d.n = now
              /\ DOMAIN calls \ {c} \subseteq DOMAIN calls'
              /\ DOMAIN calls' \subseteq DOMAIN calls \union {d}
    BY <1>3, ReadServed
  <2>2. rows' = rows /\ channel' = channel /\ now' = now /\ c.op \in Reads
    BY <1>3 DEF ServeRead, history
  <2>3. Of("received", rows)' = Of("received", rows) /\ Events("request")' = Events("request")
    BY <2>2 DEF Of, Events
  <2>4. Answered({"accept", "reject"})' = Answered({"accept", "reject"})
    BY <1>2, <2>1, <2>2, CallsServed DEF Reads
  <2>5. CASE c.op \in {"lists", "count"}
    <3>1. Counts' = Counts \union {d}
      BY <1>2, <2>1, <2>5, CallsServed DEF Counts
    <3>2. Of("received", d.data) = Of("received", rows)
      BY <2>1, <2>5, ReadRows DEF Of, Read
    <3>3. OnChat => Badge(Waited', Counts \union {d}, News, Of("received", rows), badge,
                          newest["badge"], doubt, now)
      BY <2>1, <3>2, BadgeServed DEF BadgeInv
    <3>4. News' = News
      BY <2>3, <2>4 DEF News
    <3>5. QED
      BY <1>2, <2>2, <2>3, <3>1, <3>3, <3>4 DEF BadgeInv, OnChat
  <2>6. CASE c.op \notin {"lists", "count"}
    <3>1. Counts' = Counts
      BY <1>2, <2>1, <2>6, CallsServed DEF Counts
    <3>2. Waited \subseteq Waited'
      BY <2>1, <2>6, WaitedLeave
    <3>3. QED
      BY <1>2, <2>3, <2>4, <3>1, <3>2, BadgeSame
  <2>7. QED
    BY <2>5, <2>6
<1>4. CASE ServeRefuses(c)
  <2>1. rows' = rows /\ channel' = channel /\ c.op \notin Reads
    BY <1>4 DEF ServeRefuses
  <2>2. DOMAIN calls \ {c} \subseteq DOMAIN calls' /\ DOMAIN calls' \subseteq DOMAIN calls
    BY <1>4, CallTaken
  <2>3. /\ Counts' = Counts /\ Waited \subseteq Waited'
        /\ Answered({"accept", "reject"})' = Answered({"accept", "reject"})
    BY <1>2, <2>1, <2>2, CallsLeave, WaitedLeave DEF Counts, Reads
  <2>4. Of("received", rows)' = Of("received", rows) /\ Events("request")' = Events("request")
    BY <2>1 DEF Of, Events
  <2>5. QED
    BY <1>2, <2>3, <2>4, BadgeSame
<1>5. CASE ServeWrite(c)
  <2>1. PICK d \in DOMAIN calls' :
              /\ d.op = c.op /\ d.by = c.by /\ d.who = c.who /\ d.stage = "answered"
              /\ d.n = now' /\ now' = now + 1
              /\ DOMAIN calls \ {c} \subseteq DOMAIN calls'
              /\ DOMAIN calls' \subseteq DOMAIN calls \union {d}
    BY <1>5, WriteServed
  <2>2. Events("request")' = Events("request")
    <3>1. CASE c.op # "accept"
      BY <1>5, <3>1, WriteTells DEF Events
    <3>2. CASE c.op = "accept"
      BY <1>5, <3>2, WriteTells, EventsAppend DEF Past, EventsPast
    <3>3. QED
      BY <3>1, <3>2
  <2>3. c.op \in {"send", "accept", "reject", "remove"}
    BY <1>5, WriteChanges
  <2>4. Counts' = Counts /\ Waited \subseteq Waited'
    BY <1>2, <2>1, <2>3, CallsServed, WaitedLeave DEF Counts
  <2>5. CASE c.op \in {"accept", "reject"}
    <3>1. Answered({"accept", "reject"})' = Answered({"accept", "reject"}) \union {d}
      BY <1>2, <2>1, <2>5, CallsServed
    <3>2. News' = News \union {d}
      BY <2>2, <3>1 DEF News
    <3>3. PICK R : R = Of("received", rows)'
      OBVIOUS
    <3>4. Badge(Waited', Counts, News \union {d}, R, badge, newest["badge"], doubt, now + 1)
      BY <1>1, <2>1, BadgeChanged
    <3>5. QED
      BY <1>2, <2>1, <2>4, <3>2, <3>3, <3>4 DEF BadgeInv
  <2>6. CASE c.op \in {"send", "remove"}
    <3>1. Answered({"accept", "reject"})' = Answered({"accept", "reject"})
      BY <1>2, <2>1, <2>6, CallsServed
    <3>2. Of("received", rows)' = Of("received", rows)
      BY <1>5, <2>6, WriteChanges
    <3>3. QED
      BY <1>2, <2>2, <2>4, <3>1, <3>2, BadgeSame
  <2>7. QED
    BY <2>3, <2>5, <2>6
<1>6. QED
  BY <1>3, <1>4, <1>5

(* What the others do: a request is told of, and only they make one. *)
LEMMA BadgeElsewhere ==
    ASSUME MaxChanges \in Nat, Past, BadgeInv, Elsewhere
    PROVE  BadgeInv'
<1>1. /\ now \in Nat /\ newest \in [Lists -> Nat] /\ newest["badge"] \in Nat
      /\ Numbered(Counts, now) /\ Numbered(News, now)
  BY BadgePast
<1>2. /\ now' = now + 1 /\ view' = view /\ calls' = calls /\ badge' = badge
      /\ newest' = newest /\ doubt' = doubt
  BY PastElsewhere DEF client, lists
<1>3. /\ Counts' = Counts /\ Waited' = Waited
      /\ Answered({"accept", "reject"})' = Answered({"accept", "reject"})
  BY <1>2 DEF Counts, Waited, Answered
<1>4. PICK u \in Others : \/ OtherSends(u) \/ OtherAnswers(u, TRUE) \/ OtherAnswers(u, FALSE)
                          \/ OtherRemoves(u)
  BY DEF Elsewhere
<1>5. CASE OtherSends(u)
  <2>1. PICK e \in Event : e.who = u /\ e.n = now' /\ Events("request")' = Events("request") \union {e}
    BY <1>5, SendTells
  <2>2. News' = News \union {e}
    BY <1>3, <2>1 DEF News
  <2>3. PICK R : R = Of("received", rows)'
    OBVIOUS
  <2>4. Badge(Waited, Counts, News \union {e}, R, badge, newest["badge"], doubt, now + 1)
    BY <1>1, <1>2, <2>1, BadgeChanged
  <2>5. QED
    BY <1>2, <1>3, <2>2, <2>3, <2>4 DEF BadgeInv
<1>6. CASE OtherAnswers(u, TRUE) \/ OtherAnswers(u, FALSE) \/ OtherRemoves(u)
  <2>1. Of("received", rows)' = Of("received", rows) /\ Events("request")' = Events("request")
    BY <1>6, AnswerTells, RemovalTellsNobody
  <2>2. now' \in Nat /\ now <= now'
    BY <1>1, <1>2
  <2>3. QED
    BY <1>2, <1>3, <2>1, <2>2, BadgeSame
<1>7. QED
  BY <1>4, <1>5, <1>6

(* The badge is in doubt when the page is not told. *)
LEMMA BadgeMissed ==
    ASSUME OnChat, NEW ls \in SUBSET Lists, "badge" \in ls, NEW n \in Nat,
           newest \in [Lists -> Nat], Misses(ls, n)
    PROVE  "badge" \in doubt' /\ newest'["badge"] \in Nat
           /\ newest'["badge"] >= newest["badge"] /\ newest'["badge"] >= n
<1>1. "badge" \in Lists /\ newest["badge"] \in Nat
  BY DEF Lists
<1>2. "badge" \in ls \intersect Mounted
  BY <1>1 DEF Mounted
<1>3. newest'["badge"] = Max({newest["badge"], n}) /\ "badge" \in doubt'
  BY <1>1, <1>2 DEF Misses
<1>4. QED
  BY <1>1, <1>3, MaxOfTwo

(* Counted from a list in doubt, the badge is in doubt. *)
LEMMA BadgeCounted ==
    ASSUME NEW n \in Nat, newest \in [Lists -> Nat], HearsCounted({"received"}, n)
    PROVE  /\ "badge" \notin doubt' => "received" \notin doubt'
           /\ newest'["badge"] \in Nat
           /\ newest'["badge"] >= newest["badge"] /\ newest'["badge"] >= n
<1>1. newest'["badge"] \in Nat /\ newest'["badge"] >= newest["badge"] /\ newest'["badge"] >= n
  BY HearsCountedEffect DEF Lists
<1>2. "badge" \notin doubt' => "received" \notin doubt'
  BY DEF HearsCounted
<1>3. QED
  BY <1>1, <1>2

(* A list of requests that is to hear nothing more has as many entries as requests wait. *)
LEMMA CountSettles ==
    ASSUME NEW data, IsFiniteSet(data), NEW list, NEW N, NEW D, NEW t, "received" \notin D,
           ListInv({}, {}, {}, {}, "received", Of("received", data), list, N, D, t)
    PROVE  Size(list) = Cardinality(Of("received", data))
<1>1. list = SetToBag(Of("received", data))
  BY ListSettles
<1>2. QED
  BY <1>1, OfFinite, SizeOfSet

(* What the answers do to the badge. *)
LEMMA BadgeAnswers ==
    ASSUME MaxChanges \in Nat, Past, CallsGood, IsFiniteSet(rows), ReceivedInv', BadgeInv,
           NEW c \in DOMAIN calls,
           \/ ListsAnswer(c) \/ CountAnswer(c) \/ FriendsAnswer(c)
           \/ SendAnswer(c) \/ RespondAnswer(c) \/ RemoveAnswer(c)
    PROVE  BadgeInv'
<1>1. /\ now \in Nat /\ newest \in [Lists -> Nat] /\ newest["badge"] \in Nat
      /\ Numbered(Counts, now) /\ Numbered(News, now)
  BY BadgePast
<1>2. /\ now' = now /\ UNCHANGED <<rows, channel, client>>
      /\ c.n \in Nat /\ c.n <= now /\ c.stage = "answered"
      /\ DOMAIN calls \ {c} \subseteq DOMAIN calls' /\ DOMAIN calls' \subseteq DOMAIN calls
  BY PastAnswer
<1>3. /\ view' = view /\ Events("request")' = Events("request")
      /\ Of("received", rows)' = Of("received", rows) /\ Waited \subseteq Waited'
  BY <1>2, WaitedLeave DEF client, Events, Of
<1>4. CASE ListsAnswer(c) \/ CountAnswer(c)
  <2>1. c.op \in {"lists", "count"} /\ c \in Counts
    BY <1>2, <1>4 DEF ListsAnswer, CountAnswer, Counts, Answered
  <2>2. /\ Counts \ {c} \subseteq Counts' /\ Counts' \subseteq Counts
        /\ Answered({"accept", "reject"})' = Answered({"accept", "reject"})
    BY <1>2, <2>1, CallsLeave DEF Counts
  <2>3. badge' = Cardinality(Of("received", c.data))
    <3>1. CASE ListsAnswer(c)
      BY <3>1 DEF ListsAnswer
    <3>2. CASE CountAnswer(c)
      <4>1. c.op = "count" /\ badge' = Cardinality(c.data)
        BY <3>2 DEF CountAnswer
      <4>2. c.data \subseteq Rows
        BY DEF Past, CallsPast, GoodCall, Call
      <4>3. IsFiniteSet(c.data) /\ \A r \in c.data : r[1] = "received"
        BY <4>1 DEF CallsGood, GoodDatum
      <4>4. QED
        BY <4>1, <4>2, <4>3, CountOfRows
    <3>3. QED
      BY <1>4, <3>1, <3>2
  <2>4. /\ newest'["badge"] \in Nat /\ newest'["badge"] >= newest["badge"] /\ newest'["badge"] >= c.n
        /\ "badge" \in doubt' <=> c.n < newest["badge"]
    <3>1. Hears({"received", "sent", "badge"}, c.n, TRUE) \/ Hears({"badge"}, c.n, TRUE)
      BY <1>4 DEF ListsAnswer, CountAnswer
    <3>2. PICK ls : "badge" \in ls /\ ls \in SUBSET Lists /\ Hears(ls, c.n, TRUE)
      <4>1. {"received", "sent", "badge"} \in SUBSET Lists /\ {"badge"} \in SUBSET Lists
        BY DEF Lists
      <4>2. QED
        BY <3>1, <4>1
    <3>3. QED
      BY <1>1, <1>2, <3>2, HearsEffect
  <2>5. OnChat => Badge(Waited', Counts', News, Of("received", rows), Cardinality(Of("received", c.data)),
                        newest'["badge"], doubt', now)
    <3>1. SUFFICES ASSUME OnChat
                   PROVE  Badge(Waited', Counts', News, Of("received", rows), Cardinality(Of("received", c.data)),
                                newest'["badge"], doubt', now)
      OBVIOUS
    <3>2. Badge(Waited, Counts, News, Of("received", rows), badge, newest["badge"], doubt, now)
      BY <3>1 DEF BadgeInv
    <3>3. QED
      BY <1>1, <1>2, <1>3, <2>1, <2>2, <2>4, <3>2, BadgeAnswered
  <2>6. News' = News
    BY <1>3, <2>2 DEF News
  <2>7. QED
    BY <1>2, <1>3, <2>3, <2>5, <2>6 DEF BadgeInv, OnChat
<1>5. CASE RespondAnswer(c)
  <2>1. c.op \in {"accept", "reject"} /\ c \in Answered({"accept", "reject"}) /\ c \in News
    BY <1>2, <1>5 DEF RespondAnswer, Answered, News
  <2>2. /\ Counts' = Counts
        /\ Answered({"accept", "reject"}) \ {c} \subseteq Answered({"accept", "reject"})'
    BY <1>2, <2>1, CallsLeave DEF Counts
  <2>3. News \ {c} \subseteq News'
    BY <1>3, <2>2 DEF News
  <2>4. SUFFICES ASSUME OnChat
                 PROVE  Badge(Waited', Counts', News', Of("received", rows), badge',
                              newest'["badge"], doubt', now)
    BY <1>2, <1>3 DEF BadgeInv, OnChat
  <2>5. Badge(Waited, Counts, News, Of("received", rows), badge, newest["badge"], doubt, now)
    BY <2>4 DEF BadgeInv
  <2>6. /\ newest'["badge"] \in Nat /\ newest'["badge"] >= newest["badge"] /\ newest'["badge"] >= c.n
        /\ \/ "badge" \in doubt' \/ Waited' # {} \/ Counts' # {} \/ News' # {}
           \/ badge' = Cardinality(Of("received", rows))
    <3>1. CASE c.by # "tab"
      <4>1. Misses({"received", "badge"}, c.n)
        BY <1>5, <3>1 DEF RespondAnswer
      <4>2. PICK ls : ls = {"received", "badge"}
        OBVIOUS
      <4>3. Misses(ls, c.n) /\ ls \in SUBSET Lists /\ "badge" \in ls
        BY <4>1, <4>2 DEF Lists
      <4>4. QED
        BY <1>1, <1>2, <2>4, <4>3, BadgeMissed
    <3>2. CASE c.by = "tab"
      <4>1. HearsCounted({"received"}, c.n) /\ badge' = Size(received')
        BY <1>5, <3>2 DEF RespondAnswer
      <4>2. view' = "friends"
        BY <1>3, <3>2 DEF Past, TabCalls
      <4>3. /\ "badge" \notin doubt' => "received" \notin doubt'
            /\ newest'["badge"] \in Nat
            /\ newest'["badge"] >= newest["badge"] /\ newest'["badge"] >= c.n
        BY <1>1, <1>2, <4>1, BadgeCounted
      <4>4. ASSUME "received" \notin doubt', Waited' = {}, Counts' = {}, News' = {}
            PROVE  Size(received') = Cardinality(Of("received", rows))
        <5>1. /\ Events("request")' = {} /\ Answered({"accept", "reject"})' = {}
              /\ Answers("lists")' = {} /\ Asked("lists")' = {}
          BY <4>4 DEF News, Counts, Waited, Answered, Answers, Asked
        <5>2. ListInv({}, {}, {}, {}, "received", Of("received", rows), received',
                      newest'["received"], doubt', now)
          BY <1>2, <1>3, <4>2, <5>1 DEF ReceivedInv
        <5>3. QED
          BY <4>4, <5>2, CountSettles
      <4>5. QED
        BY <1>3, <4>1, <4>3, <4>4
    <3>3. QED
      BY <3>1, <3>2
  <2>7. QED
    BY <1>1, <1>2, <1>3, <2>1, <2>2, <2>3, <2>5, <2>6, BadgeTold
<1>6. CASE FriendsAnswer(c) \/ SendAnswer(c) \/ RemoveAnswer(c)
  <2>1. badge' = badge /\ c.op \in {"friends", "send", "remove"}
    BY <1>6 DEF FriendsAnswer, SendAnswer, RemoveAnswer
  <2>2. Counts' = Counts /\ Answered({"accept", "reject"})' = Answered({"accept", "reject"})
    BY <1>2, <2>1, CallsLeave DEF Counts
  <2>3. \E ls \in SUBSET Lists : /\ "badge" \notin ls
                                 /\ \/ Hears(ls, c.n, TRUE) \/ Hears(ls, c.n, FALSE)
                                    \/ Misses(ls, c.n) \/ UNCHANGED history
    <3>1. {"contacts"} \in SUBSET Lists /\ {"sent"} \in SUBSET Lists
      BY DEF Lists
    <3>2. \/ Hears({"contacts"}, c.n, TRUE) \/ Hears({"contacts"}, c.n, FALSE) \/ UNCHANGED history
          \/ Hears({"sent"}, c.n, FALSE) \/ Misses({"contacts"}, c.n) \/ Misses({"sent"}, c.n)
      BY <1>6 DEF FriendsAnswer, SendAnswer, RemoveAnswer
    <3>3. QED
      BY <3>1, <3>2
  <2>4. newest'["badge"] = newest["badge"] /\ ("badge" \in doubt' <=> "badge" \in doubt)
    BY <1>1, <1>2, <2>3, OthersHear DEF Lists
  <2>5. QED
    BY <1>1, <1>2, <1>3, <2>1, <2>2, <2>4, BadgeSame
<1>7. QED
  BY <1>4, <1>5, <1>6

(* What the events do to the badge: a request heard makes the page ask for the count. *)
LEMMA BadgeHears ==
    ASSUME MaxChanges \in Nat, Past, SocketInv, BadgeInv, Hearing
    PROVE  BadgeInv'
<1>1. /\ now \in Nat /\ newest \in [Lists -> Nat] /\ newest["badge"] \in Nat
      /\ Numbered(Counts, now) /\ Numbered(News, now)
  BY BadgePast
<1>2. /\ now' = now /\ UNCHANGED <<rows, client>> /\ channel \in Seq(Event)
      /\ channel # <<>> /\ channel' = Tail(channel)
      /\ Head(channel) \in Event /\ Head(channel).n \in Nat /\ Head(channel).n <= now
      /\ DOMAIN calls \subseteq DOMAIN calls'
      /\ \A c \in DOMAIN calls' : c \in DOMAIN calls \/ c.stage = "asked"
  BY PastHears DEF Past, EventsPast
<1>3. /\ Waited \subseteq Waited' /\ Counts' = Counts
      /\ Answered({"accept", "reject"})' = Answered({"accept", "reject"})
  BY <1>2, WaitedAsked
<1>4. view' = view /\ Of("received", rows)' = Of("received", rows)
  BY <1>2 DEF client, Of
<1>5. PICK e : e = Head(channel)
  OBVIOUS
<1>6. CASE e.type # "request"
  <2>1. Events("request")' = Events("request")
    BY <1>2, <1>5, <1>6, EventsTail
  <2>2. /\ badge' = badge
        /\ \E ls \in SUBSET Lists : /\ "badge" \notin ls
                                    /\ \/ Hears(ls, e.n, TRUE) \/ Hears(ls, e.n, FALSE)
                                       \/ Misses(ls, e.n) \/ UNCHANGED history
    <3>1. {"sent"} \in SUBSET Lists /\ {"contacts"} \in SUBSET Lists
      BY DEF Lists
    <3>2. CASE FriendAccepted
      BY <3>1, <3>2 DEF FriendAccepted, lists
    <3>3. CASE FriendRequestResponse
      BY <3>1, <3>3, <1>5 DEF FriendRequestResponse
    <3>4. CASE Unheard
      <4>1. (Misses({"contacts"}, e.n) \/ Misses({"sent"}, e.n)) /\ badge' = badge
        BY <1>2, <1>5, <1>6, <3>4 DEF Unheard, Event, lists
      <4>2. QED
        BY <3>1, <4>1
    <3>5. ~FriendRequest
      BY <1>5, <1>6 DEF FriendRequest, Arrives
    <3>6. QED
      BY <3>2, <3>3, <3>4, <3>5 DEF Hearing
  <2>3. newest'["badge"] = newest["badge"] /\ ("badge" \in doubt' <=> "badge" \in doubt)
    BY <1>1, <1>2, <1>5, <2>2, OthersHear DEF Lists
  <2>4. QED
    BY <1>1, <1>2, <1>3, <1>4, <2>1, <2>2, <2>3, BadgeSame
<1>7. CASE e.type = "request" /\ FriendRequest
  <2>1. PICK k : k = Asks("count", Nobody, "chat")
    OBVIOUS
  <2>2. PICK K : K = Times(k)
    OBVIOUS
  <2>3. OnChat /\ handlers = 1 /\ calls' = calls (+) K
    BY <1>7, <2>1, <2>2 DEF FriendRequest, SocketInv
  <2>4. DOMAIN K = {k}
    BY <2>2, <2>3, TimesDomain, SetDomain
  <2>5. k \in DOMAIN calls'
    BY <2>3, <2>4, PlusDomain
  <2>6. k.op = "count" /\ k.stage = "asked"
    BY <2>1 DEF Asks
  <2>7. Waited' # {}
    BY <2>5, <2>6 DEF Waited
  <2>8. \A a \in Counts : Of("received", a.data) = Of("received", rows) \/ a.n < now
    BY <2>3 DEF BadgeInv, Badge
  <2>9. PICK S, b, N, D : S = News' /\ b = badge' /\ N = newest'["badge"] /\ D = doubt'
    OBVIOUS
  <2>10. Badge(Waited', Counts, S, Of("received", rows), b, N, D, now)
    BY <2>7, <2>8, BadgeAsked
  <2>11. QED
    BY <1>2, <1>3, <1>4, <2>9, <2>10 DEF BadgeInv
<1>8. CASE e.type = "request" /\ Unheard
  <2>1. e \in Events("request") /\ Events("request") \ {e} \subseteq Events("request")'
    BY <1>2, <1>5, <1>8, EventsTail
  <2>2. e \in News /\ News \ {e} \subseteq News'
    BY <1>3, <2>1 DEF News
  <2>3. Misses({"received", "badge"}, e.n)
    BY <1>5, <1>8 DEF Unheard
  <2>4. SUFFICES ASSUME OnChat
                 PROVE  Badge(Waited', Counts', News', Of("received", rows), badge',
                              newest'["badge"], doubt', now)
    BY <1>2, <1>4 DEF BadgeInv, OnChat
  <2>5. Badge(Waited, Counts, News, Of("received", rows), badge, newest["badge"], doubt, now)
    BY <2>4 DEF BadgeInv
  <2>6. "badge" \in doubt' /\ newest'["badge"] \in Nat
        /\ newest'["badge"] >= newest["badge"] /\ newest'["badge"] >= e.n
    <3>1. PICK ls : ls = {"received", "badge"}
      OBVIOUS
    <3>2. Misses(ls, e.n) /\ ls \in SUBSET Lists /\ "badge" \in ls
      BY <2>3, <3>1 DEF Lists
    <3>3. QED
      BY <1>1, <1>2, <1>5, <2>4, <3>2, BadgeMissed
  <2>7. QED
    BY <1>1, <1>3, <2>2, <2>5, <2>6, BadgeTold
<1>9. FriendRequest \/ Unheard \/ e.type # "request"
  BY <1>5 DEF Hearing, FriendAccepted, FriendRequestResponse, Arrives
<1>10. QED
  BY <1>6, <1>7, <1>8, <1>9
--------------------------------------------------------------------------------
(* The badge counts the list and is counted anew, so both invariants come with it. *)
CountInv == ListsInv /\ TypeInv /\ Unasked /\ GoneWrites /\ BadgeInv

(* Before the chat page there is nothing to count. *)
LEMMA CountInvInit == Init => CountInv
<1> SUFFICES ASSUME Init PROVE CountInv
    OBVIOUS
<1>1. ListsInv /\ TypeInv
  BY ListsInvInit, TypeInvInit
<1>2. DOMAIN calls = {}
  BY DEF Init, EmptyBag, SetToBag
<1>3. Unasked /\ GoneWrites
  BY <1>2 DEF Unasked, GoneWrites
<1>4. BadgeInv
  BY DEF Init, BadgeInv, OnChat
<1>5. QED
  BY <1>1, <1>3, <1>4 DEF CountInv

(* Every step keeps what the badge needs. *)
LEMMA CountInvInductive == CountInv /\ [Next]_vars => CountInv'
<1> SUFFICES ASSUME CountInv, [Next]_vars
             PROVE  CountInv'
    OBVIOUS
<1>1. /\ MaxChanges \in Nat /\ SocketInv /\ Past /\ CallsGood /\ IsFiniteSet(rows)
      /\ Unasked /\ GoneWrites /\ BadgeInv
  BY BoundsAssumption DEF CountInv, TypeInv, Counted
<1>2. ListsInv' /\ TypeInv'
  BY ListsInvInductive, TypeInvInductive DEF CountInv
<1>3. Unasked' /\ GoneWrites'
  BY <1>1, UnaskedNext, GoneWritesNext
<1>4. BadgeInv'
  <2>1. CASE Moving
    BY <1>1, <2>1, BadgeMoves
  <2>2. CASE Calling
    <3>1. CASE \E op \in {"send", "accept", "reject", "remove"}, u \in Others : User(op, u)
      <4>1. /\ UNCHANGED <<rows, channel, client, lists, history>>
            /\ DOMAIN calls \subseteq DOMAIN calls'
            /\ \A c \in DOMAIN calls' : c \in DOMAIN calls \/ c.stage = "asked"
        BY <1>1, <3>1, PastUser
      <4>2. /\ Waited \subseteq Waited' /\ Counts' = Counts
            /\ Answered({"accept", "reject"})' = Answered({"accept", "reject"})
        BY <4>1, WaitedAsked
      <4>3. now \in Nat
        BY <1>1, BadgePast
      <4>4. QED
        BY <1>1, <4>1, <4>2, <4>3, BadgeSame DEF client, lists, history, Events, Of
    <3>2. CASE \E c \in DOMAIN calls : ServeRead(c) \/ ServeWrite(c) \/ ServeRefuses(c)
      BY <1>1, <3>2, BadgeServes
    <3>3. CASE \E c \in DOMAIN calls : \/ ListsAnswer(c) \/ CountAnswer(c) \/ FriendsAnswer(c)
                                       \/ SendAnswer(c) \/ RespondAnswer(c) \/ RemoveAnswer(c)
      <4>1. ReceivedInv'
        BY <1>2 DEF ListsInv
      <4>2. QED
        BY <1>1, <3>3, <4>1, BadgeAnswers
    <3>4. QED
      BY <2>2, <3>1, <3>2, <3>3 DEF Calling
  <2>3. CASE Hearing
    BY <1>1, <2>3, BadgeHears
  <2>4. CASE Elsewhere
    BY <1>1, <2>4, BadgeElsewhere
  <2>5. CASE UNCHANGED vars
    <3>1. now \in Nat
      BY <1>1, BadgePast
    <3>2. QED
      BY <1>1, <2>5, <3>1, BadgeSame DEF vars, client, lists, history, Events, Of, Answered, Counts, Waited
  <2>6. QED
    BY <2>1, <2>2, <2>3, <2>4, <2>5 DEF Next
<1>5. QED
  BY <1>2, <1>3, <1>4 DEF CountInv

(* However answers that were counted on the server, entries counted on the page and  *)
(* events that make it count again cross: once all have come, the badge is the       *)
(* number of requests that wait, unless it was told of an older change after a newer *)
(* one or not told.                                                                  *)
THEOREM BadgeCorrect == Spec => []BadgeExact
<1>1. CountInv => BadgeExact
  <2>1. SUFFICES ASSUME CountInv, Quiet, OnChat, "badge" \notin doubt
                 PROVE  badge = Cardinality(Of("received", rows))
    BY DEF BadgeExact
  <2>2. DOMAIN calls = {}
    BY <2>1 DEF Quiet, EmptyBag, SetToBag
  <2>3. Waited = {} /\ Counts = {} /\ News = {}
    BY <2>1, <2>2, QuietNews DEF Waited, Counts, News
  <2>4. Badge({}, {}, {}, Of("received", rows), badge, newest["badge"], doubt, now)
    BY <2>1, <2>3 DEF CountInv, BadgeInv
  <2>5. QED
    BY <2>1, <2>4 DEF Badge
<1>2. QED
  BY <1>1, CountInvInit, CountInvInductive, PTL DEF Spec
================================================================================
