---------------------------- MODULE FriendLists_proofs ----------------------------
(* Theorems about FriendLists, for any other users and any bounds. *)
EXTENDS FriendLists, TLAPS

(* A page that has no socket has set up no listeners either: this is what makes *)
(* the first connection put the handlers on it, and only that one.              *)
SocketInv ==
    /\ socket \in {"none", "down", "up"}
    /\ socket = "none" => handlers = 0 /\ listenersSetup = FALSE
    /\ socket # "none" => handlers = 1

(* The effect of the chat page keeps the invariant, whatever the socket's state:  *)
(* on a socket it makes it sets the handlers up, on another it leaves them alone. *)
LEMMA ConnectOnceKeeps ==
    ASSUME SocketInv, ConnectOnce
    PROVE  SocketInv'
<1>1. CASE socket = "none"
    <2>1. socket' = "down" /\ handlers' = handlers + 1
        BY <1>1 DEF SocketInv, ConnectOnce, Connect, SetupListeners
    <2>2. handlers' = 1
        BY <1>1, <2>1 DEF SocketInv
    <2> QED BY <2>1, <2>2 DEF SocketInv
<1>2. CASE socket # "none"
    <2>1. UNCHANGED <<socket, handlers, listenersSetup>>
        BY <1>2 DEF SocketInv, ConnectOnce, Connect
    <2> QED BY <2>1 DEF SocketInv
<1> QED BY <1>1, <1>2

(* Every step keeps the handlers on the socket once. *)
LEMMA SocketInvInductive == SocketInv /\ [Next]_vars => SocketInv'
<1> SUFFICES ASSUME SocketInv, [Next]_vars
             PROVE  SocketInv'
    OBVIOUS
<1>1. CASE Moving
    <2>1. CASE Connected BY <2>1 DEF Connected, SocketInv
    <2>2. CASE Lost BY <2>2 DEF Lost, SocketInv
    <2>3. CASE EnterChat
        <3>1. ConnectOnce BY <2>3 DEF EnterChat
        <3> QED BY <3>1, ConnectOnceKeeps
    <2>4. CASE OpenSettings BY <2>4 DEF OpenSettings, SocketInv
    <2>5. CASE OpenConversations BY <2>5 DEF OpenConversations, SocketInv
    <2>6. CASE OpenFriends BY <2>6 DEF OpenFriends, SocketInv
    <2>7. CASE LogsOut BY <2>7 DEF LogsOut, SocketInv
    <2> QED BY <1>1, <2>1, <2>2, <2>3, <2>4, <2>5, <2>6, <2>7 DEF Moving
<1>2. CASE Calling
    <2>1. UNCHANGED client
        <3>1. ASSUME NEW op, NEW u, User(op, u) PROVE UNCHANGED client
            BY <3>1 DEF User
        <3>2. ASSUME NEW c, \/ ServeRead(c) \/ ServeWrite(c) \/ ServeRefuses(c)
                            \/ ListsAnswer(c) \/ CountAnswer(c) \/ FriendsAnswer(c)
                            \/ SendAnswer(c) \/ RespondAnswer(c) \/ RemoveAnswer(c)
              PROVE  UNCHANGED client
            BY <3>2 DEF ServeRead, ServeWrite, ServeRefuses, ListsAnswer, CountAnswer,
                        FriendsAnswer, SendAnswer, RespondAnswer, RemoveAnswer
        <3> QED BY <1>2, <3>1, <3>2 DEF Calling
    <2> QED BY <2>1 DEF client, SocketInv
<1>3. CASE Hearing
    <2>1. UNCHANGED client
        BY <1>3 DEF Hearing, FriendRequest, FriendAccepted, FriendRequestResponse, Unheard
    <2> QED BY <2>1 DEF client, SocketInv
<1>4. CASE Elsewhere
    <2>1. UNCHANGED client
        BY <1>4 DEF Elsewhere, OtherSends, OtherAnswers, OtherRemoves
    <2> QED BY <2>1 DEF client, SocketInv
<1>5. CASE UNCHANGED vars
    BY <1>5 DEF vars, client, SocketInv
<1> QED BY <1>1, <1>2, <1>3, <1>4, <1>5 DEF Next

(* However often the user leaves the chat page and comes back, logs out and in, *)
(* and however the connection comes and goes, an event is handled once: the     *)
(* reset of listenersSetup in checkAndResetListeners never doubles the handlers *)
(* of a socket that stays.                                                      *)
THEOREM HandledOnceCorrect == Spec => []HandledOnce
<1>1. Init => SocketInv
    BY DEF Init, SocketInv
<1>2. SocketInv => HandledOnce
    BY DEF SocketInv, HandledOnce
<1> QED BY <1>1, <1>2, SocketInvInductive, PTL DEF Spec
--------------------------------------------------------------------------------
(***************************************************************************)
(* The lists.  What has happened to a list's rows since the list was last  *)
(* told of them is under way: in the events of the channel, and in the     *)
(* answers of calls, each with the number of its change.  P puts users on  *)
(* the list, M takes them off.                                             *)
(***************************************************************************)

(* change w, of u, lies after N and before x *)
Between(w, u, N, x) == w.who = u /\ N < w.n /\ w.n < x

LastOf(w, P, M, u, N, x) ==
    Between(w, u, N, x) /\ \A r \in P \union M : Between(r, u, N, x) => r.n <= w.n

NoneOf(P, M, u, N, x) == \A w \in P \union M : ~Between(w, u, N, x)

(* u is on the list before x: it was at N, on the list B, and nothing about it came *)
(* since, or what came last put it there                                            *)
OnBefore(P, M, u, N, B, x) ==
    \/ u \in B /\ NoneOf(P, M, u, N, x)
    \/ \E w \in P : LastOf(w, P, M, u, N, x)

OffBefore(P, M, u, N, B, x) ==
    \/ u \notin B /\ NoneOf(P, M, u, N, x)
    \/ \E w \in M : LastOf(w, P, M, u, N, x)

(* the news of u under way leads from the list B, at N, to R, at t: each puts on the *)
(* list whom was off it, or takes off whom was on it                                 *)
Leads(P, M, u, N, B, t, R) ==
    /\ \A w \in P : w.who = u /\ N < w.n => OffBefore(P, M, u, N, B, w.n)
    /\ \A w \in M : w.who = u /\ N < w.n => OnBefore(P, M, u, N, B, w.n)
    /\ u \in R => OnBefore(P, M, u, N, B, t + 1)
    /\ u \notin R => OffBefore(P, M, u, N, B, t + 1)

(* an answer under way, and the news, lead to the rows, unless the list has heard  *)
(* of something newer                                                              *)
AnswersLead(P, M, A, kind, R, N, t) ==
    \A a \in A : N > a.n \/ \A u : Leads(P, M, u, a.n, Of(kind, a.data), t, R)

(* so do the list itself and the news *)
ListLeads(P, M, list, R, N, t) ==
    /\ list = SetToBag(DOMAIN list)
    /\ \A u : Leads(P, M, u, N, DOMAIN list, t, R)

(* a list that waits for no answer, is not in doubt and will not be when it hears *)
(* the rest                                                                       *)
ListInv(P, M, A, W, kind, R, list, N, D, t) ==
    /\ AnswersLead(P, M, A, kind, R, N, t)
    /\ kind \notin D /\ W = {} /\ A = {} /\ (\A w \in P \union M : w.n > N)
         => ListLeads(P, M, list, R, N, t)

(* every change is numbered, and none after t *)
Numbered(S, t) == \A w \in S : w.n \in Nat /\ w.n <= t

(* Without news under way a list that has heard everything is the rows. *)
LEMMA LeadsNowhere ==
    ASSUME NEW u, NEW N, NEW B, NEW t, NEW R, Leads({}, {}, u, N, B, t, R)
    PROVE  u \in B <=> u \in R
BY DEF Leads, OnBefore, OffBefore

(* An answer of just now is the rows. *)
LEMMA LeadsNow ==
    ASSUME NEW P, NEW M, NEW u, NEW t \in Nat, NEW B, NEW R, u \in B <=> u \in R,
           Numbered(P \union M, t)
    PROVE  Leads(P, M, u, t, B, t, R)
<1>1. \A w \in P \union M : w.n \in Nat /\ ~(t < w.n)
  BY DEF Numbered
<1>2. NoneOf(P, M, u, t, t + 1)
  BY <1>1 DEF NoneOf, Between
<1>3. QED
  BY <1>1, <1>2 DEF Leads, OnBefore, OffBefore

(* Time passes without news of u. *)
LEMMA LeadsLater ==
    ASSUME NEW P, NEW M, NEW u, NEW N \in Nat, NEW B, NEW t \in Nat,
           NEW R, Numbered(P \union M, t), NEW s \in Nat, t <= s,
           Leads(P, M, u, N, B, t, R)
    PROVE  Leads(P, M, u, N, B, s, R)
<1>1. \A w \in P \union M : Between(w, u, N, t + 1) <=> Between(w, u, N, s + 1)
  BY DEF Numbered, Between
<1>2. \A w \in P \union M : LastOf(w, P, M, u, N, t + 1) <=> LastOf(w, P, M, u, N, s + 1)
  BY <1>1 DEF LastOf
<1>3. /\ OnBefore(P, M, u, N, B, t + 1) => OnBefore(P, M, u, N, B, s + 1)
      /\ OffBefore(P, M, u, N, B, t + 1) => OffBefore(P, M, u, N, B, s + 1)
  BY <1>1, <1>2 DEF OnBefore, OffBefore, NoneOf
<1>4. QED
  BY <1>3 DEF Leads

(* The same news, as far as u and the changes after N are concerned. *)
LEMMA LeadsSame ==
    ASSUME NEW P, NEW M, NEW Q, NEW K, NEW u, NEW N, NEW B, NEW t, NEW R, NEW S,
           \A w : w.who = u /\ N < w.n => (w \in P <=> w \in Q) /\ (w \in M <=> w \in K),
           u \in R <=> u \in S,
           Leads(P, M, u, N, B, t, R)
    PROVE  Leads(Q, K, u, N, B, t, S)
<1>1. \A w, x : Between(w, u, N, x) => w.who = u /\ N < w.n
  BY DEF Between
<1>2. \A w, x : Between(w, u, N, x) => (w \in P <=> w \in Q) /\ (w \in M <=> w \in K)
  BY <1>1
<1>3. \A w, x : LastOf(w, P, M, u, N, x) => /\ LastOf(w, Q, K, u, N, x)
                                            /\ Between(w, u, N, x)
  BY <1>2 DEF LastOf
<1>4. \A x : NoneOf(P, M, u, N, x) => NoneOf(Q, K, u, N, x)
  BY <1>2 DEF NoneOf
<1>5. /\ \A x : OnBefore(P, M, u, N, B, x) => OnBefore(Q, K, u, N, B, x)
      /\ \A x : OffBefore(P, M, u, N, B, x) => OffBefore(Q, K, u, N, B, x)
  BY <1>2, <1>3, <1>4 DEF OnBefore, OffBefore
<1>6. QED
  BY <1>5 DEF Leads

(* A change that puts u on the list, or takes u off, is the last news. *)
LEMMA LeadsOn ==
    ASSUME NEW P, NEW M, NEW u, NEW N \in Nat, NEW B, NEW t \in Nat, N <= t, NEW R, NEW S,
           Numbered(P \union M, t), Leads(P, M, u, N, B, t, R), u \notin R, u \in S,
           NEW w0, w0.who = u, w0.n = t + 1
    PROVE  Leads(P \union {w0}, M, u, N, B, t + 1, S)
<1>1. \A w \in P \union M : w.n \in Nat /\ w.n < t + 1
  BY DEF Numbered
<1>2. /\ ~Between(w0, u, N, t + 1)
      /\ \A w \in P \union M : ~Between(w0, u, N, w.n)
  BY <1>1 DEF Between
<1>3. /\ \A w : LastOf(w, P, M, u, N, t + 1) => LastOf(w, P \union {w0}, M, u, N, t + 1)
      /\ \A x \in P \union M : \A w :
            LastOf(w, P, M, u, N, x.n) => LastOf(w, P \union {w0}, M, u, N, x.n)
  BY <1>2 DEF LastOf
<1>4. OffBefore(P \union {w0}, M, u, N, B, w0.n)
  <2>1. OffBefore(P, M, u, N, B, t + 1)
    BY DEF Leads
  <2>2. OffBefore(P \union {w0}, M, u, N, B, t + 1)
    BY <1>2, <1>3, <2>1 DEF OffBefore, NoneOf
  <2>3. QED
    BY <2>2
<1>5. \A x \in P \union M :
         /\ OnBefore(P, M, u, N, B, x.n) => OnBefore(P \union {w0}, M, u, N, B, x.n)
         /\ OffBefore(P, M, u, N, B, x.n) => OffBefore(P \union {w0}, M, u, N, B, x.n)
  BY <1>2, <1>3 DEF OnBefore, OffBefore, NoneOf
<1>6. LastOf(w0, P \union {w0}, M, u, N, (t + 1) + 1)
  BY <1>1 DEF LastOf, Between
<1>7. OnBefore(P \union {w0}, M, u, N, B, (t + 1) + 1)
  BY <1>6 DEF OnBefore
<1>8. QED
  BY <1>4, <1>5, <1>7 DEF Leads

(* A change that takes u off the list adds itself to the news. *)
LEMMA LeadsOff ==
    ASSUME NEW P, NEW M, NEW u, NEW N \in Nat, NEW B, NEW t \in Nat, N <= t, NEW R, NEW S,
           Numbered(P \union M, t), Leads(P, M, u, N, B, t, R), u \in R, u \notin S,
           NEW w0, w0.who = u, w0.n = t + 1
    PROVE  Leads(P, M \union {w0}, u, N, B, t + 1, S)
<1>1. \A w \in P \union M : w.n \in Nat /\ w.n < t + 1
  BY DEF Numbered
<1>2. /\ ~Between(w0, u, N, t + 1)
      /\ \A w \in P \union M : ~Between(w0, u, N, w.n)
  BY <1>1 DEF Between
<1>3. /\ \A w : LastOf(w, P, M, u, N, t + 1) => LastOf(w, P, M \union {w0}, u, N, t + 1)
      /\ \A x \in P \union M : \A w :
            LastOf(w, P, M, u, N, x.n) => LastOf(w, P, M \union {w0}, u, N, x.n)
  BY <1>2 DEF LastOf
<1>4. OnBefore(P, M \union {w0}, u, N, B, w0.n)
  <2>1. OnBefore(P, M, u, N, B, t + 1)
    BY DEF Leads
  <2>2. OnBefore(P, M \union {w0}, u, N, B, t + 1)
    BY <1>2, <1>3, <2>1 DEF OnBefore, NoneOf
  <2>3. QED
    BY <2>2
<1>5. \A x \in P \union M :
         /\ OnBefore(P, M, u, N, B, x.n) => OnBefore(P, M \union {w0}, u, N, B, x.n)
         /\ OffBefore(P, M, u, N, B, x.n) => OffBefore(P, M \union {w0}, u, N, B, x.n)
  BY <1>2, <1>3 DEF OnBefore, OffBefore, NoneOf
<1>6. LastOf(w0, P, M \union {w0}, u, N, (t + 1) + 1)
  BY <1>1 DEF LastOf, Between
<1>7. OffBefore(P, M \union {w0}, u, N, B, (t + 1) + 1)
  BY <1>6 DEF OffBefore
<1>8. QED
  BY <1>4, <1>5, <1>7 DEF Leads

(* The oldest news after N is heard: it puts on the list whom was off it, or takes off *)
(* whom was on it, and the rest of the news goes on from there.                        *)
LEMMA LeadsHeardOn ==
    ASSUME NEW P, NEW M, NEW u, NEW N \in Nat, NEW B, NEW C, NEW t \in Nat,
           NEW R, Numbered(P \union M, t), Leads(P, M, u, N, B, t, R),
           NEW w0 \in P, N < w0.n, \A w \in (P \ {w0}) \union M : w.n > w0.n
    PROVE  /\ w0.who = u => u \notin B
           /\ w0.who = u /\ u \in C => Leads(P \ {w0}, M, u, w0.n, C, t, R)
           /\ w0.who # u /\ (u \in B <=> u \in C) => Leads(P \ {w0}, M, u, w0.n, C, t, R)
<1>1. /\ \A w \in P \union M : w.n \in Nat /\ w.n < t + 1
      /\ w0.n \in Nat
      /\ \A w \in P \union M : w = w0 \/ w.n > w0.n
  BY DEF Numbered
<1>2. w0 \notin M /\ w0 \notin (P \ {w0}) \union M
  BY <1>1
<1>3. \A w \in (P \ {w0}) \union M : \A x : Between(w, u, N, x) <=> Between(w, u, w0.n, x)
  BY <1>1 DEF Between
<1>4. \A w \in (P \ {w0}) \union M : \A x :
         LastOf(w, P, M, u, N, x) => LastOf(w, P \ {w0}, M, u, w0.n, x)
  BY <1>3 DEF LastOf
<1>5. ASSUME w0.who # u, u \in B <=> u \in C
      PROVE  Leads(P \ {w0}, M, u, w0.n, C, t, R)
  <2>1. \A x : ~Between(w0, u, N, x)
    BY <1>5 DEF Between
  <2>2. /\ \A x : OnBefore(P, M, u, N, B, x) => OnBefore(P \ {w0}, M, u, w0.n, C, x)
        /\ \A x : OffBefore(P, M, u, N, B, x) => OffBefore(P \ {w0}, M, u, w0.n, C, x)
    BY <1>3, <1>4, <1>5, <2>1 DEF OnBefore, OffBefore, NoneOf, LastOf
  <2>3. \A w \in (P \ {w0}) \union M : N < w.n
    BY <1>1
  <2>4. QED
    BY <2>2, <2>3 DEF Leads
<1>6. ASSUME w0.who = u
      PROVE  u \notin B /\ (u \in C => Leads(P \ {w0}, M, u, w0.n, C, t, R))
  <2>1. u \notin B
    <3>1. OffBefore(P, M, u, N, B, w0.n)
      BY <1>6 DEF Leads
    <3>2. \A w \in M : ~Between(w, u, N, w0.n)
      BY <1>1, <1>2 DEF Between
    <3>3. QED
      BY <3>1, <3>2 DEF OffBefore, LastOf
  <2>2. \A x : w0.n < x => Between(w0, u, N, x)
    BY <1>6 DEF Between
  <2>3. \A x : LastOf(w0, P, M, u, N, x) => NoneOf(P \ {w0}, M, u, w0.n, x)
    BY <1>1, <1>3 DEF LastOf, Between, NoneOf
  <2>4. ASSUME u \in C, NEW x, w0.n < x
        PROVE  /\ OnBefore(P, M, u, N, B, x) => OnBefore(P \ {w0}, M, u, w0.n, C, x)
               /\ OffBefore(P, M, u, N, B, x) => OffBefore(P \ {w0}, M, u, w0.n, C, x)
    BY <1>2, <1>4, <2>2, <2>3, <2>4 DEF OnBefore, OffBefore, NoneOf
  <2>5. \A w \in (P \ {w0}) \union M : N < w.n /\ w0.n < w.n
    BY <1>1
  <2>6. w0.n < t + 1
    BY <1>1
  <2>7. QED
    BY <2>1, <2>4, <2>5, <2>6 DEF Leads
<1>7. QED
  BY <1>5, <1>6

(* The earliest news is heard: it took its user off the list. *)
LEMMA LeadsHeardOff ==
    ASSUME NEW P, NEW M, NEW u, NEW N \in Nat, NEW B, NEW C, NEW t \in Nat,
           NEW R, Numbered(P \union M, t), Leads(P, M, u, N, B, t, R),
           NEW w0 \in M, N < w0.n, \A w \in P \union (M \ {w0}) : w.n > w0.n
    PROVE  /\ w0.who = u => u \in B
           /\ w0.who = u /\ u \notin C => Leads(P, M \ {w0}, u, w0.n, C, t, R)
           /\ w0.who # u /\ (u \in B <=> u \in C) => Leads(P, M \ {w0}, u, w0.n, C, t, R)
<1>1. /\ \A w \in P \union M : w.n \in Nat /\ w.n < t + 1
      /\ w0.n \in Nat
      /\ \A w \in P \union M : w = w0 \/ w.n > w0.n
  BY DEF Numbered
<1>2. w0 \notin P /\ w0 \notin P \union (M \ {w0})
  BY <1>1
<1>3. \A w \in P \union (M \ {w0}) : \A x : Between(w, u, N, x) <=> Between(w, u, w0.n, x)
  BY <1>1 DEF Between
<1>4. \A w \in P \union (M \ {w0}) : \A x :
         LastOf(w, P, M, u, N, x) => LastOf(w, P, M \ {w0}, u, w0.n, x)
  BY <1>3 DEF LastOf
<1>5. ASSUME w0.who # u, u \in B <=> u \in C
      PROVE  Leads(P, M \ {w0}, u, w0.n, C, t, R)
  <2>1. \A x : ~Between(w0, u, N, x)
    BY <1>5 DEF Between
  <2>2. /\ \A x : OnBefore(P, M, u, N, B, x) => OnBefore(P, M \ {w0}, u, w0.n, C, x)
        /\ \A x : OffBefore(P, M, u, N, B, x) => OffBefore(P, M \ {w0}, u, w0.n, C, x)
    BY <1>3, <1>4, <1>5, <2>1 DEF OnBefore, OffBefore, NoneOf, LastOf
  <2>3. \A w \in P \union (M \ {w0}) : N < w.n
    BY <1>1
  <2>4. QED
    BY <2>2, <2>3 DEF Leads
<1>6. ASSUME w0.who = u
      PROVE  u \in B /\ (u \notin C => Leads(P, M \ {w0}, u, w0.n, C, t, R))
  <2>1. u \in B
    <3>1. OnBefore(P, M, u, N, B, w0.n)
      BY <1>6 DEF Leads
    <3>2. \A w \in P : ~Between(w, u, N, w0.n)
      BY <1>1, <1>2 DEF Between
    <3>3. QED
      BY <3>1, <3>2 DEF OnBefore, LastOf
  <2>2. \A x : w0.n < x => Between(w0, u, N, x)
    BY <1>6 DEF Between
  <2>3. \A x : LastOf(w0, P, M, u, N, x) => NoneOf(P, M \ {w0}, u, w0.n, x)
    BY <1>1, <1>3 DEF LastOf, Between, NoneOf
  <2>4. ASSUME u \notin C, NEW x, w0.n < x
        PROVE  /\ OnBefore(P, M, u, N, B, x) => OnBefore(P, M \ {w0}, u, w0.n, C, x)
               /\ OffBefore(P, M, u, N, B, x) => OffBefore(P, M \ {w0}, u, w0.n, C, x)
    BY <1>2, <1>4, <2>2, <2>3, <2>4 DEF OnBefore, OffBefore, NoneOf
  <2>5. \A w \in P \union (M \ {w0}) : N < w.n /\ w0.n < w.n
    BY <1>1
  <2>6. w0.n < t + 1
    BY <1>1
  <2>7. QED
    BY <2>1, <2>4, <2>5, <2>6 DEF Leads
<1>7. QED
  BY <1>5, <1>6

--------------------------------------------------------------------------------
(* What the steps of the program do to one list, abstractly: ListInv is kept. *)

(* numbers are in the past *)
PastNews(P, M, A, N, t) ==
    /\ t \in Nat /\ N \in Nat /\ N <= t
    /\ Numbered(P \union M, t)
    /\ Numbered(A, t)

(* A list that starts to wait for its first answer has promised nothing. *)
LEMMA ListStarts ==
    ASSUME NEW P, NEW M, NEW W, W # {}, NEW kind, NEW R, NEW list, NEW N, NEW D, NEW t
    PROVE  ListInv(P, M, {}, W, kind, R, list, N, D, t)
BY DEF ListInv, AnswersLead

(* Nothing about the list, or the list asks again. *)
LEMMA ListIdle ==
    ASSUME NEW P, NEW M, NEW A, NEW W, NEW kind, NEW R, NEW list, NEW N, NEW D, NEW t,
           PastNews(P, M, A, N, t), ListInv(P, M, A, W, kind, R, list, N, D, t),
           NEW V, W # {} => V # {}, NEW E, kind \in E <=> kind \in D, NEW s \in Nat, t <= s
    PROVE  ListInv(P, M, A, V, kind, R, list, N, E, s)
<1>1. \A a \in A : a.n \in Nat
  BY DEF PastNews, Numbered
<1>2. \A n \in Nat : \A u, B : Leads(P, M, u, n, B, t, R) => Leads(P, M, u, n, B, s, R)
  BY LeadsLater DEF PastNews
<1>3. QED
  BY <1>1, <1>2 DEF ListInv, AnswersLead, ListLeads, PastNews

(* The rows of the list change, and the news of it is the latest. *)
LEMMA ListPutOn ==
    ASSUME NEW P, NEW M, NEW A, NEW W, NEW kind, NEW R, NEW list, NEW N, NEW D, NEW t,
           PastNews(P, M, A, N, t), ListInv(P, M, A, W, kind, R, list, N, D, t),
           NEW w0, w0.n = t + 1, w0.who \notin R
    PROVE  ListInv(P \union {w0}, M, A, W, kind, R \union {w0.who}, list, N, D, t + 1)
<1>1. ASSUME NEW u, NEW n \in Nat, n <= t, NEW B, Leads(P, M, u, n, B, t, R)
      PROVE  Leads(P \union {w0}, M, u, n, B, t + 1, R \union {w0.who})
  <2>1. CASE w0.who = u
    BY <1>1, <2>1, LeadsOn DEF PastNews
  <2>2. CASE w0.who # u
    <3>1. Leads(P, M, u, n, B, t + 1, R)
      BY <1>1, LeadsLater DEF PastNews
    <3>2. QED
      BY <2>2, <3>1, LeadsSame
  <2>3. QED
    BY <2>1, <2>2
<1>2. \A a \in A : a.n \in Nat /\ a.n <= t
  BY DEF PastNews, Numbered
<1>3. AnswersLead(P \union {w0}, M, A, kind, R \union {w0.who}, N, t + 1)
  BY <1>1, <1>2 DEF ListInv, AnswersLead
<1>4. ListLeads(P, M, list, R, N, t) => ListLeads(P \union {w0}, M, list, R \union {w0.who}, N, t + 1)
  BY <1>1 DEF ListLeads, PastNews
<1>5. QED
  BY <1>3, <1>4 DEF ListInv

(* The same when a user leaves the rows. *)
LEMMA ListTakenOff ==
    ASSUME NEW P, NEW M, NEW A, NEW W, NEW kind, NEW R, NEW list, NEW N, NEW D, NEW t,
           PastNews(P, M, A, N, t), ListInv(P, M, A, W, kind, R, list, N, D, t),
           NEW w0, w0.n = t + 1, w0.who \in R
    PROVE  ListInv(P, M \union {w0}, A, W, kind, R \ {w0.who}, list, N, D, t + 1)
<1>1. ASSUME NEW u, NEW n \in Nat, n <= t, NEW B, Leads(P, M, u, n, B, t, R)
      PROVE  Leads(P, M \union {w0}, u, n, B, t + 1, R \ {w0.who})
  <2>1. CASE w0.who = u
    BY <1>1, <2>1, LeadsOff DEF PastNews
  <2>2. CASE w0.who # u
    <3>1. Leads(P, M, u, n, B, t + 1, R)
      BY <1>1, LeadsLater DEF PastNews
    <3>2. QED
      BY <2>2, <3>1, LeadsSame
  <2>3. QED
    BY <2>1, <2>2
<1>2. \A a \in A : a.n \in Nat /\ a.n <= t
  BY DEF PastNews, Numbered
<1>3. AnswersLead(P, M \union {w0}, A, kind, R \ {w0.who}, N, t + 1)
  BY <1>1, <1>2 DEF ListInv, AnswersLead
<1>4. ListLeads(P, M, list, R, N, t) => ListLeads(P, M \union {w0}, list, R \ {w0.who}, N, t + 1)
  BY <1>1 DEF ListLeads, PastNews
<1>5. QED
  BY <1>3, <1>4 DEF ListInv

(* The server answers with the rows as they are. *)
LEMMA ListServed ==
    ASSUME NEW P, NEW M, NEW A, NEW W, NEW kind, NEW R, NEW list, NEW N, NEW D, NEW t,
           PastNews(P, M, A, N, t), ListInv(P, M, A, W, kind, R, list, N, D, t),
           NEW a0, a0.n = t, Of(kind, a0.data) = R,
           NEW B, a0 \in B, B \subseteq A \union {a0}, NEW V
    PROVE  ListInv(P, M, B, V, kind, R, list, N, D, t)
<1>1. \A u : Leads(P, M, u, t, R, t, R)
  BY LeadsNow DEF PastNews
<1>2. AnswersLead(P, M, B, kind, R, N, t)
  BY <1>1 DEF ListInv, AnswersLead
<1>3. QED
  BY <1>2 DEF ListInv

(* An answer arrives: the list is what it says. *)
LEMMA ListAnswered ==
    ASSUME NEW P, NEW M, NEW A, NEW W, NEW kind, NEW R, NEW list, NEW N, NEW D, NEW t,
           PastNews(P, M, A, N, t), ListInv(P, M, A, W, kind, R, list, N, D, t),
           NEW a0 \in A, NEW B, B \subseteq A,
           NEW N1, N1 >= N, N1 >= a0.n, N1 = N \/ N1 = a0.n,
           NEW E, kind \in E <=> a0.n < N
    PROVE  ListInv(P, M, B, W, kind, R, SetToBag(Of(kind, a0.data)), N1, E, t)
<1>1. a0.n \in Nat /\ \A a \in A : a.n \in Nat
  BY DEF PastNews, Numbered
<1>2. AnswersLead(P, M, B, kind, R, N1, t)
  BY <1>1 DEF ListInv, AnswersLead, PastNews
<1>3. kind \notin E => N1 = a0.n /\ ~(N > a0.n)
  BY <1>1 DEF PastNews
<1>4. DOMAIN SetToBag(Of(kind, a0.data)) = Of(kind, a0.data)
  BY DEF SetToBag
<1>5. kind \notin E => ListLeads(P, M, SetToBag(Of(kind, a0.data)), R, N1, t)
  BY <1>3, <1>4 DEF ListInv, AnswersLead, ListLeads
<1>6. QED
  BY <1>2, <1>5 DEF ListInv

(* News that the list misses, or hears out of order, puts it in doubt. *)
LEMMA ListMisses ==
    ASSUME NEW P, NEW M, NEW A, NEW W, NEW kind, NEW R, NEW list, NEW N, NEW D, NEW t,
           PastNews(P, M, A, N, t), ListInv(P, M, A, W, kind, R, list, N, D, t),
           NEW w0 \in P \union M,
           NEW Q, P \ {w0} \subseteq Q, Q \subseteq P,
           NEW K, M \ {w0} \subseteq K, K \subseteq M,
           NEW N1 \in Nat, N1 >= N, N1 >= w0.n, NEW E, kind \in E, NEW any
    PROVE  ListInv(Q, K, A, W, kind, R, any, N1, E, t)

<1>1. SUFFICES ASSUME NEW a \in A, ~(N1 > a.n), NEW u
               PROVE  Leads(Q, K, u, a.n, Of(kind, a.data), t, R)
  BY DEF ListInv, AnswersLead
<1>2. a.n \in Nat /\ w0.n \in Nat
  BY DEF PastNews, Numbered
<1>3. ~(N > a.n) /\ ~(a.n < w0.n)
  BY <1>1, <1>2 DEF PastNews
<1>4. Leads(P, M, u, a.n, Of(kind, a.data), t, R)
  BY <1>1, <1>3 DEF ListInv, AnswersLead
<1>5. \A w : w.who = u /\ a.n < w.n => (w \in P <=> w \in Q) /\ (w \in M <=> w \in K)
  BY <1>3
<1>6. QED
  BY <1>4, <1>5, LeadsSame

(* News that is heard in its turn: the list follows it. *)
LEMMA ListHearsOn ==
    ASSUME NEW P, NEW M, NEW A, NEW W, NEW kind, NEW R, NEW list, NEW N, NEW D, NEW t,
           PastNews(P, M, A, N, t), ListInv(P, M, A, W, kind, R, list, N, D, t),
           NEW w0 \in P, NEW Q, P \ {w0} \subseteq Q, Q \subseteq P,
           NEW N1, N1 >= N, N1 >= w0.n, N1 = N \/ N1 = w0.n,
           NEW E, kind \in E <=> kind \in D \/ w0.n <= N, NEW one,
           list = SetToBag(DOMAIN list) => (w0.who \notin DOMAIN list => one = SetToBag(DOMAIN list \union {w0.who}))
    PROVE  ListInv(Q, M, A, W, kind, R, one, N1, E, t)
<1>1. w0.n \in Nat /\ \A w \in P \union M : w.n \in Nat
  BY DEF PastNews, Numbered
<1>2. AnswersLead(Q, M, A, kind, R, N1, t)
  <2>1. N1 \in Nat
    BY <1>1 DEF PastNews
  <2>2. ListInv(Q, M, A, W, kind, R, one, N1, {kind}, t)
    BY <2>1, ListMisses
  <2>3. QED
    BY <2>2 DEF ListInv
<1>3. ASSUME kind \notin E, W = {}, A = {}, \A w \in Q \union M : w.n > N1
      PROVE  ListLeads(Q, M, one, R, N1, t)
  <2>1. N < w0.n /\ N1 = w0.n /\ w0 \notin Q /\ kind \notin D
    BY <1>1, <1>3 DEF PastNews
  <2>2. Q = P \ {w0}
    BY <2>1
  <2>3. \A w \in P \union M : w.n > N
    BY <1>1, <1>3, <2>1 DEF PastNews
  <2>4. ListLeads(P, M, list, R, N, t)
    BY <1>3, <2>1, <2>3 DEF ListInv
  <2>5. \A u : Leads(P, M, u, N, DOMAIN list, t, R)
    BY <2>4 DEF ListLeads
  <2>6. PICK C : C = DOMAIN list \union {w0.who}
    OBVIOUS
  <2>7. \A u : /\ w0.who = u => u \notin DOMAIN list
               /\ Leads(P \ {w0}, M, u, w0.n, C, t, R)
    <3>1. SUFFICES ASSUME NEW u
                   PROVE  /\ w0.who = u => u \notin DOMAIN list
                          /\ Leads(P \ {w0}, M, u, w0.n, C, t, R)
      OBVIOUS
    <3>2. \A w \in (P \ {w0}) \union M : w.n > w0.n
      BY <1>3, <2>1, <2>2
    <3>3. w0.who = u => u \in C
      BY <2>6
    <3>4. w0.who # u => (u \in DOMAIN list <=> u \in C)
      BY <2>6
    <3>5. Leads(P, M, u, N, DOMAIN list, t, R)
      BY <2>5
    <3>6. N \in Nat /\ t \in Nat /\ Numbered(P \union M, t) /\ N < w0.n
      BY <2>1 DEF PastNews
    <3>7. /\ w0.who = u => u \notin DOMAIN list
          /\ w0.who = u /\ u \in C => Leads(P \ {w0}, M, u, w0.n, C, t, R)
          /\ w0.who # u /\ (u \in DOMAIN list <=> u \in C) => Leads(P \ {w0}, M, u, w0.n, C, t, R)
      BY <3>2, <3>5, <3>6, LeadsHeardOn
    <3>8. QED
      BY <3>3, <3>4, <3>7
  <2>9. one = SetToBag(C) /\ DOMAIN one = C
    BY <2>4, <2>6, <2>7 DEF ListLeads, SetToBag
  <2>10. ASSUME NEW u
         PROVE  Leads(Q, M, u, N1, DOMAIN one, t, R)
    <3>1. Leads(P \ {w0}, M, u, w0.n, C, t, R)
      BY <2>7
    <3>2. Q = P \ {w0} /\ N1 = w0.n /\ DOMAIN one = C
      BY <2>1, <2>2, <2>9
    <3>3. QED
      BY <3>1, <3>2, Zenon
  <2>11. one = SetToBag(DOMAIN one)
    BY <2>9
  <2>12. QED
    BY <2>10, <2>11 DEF ListLeads
<1>4. QED
  BY <1>2, <1>3 DEF ListInv

(* The same for the earliest news that takes a user off. *)
LEMMA ListHearsOff ==
    ASSUME NEW P, NEW M, NEW A, NEW W, NEW kind, NEW R, NEW list, NEW N, NEW D, NEW t,
           PastNews(P, M, A, N, t), ListInv(P, M, A, W, kind, R, list, N, D, t),
           NEW w0 \in M, NEW Q, M \ {w0} \subseteq Q, Q \subseteq M,
           NEW N1, N1 >= N, N1 >= w0.n, N1 = N \/ N1 = w0.n,
           NEW E, kind \in E <=> kind \in D \/ w0.n <= N, NEW one,
           list = SetToBag(DOMAIN list) => (one = SetToBag(DOMAIN list \ {w0.who}))
    PROVE  ListInv(P, Q, A, W, kind, R, one, N1, E, t)
<1>1. w0.n \in Nat /\ \A w \in P \union M : w.n \in Nat
  BY DEF PastNews, Numbered
<1>2. AnswersLead(P, Q, A, kind, R, N1, t)
  <2>1. N1 \in Nat
    BY <1>1 DEF PastNews
  <2>2. ListInv(P, Q, A, W, kind, R, one, N1, {kind}, t)
    BY <2>1, ListMisses
  <2>3. QED
    BY <2>2 DEF ListInv
<1>3. ASSUME kind \notin E, W = {}, A = {}, \A w \in P \union Q : w.n > N1
      PROVE  ListLeads(P, Q, one, R, N1, t)
  <2>1. N < w0.n /\ N1 = w0.n /\ w0 \notin Q /\ kind \notin D
    BY <1>1, <1>3 DEF PastNews
  <2>2. Q = M \ {w0}
    BY <2>1
  <2>3. \A w \in P \union M : w.n > N
    BY <1>1, <1>3, <2>1 DEF PastNews
  <2>4. ListLeads(P, M, list, R, N, t)
    BY <1>3, <2>1, <2>3 DEF ListInv
  <2>5. \A u : Leads(P, M, u, N, DOMAIN list, t, R)
    BY <2>4 DEF ListLeads
  <2>6. PICK C : C = DOMAIN list \ {w0.who}
    OBVIOUS
  <2>7. \A u : /\ w0.who = u => u \in DOMAIN list
               /\ Leads(P, M \ {w0}, u, w0.n, C, t, R)
    <3>1. SUFFICES ASSUME NEW u
                   PROVE  /\ w0.who = u => u \in DOMAIN list
                          /\ Leads(P, M \ {w0}, u, w0.n, C, t, R)
      OBVIOUS
    <3>2. \A w \in P \union (M \ {w0}) : w.n > w0.n
      BY <1>3, <2>1, <2>2
    <3>3. w0.who = u => u \notin C
      BY <2>6
    <3>4. w0.who # u => (u \in DOMAIN list <=> u \in C)
      BY <2>6
    <3>5. Leads(P, M, u, N, DOMAIN list, t, R)
      BY <2>5
    <3>6. N \in Nat /\ t \in Nat /\ Numbered(P \union M, t) /\ N < w0.n
      BY <2>1 DEF PastNews
    <3>7. /\ w0.who = u => u \in DOMAIN list
          /\ w0.who = u /\ u \notin C => Leads(P, M \ {w0}, u, w0.n, C, t, R)
          /\ w0.who # u /\ (u \in DOMAIN list <=> u \in C) => Leads(P, M \ {w0}, u, w0.n, C, t, R)
      BY <3>2, <3>5, <3>6, LeadsHeardOff
    <3>8. QED
      BY <3>3, <3>4, <3>7
  <2>9. one = SetToBag(C) /\ DOMAIN one = C
    BY <2>4, <2>6, <2>7 DEF ListLeads, SetToBag
  <2>10. ASSUME NEW u
         PROVE  Leads(P, Q, u, N1, DOMAIN one, t, R)
    <3>1. Leads(P, M \ {w0}, u, w0.n, C, t, R)
      BY <2>7
    <3>2. Q = M \ {w0} /\ N1 = w0.n /\ DOMAIN one = C
      BY <2>1, <2>2, <2>9
    <3>3. QED
      BY <3>1, <3>2, Zenon
  <2>11. one = SetToBag(DOMAIN one)
    BY <2>9
  <2>12. QED
    BY <2>10, <2>11 DEF ListLeads
<1>4. QED
  BY <1>2, <1>3 DEF ListInv
--------------------------------------------------------------------------------
(* Bags and numbers. How many copies a bag has of a call is of no concern. *)

(* What the members of a bag are after the operators on bags. *)
LEMMA WithDomain == ASSUME NEW B, NEW x PROVE DOMAIN With(B, x) = DOMAIN B \union {x}
BY DEF With, (+), SetToBag

(* One copy less may leave the member there. *)
LEMMA LessDomain ==
    ASSUME NEW B, NEW x
    PROVE  /\ DOMAIN B \ {x} \subseteq DOMAIN Less(B, x)
           /\ DOMAIN Less(B, x) \subseteq DOMAIN B
BY DEF Less, Without, Restrict

(* The members of two bags together. *)
LEMMA PlusDomain == ASSUME NEW B, NEW C PROVE DOMAIN (B (+) C) = DOMAIN B \union DOMAIN C
BY DEF (+)

(* The members of the bag of a set. *)
LEMMA SetDomain == ASSUME NEW S PROVE DOMAIN SetToBag(S) = S
BY DEF SetToBag

(* However many handlers hear it, at most x is added. *)
LEMMA TimesDomain ==
    ASSUME NEW x
    PROVE  /\ DOMAIN Times(x) \subseteq {x}
           /\ handlers = 1 => Times(x) = SetToBag({x})
BY DEF Times, EmptyBag, SetToBag

(* Max, of two numbers. *)
LEMMA MaxOfTwo ==
    ASSUME NEW a \in Nat, NEW b \in Nat
    PROVE  Max({a, b}) \in {a, b} /\ Max({a, b}) >= a /\ Max({a, b}) >= b
<1>1. \E x \in {a, b} : \A y \in {a, b} : x >= y
  <2>1. a >= b \/ b >= a
    OBVIOUS
  <2>2. QED
    BY <2>1
<1>2. QED
  BY <1>1 DEF Max

(* The calls left of a page or a tab. *)
LEMMA OrphanedDomain ==
    ASSUME NEW by
    PROVE  \A c : c \in DOMAIN Orphaned(by) <=>
                     /\ \E d \in DOMAIN calls : c = Left(by, d)
                     /\ c.by = "gone" => c.op \notin Reads
BY DEF Orphaned

(* What a list hears, and only that list. *)
LEMMA HearsEffect ==
    ASSUME NEW ls \in SUBSET Lists, NEW n \in Nat, NEW whole \in BOOLEAN,
           newest \in [Lists -> Nat], Hears(ls, n, whole)
    PROVE  /\ now' = now /\ newest' \in [Lists -> Nat]
           /\ \A l \in Lists \ ls : newest'[l] = newest[l] /\ (l \in doubt' <=> l \in doubt)
           /\ \A l \in ls : /\ newest'[l] >= newest[l] /\ newest'[l] >= n
                            /\ newest'[l] = newest[l] \/ newest'[l] = n
                            /\ whole => (l \in doubt' <=> n < newest[l])
                            /\ ~whole => (l \in doubt' <=> l \in doubt \/ n <= newest[l])
<1>1. \A l \in Lists : /\ Max({newest[l], n}) \in {newest[l], n}
                       /\ Max({newest[l], n}) >= newest[l] /\ Max({newest[l], n}) >= n
  BY MaxOfTwo
<1>2. /\ newest' = [l \in Lists |-> IF l \in ls THEN Max({newest[l], n}) ELSE newest[l]]
      /\ now' = now
  BY DEF Hears
<1>3. whole => doubt' = (doubt \ ls) \union {l \in ls : n < newest[l]}
  BY DEF Hears
<1>4. ~whole => doubt' = doubt \union {l \in ls : n <= newest[l]}
  BY DEF Hears
<1>5. newest' \in [Lists -> Nat]
  BY <1>1, <1>2
<1>6. QED
  BY <1>1, <1>2, <1>3, <1>4, <1>5

(* What a list knows after the badge is counted with it. *)
LEMMA HearsCountedEffect ==
    ASSUME NEW n \in Nat, newest \in [Lists -> Nat], HearsCounted({"received"}, n)
    PROVE  /\ now' = now /\ newest' \in [Lists -> Nat]
           /\ \A l \in {"sent", "contacts"} :
                 newest'[l] = newest[l] /\ (l \in doubt' <=> l \in doubt)
           /\ \A l \in {"received", "badge"} :
                 /\ newest'[l] >= newest[l] /\ newest'[l] >= n
                 /\ newest'[l] = newest[l] \/ newest'[l] = n
           /\ "received" \in doubt' <=> "received" \in doubt \/ n <= newest["received"]
<1>1. \A l \in Lists : /\ Max({newest[l], n}) \in {newest[l], n}
                       /\ Max({newest[l], n}) >= newest[l] /\ Max({newest[l], n}) >= n
  BY MaxOfTwo
<1>2. /\ newest' = [l \in Lists |-> IF l \in {"received"} \union {"badge"}
                                    THEN Max({newest[l], n}) ELSE newest[l]]
      /\ now' = now
  BY DEF HearsCounted
<1>3. \A l \in {"received", "sent", "contacts"} :
         l \in doubt' <=> l \in doubt \union {k \in {"received"} : n <= newest[k]}
  BY DEF HearsCounted
<1>4. newest' \in [Lists -> Nat]
  BY <1>1, <1>2
<1>5. QED
  BY <1>1, <1>2, <1>3, <1>4 DEF Lists

(* A missed change puts the lists that are mounted in doubt. *)
LEMMA MissesEffect ==
    ASSUME NEW ls \in SUBSET Lists, NEW n \in Nat, newest \in [Lists -> Nat], Misses(ls, n)
    PROVE  /\ now' = now /\ newest' \in [Lists -> Nat]
           /\ \A l \in Lists : newest'[l] = newest[l] \/ newest'[l] = n
           /\ \A l \in Lists \ ls : newest'[l] = newest[l] /\ (l \in doubt' <=> l \in doubt)
           /\ view = "friends" => \A l \in ls : /\ newest'[l] >= newest[l] /\ newest'[l] >= n
                                                /\ l \in doubt'
<1>1. \A l \in Lists : /\ Max({newest[l], n}) \in {newest[l], n}
                       /\ Max({newest[l], n}) >= newest[l] /\ Max({newest[l], n}) >= n
  BY MaxOfTwo
<1>2. PICK missed : missed = ls \intersect Mounted
  OBVIOUS
<1>3. /\ newest' = [l \in Lists |-> IF l \in missed THEN Max({newest[l], n}) ELSE newest[l]]
      /\ doubt' = doubt \union missed
      /\ now' = now
  BY <1>2 DEF Misses
<1>4. newest' \in [Lists -> Nat]
  BY <1>1, <1>3
<1>5. view = "friends" => missed = ls
  BY <1>2 DEF Mounted
<1>6. QED
  BY <1>1, <1>2, <1>3, <1>4, <1>5

--------------------------------------------------------------------------------
(* What is under way: events by type, and calls by operation. *)
Events(type) == {channel[k] : k \in {j \in 1..Len(channel) : channel[j].type = type}}
Answered(ops) == {c \in DOMAIN calls : c.op \in ops /\ c.stage = "answered"}
Answers(op) == {c \in DOMAIN calls : c.op = op /\ c.by = "tab" /\ c.stage = "answered"}
Asked(op) == {c \in DOMAIN calls : c.op = op /\ c.by = "tab" /\ c.stage = "asked"}

RowsOne == rows \subseteq Rows /\ \A q, r \in rows : q[2] = r[2] => q = r

GoodCall(c, t) == c \in Call /\ c.n <= t /\ (c.op \notin Reads => c.who \in Others)

CallsPast == \A c \in DOMAIN calls : GoodCall(c, now)

TabCalls == view # "friends" => \A c \in DOMAIN calls : c.by # "tab"

EventsPast == channel \in Seq(Event) /\ \A k \in 1..Len(channel) : channel[k].n <= now

ListsPast ==
    /\ now \in 0..MaxChanges /\ newest \in [Lists -> Nat]
    /\ \A l \in Lists : newest[l] <= now

Past == RowsOne /\ CallsPast /\ TabCalls /\ EventsPast /\ ListsPast

(* Calls are only added, and not answered yet. *)
LEMMA CallsAsked ==
    ASSUME DOMAIN calls \subseteq DOMAIN calls',
           \A c \in DOMAIN calls' : c \in DOMAIN calls \/ c.stage = "asked"
    PROVE  /\ \A ops : Answered(ops)' = Answered(ops)
           /\ \A op : Answers(op)' = Answers(op)
           /\ \A op : Asked(op) \subseteq Asked(op)'
BY DEF Answered, Answers, Asked

(* A call is answered by the server. *)
LEMMA CallsServed ==
    ASSUME NEW c \in DOMAIN calls, c.stage = "asked",
           NEW d, d.stage = "answered", d.op = c.op, d.by = c.by, d \in DOMAIN calls',
           DOMAIN calls \ {c} \subseteq DOMAIN calls',
           DOMAIN calls' \subseteq DOMAIN calls \union {d}
    PROVE  /\ \A ops : c.op \in ops => Answered(ops)' = Answered(ops) \union {d}
           /\ \A ops : c.op \notin ops => Answered(ops)' = Answered(ops)
           /\ c.by = "tab" => Answers(c.op)' = Answers(c.op) \union {d}
           /\ \A op : c.by # "tab" \/ c.op # op =>
                         Answers(op)' = Answers(op) /\ Asked(op)' = Asked(op)
BY DEF Answered, Answers, Asked

(* A call leaves: its answer reaches the page, or an error. *)
LEMMA CallsLeave ==
    ASSUME NEW c \in DOMAIN calls, DOMAIN calls \ {c} \subseteq DOMAIN calls',
           DOMAIN calls' \subseteq DOMAIN calls
    PROVE  /\ \A ops : Answered(ops) \ {c} \subseteq Answered(ops)' /\ Answered(ops)' \subseteq Answered(ops)
           /\ \A ops : c.op \notin ops \/ c.stage # "answered" => Answered(ops)' = Answered(ops)
           /\ \A op : Answers(op) \ {c} \subseteq Answers(op)' /\ Answers(op)' \subseteq Answers(op)
           /\ \A op : c.op # op \/ c.by # "tab" \/ c.stage # "answered" => Answers(op)' = Answers(op)
           /\ \A op : c.op # op \/ c.by # "tab" \/ c.stage # "asked" => Asked(op)' = Asked(op)
BY DEF Answered, Answers, Asked

(* An event arrives. *)
LEMMA EventsTail ==
    ASSUME channel \in Seq(Event), channel # <<>>, channel' = Tail(channel)
    PROVE  /\ Head(channel) \in Events(Head(channel).type)
           /\ \A type : /\ Events(type) \ {Head(channel)} \subseteq Events(type)'
                        /\ Events(type)' \subseteq Events(type)
           /\ \A type : type # Head(channel).type => Events(type)' = Events(type)
<1>1. Len(channel) \in Nat \ {0} /\ Head(channel) = channel[1]
  OBVIOUS
<1>2. Len(channel') = Len(channel) - 1 /\ \A k \in 1..Len(channel') : channel'[k] = channel[k + 1]
  BY <1>1
<1>3. Head(channel) \in Events(Head(channel).type)
  BY <1>1 DEF Events
<1>4. \A type : Events(type)' \subseteq Events(type)
  BY <1>1, <1>2 DEF Events
<1>5. \A type : Events(type) \ {Head(channel)} \subseteq Events(type)'
  <2>1. ASSUME NEW k \in 1..Len(channel), channel[k] # Head(channel)
        PROVE  k - 1 \in 1..Len(channel') /\ channel'[k - 1] = channel[k]
    BY <1>1, <1>2, <2>1
  <2>2. QED
    BY <2>1 DEF Events
<1>6. ASSUME NEW type, type # Head(channel).type
      PROVE  Events(type)' = Events(type)
  <2>1. Head(channel) \notin Events(type)
    BY <1>6 DEF Events
  <2>2. Events(type) \ {Head(channel)} \subseteq Events(type)' /\ Events(type)' \subseteq Events(type)
    BY <1>4, <1>5
  <2>3. QED
    BY <2>1, <2>2
<1>7. QED
  BY <1>3, <1>4, <1>5, <1>6

(* An event is sent. *)
LEMMA EventsAppend ==
    ASSUME channel \in Seq(Event), NEW e \in Event, channel' = channel \o <<e>>
    PROVE  /\ Events(e.type)' = Events(e.type) \union {e}
           /\ \A type : type # e.type => Events(type)' = Events(type)
<1>1. /\ Len(channel) \in Nat /\ Len(channel') = Len(channel) + 1
      /\ \A k \in 1..Len(channel) : channel'[k] = channel[k]
      /\ channel'[Len(channel) + 1] = e
  OBVIOUS
<1>2. \A type : /\ Events(type) \subseteq Events(type)'
                /\ Events(type)' \subseteq Events(type) \union {e}
  BY <1>1 DEF Events
<1>3. e \in Events(e.type)'
  BY <1>1 DEF Events
<1>4. ASSUME NEW type, type # e.type
      PROVE  Events(type)' = Events(type)
  <2>1. e \notin Events(type)'
    BY <1>4 DEF Events
  <2>2. Events(type) \subseteq Events(type)' /\ Events(type)' \subseteq Events(type) \union {e}
    BY <1>2
  <2>3. QED
    BY <2>1, <2>2
<1>5. Events(e.type)' = Events(e.type) \union {e}
  <2>1. /\ Events(e.type) \subseteq Events(e.type)'
        /\ Events(e.type)' \subseteq Events(e.type) \union {e}
    BY <1>2
  <2>2. QED
    BY <1>3, <2>1
<1>6. QED
  BY <1>4, <1>5
--------------------------------------------------------------------------------
(* What is told is past: no number is later than now. *)

(* A call that is asked has a number of the past. *)
LEMMA AsksGood ==
    ASSUME MaxChanges \in Nat, NEW t \in Nat, NEW op, NEW who, NEW by \in {"tab", "chat"},
           \/ op \in Reads /\ who = Nobody
           \/ op \in {"send", "accept", "reject", "remove"} /\ who \in Others
    PROVE  GoodCall(Asks(op, who, by), t) /\ Asks(op, who, by).by = by /\ Asks(op, who, by).stage = "asked"
           /\ Asks(op, who, by).op = op
BY DEF GoodCall, Call, Asks, Reads

(* Old calls stay in the past, as time goes on. *)
LEMMA CallsPastLater ==
    ASSUME MaxChanges \in Nat, CallsPast, now \in Nat, now' \in Nat, now <= now',
           \A c \in DOMAIN calls' : c \in DOMAIN calls \/ GoodCall(c, now')
    PROVE  CallsPast'
BY DEF CallsPast, GoodCall, Call

(* The head of the channel, and what is left of it, are of the past. *)
LEMMA EventsPastTail ==
    ASSUME MaxChanges \in Nat, EventsPast, channel # <<>>, channel' = Tail(channel), now' = now
    PROVE  EventsPast' /\ Head(channel) \in Event /\ Head(channel).n <= now
<1>1. channel \in Seq(Event) /\ Len(channel) \in Nat \ {0} /\ Head(channel) = channel[1]
  BY DEF EventsPast
<1>2. /\ channel' \in Seq(Event) /\ Len(channel') = Len(channel) - 1
      /\ \A k \in 1..Len(channel') : channel'[k] = channel[k + 1]
  BY <1>1
<1>3. \A k \in 1..Len(channel') : channel'[k].n <= now
  BY <1>1, <1>2 DEF EventsPast
<1>4. QED
  BY <1>1, <1>2, <1>3 DEF EventsPast

(* The events of a channel are events. *)
LEMMA EventNumbers ==
    ASSUME MaxChanges \in Nat, channel \in Seq(Event)
    PROVE  \A k \in 1..Len(channel) : channel[k] \in Event /\ channel[k].n \in Nat
<1>1. \A k \in 1..Len(channel) : channel[k] \in Event
  OBVIOUS
<1>2. \A e \in Event : e.n \in Nat
  BY DEF Event
<1>3. QED
  BY <1>1, <1>2

(* Old events stay in the past. *)
LEMMA EventsPastLater ==
    ASSUME MaxChanges \in Nat, EventsPast, channel' = channel, now \in Nat, now' \in Nat, now <= now'
    PROVE  EventsPast'
<1>1. \A k \in 1..Len(channel) : channel[k].n \in Nat
  BY EventNumbers DEF EventsPast
<1>2. QED
  BY <1>1 DEF EventsPast

(* An event of just now is appended. *)
LEMMA EventsPastAppend ==
    ASSUME MaxChanges \in Nat, EventsPast, NEW e \in Event, e.n <= now', channel' = channel \o <<e>>,
           now \in Nat, now' \in Nat, now <= now'
    PROVE  EventsPast'
<1>1. channel \in Seq(Event) /\ \A k \in 1..Len(channel) : channel[k].n \in Nat
  BY EventNumbers DEF EventsPast
<1>2. /\ channel' \in Seq(Event) /\ Len(channel') = Len(channel) + 1
      /\ \A k \in 1..Len(channel) : channel'[k] = channel[k]
      /\ channel'[Len(channel) + 1] = e
  BY <1>1
<1>3. \A k \in 1..Len(channel') : channel'[k].n <= now'
  BY <1>1, <1>2 DEF EventsPast
<1>4. QED
  BY <1>2, <1>3 DEF EventsPast

(* A list has heard of nothing that is still to come, whatever it hears. *)
LEMMA ListsPastHears ==
    ASSUME MaxChanges \in Nat, ListsPast, NEW ls \in SUBSET Lists, NEW n \in Nat, n <= now,
           \/ \E whole \in BOOLEAN : Hears(ls, n, whole)
           \/ HearsCounted({"received"}, n)
           \/ Misses(ls, n)
           \/ Forgets(ls)
    PROVE  ListsPast' /\ now' = now
<1>1. newest \in [Lists -> Nat] /\ now \in Nat
  BY DEF ListsPast
<1>2. ASSUME NEW whole \in BOOLEAN, Hears(ls, n, whole)
      PROVE  /\ now' = now /\ newest' \in [Lists -> Nat]
             /\ \A l \in Lists : newest'[l] = newest[l] \/ newest'[l] = n
  BY <1>1, <1>2, HearsEffect
<1>3. ASSUME HearsCounted({"received"}, n)
      PROVE  /\ now' = now /\ newest' \in [Lists -> Nat]
             /\ \A l \in Lists : newest'[l] = newest[l] \/ newest'[l] = n
  BY <1>1, <1>3, HearsCountedEffect DEF Lists
<1>4. ASSUME Misses(ls, n)
      PROVE  /\ now' = now /\ newest' \in [Lists -> Nat]
             /\ \A l \in Lists : newest'[l] = newest[l] \/ newest'[l] = n
  BY <1>1, <1>4, MissesEffect
<1>5. ASSUME Forgets(ls)
      PROVE  /\ now' = now /\ newest' \in [Lists -> Nat]
             /\ \A l \in Lists : newest'[l] = newest[l] \/ newest'[l] = 0
  BY <1>1, <1>5 DEF Forgets
<1>6. /\ now' = now /\ newest' \in [Lists -> Nat]
      /\ \A l \in Lists : newest'[l] = newest[l] \/ newest'[l] = n \/ newest'[l] = 0
  BY <1>2, <1>3, <1>4, <1>5
<1>7. QED
  BY <1>1, <1>6 DEF ListsPast

(* Nor when time goes on. *)
LEMMA ListsPastLater ==
    ASSUME MaxChanges \in Nat, ListsPast, newest' = newest, now' \in 0..MaxChanges, now <= now'
    PROVE  ListsPast'
BY DEF ListsPast

(* The calls that an action adds, or takes. *)
LEMMA ReadServed ==
    ASSUME MaxChanges \in Nat, Past, NEW c \in DOMAIN calls, ServeRead(c)
    PROVE  \E d \in DOMAIN calls' :
              /\ d.op = c.op /\ d.by = c.by /\ d.stage = "answered" /\ d.data = Read(c.op)
              /\ d.n = now /\ GoodCall(d, now)
              /\ DOMAIN calls \ {c} \subseteq DOMAIN calls'
              /\ DOMAIN calls' \subseteq DOMAIN calls \union {d}
<1>1. PICK d : d = [c EXCEPT !.stage = "answered", !.data = Read(c.op), !.n = now]
  OBVIOUS
<1>2. PICK B : B = Less(calls, c)
  OBVIOUS
<1>3. calls' = With(B, d)
  BY <1>1, <1>2 DEF ServeRead
<1>4. DOMAIN calls' = DOMAIN B \union {d}
  BY <1>3, WithDomain
<1>5. DOMAIN calls \ {c} \subseteq DOMAIN B /\ DOMAIN B \subseteq DOMAIN calls
  BY <1>2, LessDomain
<1>6. Read(c.op) \subseteq Rows
  BY DEF Past, RowsOne, Read
<1>7. c \in Call /\ (c.op \notin Reads => c.who \in Others) /\ now \in 0..MaxChanges
  BY DEF Past, CallsPast, GoodCall, ListsPast
<1>8. /\ d.op = c.op /\ d.by = c.by /\ d.stage = "answered" /\ d.data = Read(c.op)
      /\ d.n = now /\ d.who = c.who
  BY <1>1, <1>7 DEF Call
<1>9. d \in Call
  BY <1>1, <1>6, <1>7 DEF Call
<1>10. GoodCall(d, now)
  BY <1>7, <1>8, <1>9 DEF GoodCall
<1>11. QED
  BY <1>4, <1>5, <1>8, <1>10

(* A change that is served has its number in the answer. *)
LEMMA WriteServed ==
    ASSUME MaxChanges \in Nat, Past, NEW c \in DOMAIN calls, ServeWrite(c)
    PROVE  \E d \in DOMAIN calls' :
              /\ d.op = c.op /\ d.by = c.by /\ d.who = c.who /\ d.stage = "answered"
              /\ d.n = now' /\ now' = now + 1 /\ GoodCall(d, now')
              /\ DOMAIN calls \ {c} \subseteq DOMAIN calls'
              /\ DOMAIN calls' \subseteq DOMAIN calls \union {d}
<1>1. PICK d : d = [c EXCEPT !.stage = "answered", !.n = now']
  OBVIOUS
<1>2. PICK B : B = Less(calls, c)
  OBVIOUS
<1>3. calls' = With(B, d)
  BY <1>1, <1>2 DEF ServeWrite
<1>4. DOMAIN calls' = DOMAIN B \union {d}
  BY <1>3, WithDomain
<1>5. DOMAIN calls \ {c} \subseteq DOMAIN B /\ DOMAIN B \subseteq DOMAIN calls
  BY <1>2, LessDomain
<1>6. now' = now + 1 /\ now' \in 0..MaxChanges
  BY DEF ServeWrite, Change, Past, ListsPast
<1>7. c \in Call /\ (c.op \notin Reads => c.who \in Others)
  BY DEF Past, CallsPast, GoodCall
<1>8. d.op = c.op /\ d.by = c.by /\ d.stage = "answered" /\ d.n = now' /\ d.who = c.who
  BY <1>1, <1>7 DEF Call
<1>9. d \in Call
  BY <1>1, <1>6, <1>7 DEF Call
<1>10. GoodCall(d, now')
  BY <1>6, <1>7, <1>8, <1>9 DEF GoodCall
<1>11. QED
  BY <1>4, <1>5, <1>6, <1>8, <1>10

(* A call that is taken away leaves the others. *)
LEMMA CallTaken ==
    ASSUME NEW c \in DOMAIN calls, ServeRefuses(c) \/ Returned(c)
    PROVE  DOMAIN calls \ {c} \subseteq DOMAIN calls' /\ DOMAIN calls' \subseteq DOMAIN calls
<1>1. calls' = Less(calls, c)
  BY DEF ServeRefuses, Returned
<1>2. QED
  BY <1>1, LessDomain
--------------------------------------------------------------------------------
(* Leaving a tab or the page leaves none of its calls behind. *)
LEMMA LeftGood ==
    ASSUME NEW by \in {"gone", "chat"}, NEW t, NEW c, GoodCall(c, t)
    PROVE  GoodCall(Left(by, c), t) /\ Left(by, c).by # "tab"
<1>1. c \in Call /\ (c.op \notin Reads => c.who \in Others) /\ c.n <= t
  BY DEF GoodCall
<1>2. PICK b : b = IF by = "gone" THEN "gone" ELSE IF c.by = "tab" THEN "chat" ELSE c.by
  OBVIOUS
<1>3. b \in {"chat", "gone"}
  BY <1>1, <1>2 DEF Call
<1>4. Left(by, c) = [c EXCEPT !.by = b]
  BY <1>2 DEF Left
<1>5. /\ Left(by, c) \in Call /\ Left(by, c).by = b /\ Left(by, c).n = c.n
      /\ Left(by, c).op = c.op /\ Left(by, c).who = c.who
  BY <1>1, <1>3, <1>4 DEF Call
<1>6. QED
  BY <1>1, <1>3, <1>5 DEF GoodCall

(* Numbers stay past when only calls are made or answered. *)
LEMMA PastCalls ==
    ASSUME MaxChanges \in Nat, Past, UNCHANGED <<rows, channel, view, history>>,
           \A c \in DOMAIN calls' : \/ c \in DOMAIN calls
                                    \/ GoodCall(c, now) /\ (c.by = "tab" => view = "friends" \/ \E d \in DOMAIN calls : d.by = "tab")
    PROVE  Past'
<1>1. now' = now /\ newest' = newest /\ now \in Nat
  BY DEF history, Past, ListsPast
<1>2. CallsPast'
  BY <1>1, CallsPastLater DEF Past
<1>3. TabCalls'
  BY DEF Past, TabCalls
<1>4. EventsPast'
  BY <1>1 DEF Past, EventsPast
<1>5. ListsPast'
  BY <1>1 DEF Past, ListsPast
<1>6. RowsOne'
  BY DEF Past, RowsOne
<1>7. QED
  BY <1>2, <1>3, <1>4, <1>5, <1>6 DEF Past

(* A page comes, or a tab: it asks. *)
LEMMA PastEnters ==
    ASSUME MaxChanges \in Nat, Past, EnterChat \/ OpenFriends
    PROVE  /\ Past' /\ view' = "friends" /\ UNCHANGED <<rows, channel, lists, history>>
           /\ DOMAIN calls \subseteq DOMAIN calls'
           /\ \A c \in DOMAIN calls' : c \in DOMAIN calls \/ c.stage = "asked"
           /\ \A c \in DOMAIN calls : c.by # "tab"
           /\ Asked("lists")' # {} /\ Asked("friends")' # {}
<1>1. PICK a : a = Asks("lists", Nobody, "tab")
  OBVIOUS
<1>2. PICK f : f = Asks("friends", Nobody, "tab")
  OBVIOUS
<1>3. PICK k : k = Asks("count", Nobody, "chat")
  OBVIOUS
<1>4. now \in Nat /\ view # "friends" /\ view' = "friends" /\ UNCHANGED <<rows, channel, lists, history>>
  BY DEF Past, ListsPast, EnterChat, OpenFriends
<1>5. /\ DOMAIN calls' = (DOMAIN calls \union {a, f}) \union {k}
      \/ DOMAIN calls' = DOMAIN calls \union {a, f}
  <2>1. DOMAIN TabAsks = {a, f} /\ DOMAIN SetToBag({k}) = {k}
    BY <1>1, <1>2, SetDomain DEF TabAsks
  <2>2. PICK B : B = calls (+) TabAsks
    OBVIOUS
  <2>3. DOMAIN B = DOMAIN calls \union {a, f}
    BY <2>1, <2>2, PlusDomain
  <2>4. CASE EnterChat
    <3>1. PICK K : K = SetToBag({k})
      OBVIOUS
    <3>3. calls' = B (+) K
      BY <2>2, <2>4, <1>3, <3>1 DEF EnterChat
    <3>4. DOMAIN calls' = DOMAIN B \union DOMAIN K
      BY <3>3, PlusDomain
    <3>2. QED
      BY <2>1, <2>3, <3>1, <3>4
  <2>5. CASE OpenFriends
    BY <2>2, <2>3, <2>5 DEF OpenFriends
  <2>6. QED
    BY <2>4, <2>5
<1>6. /\ GoodCall(a, now) /\ a.by = "tab" /\ a.stage = "asked" /\ a.op = "lists"
      /\ GoodCall(f, now) /\ f.by = "tab" /\ f.stage = "asked" /\ f.op = "friends"
      /\ GoodCall(k, now) /\ k.by = "chat" /\ k.stage = "asked"
  BY <1>1, <1>2, <1>3, <1>4, AsksGood DEF Reads
<1>7. now' = now /\ newest' = newest
  BY <1>4 DEF history
<1>8. CallsPast'
  BY <1>4, <1>5, <1>6, <1>7, CallsPastLater DEF Past
<1>9. TabCalls' /\ EventsPast' /\ ListsPast' /\ RowsOne'
  BY <1>4, <1>7 DEF Past, TabCalls, EventsPast, ListsPast, RowsOne
<1>10. \A c \in DOMAIN calls : c.by # "tab"
  BY <1>4 DEF Past, TabCalls
<1>11. Asked("lists")' # {} /\ Asked("friends")' # {}
  BY <1>5, <1>6 DEF Asked
<1>12. QED
  BY <1>4, <1>5, <1>6, <1>8, <1>9, <1>10, <1>11 DEF Past

(* A page is left, or a tab. *)
LEMMA PastLeaves ==
    ASSUME MaxChanges \in Nat, Past, OpenSettings \/ OpenConversations \/ LogsOut
    PROVE  Past' /\ view' # "friends"
<1>1. PICK ls \in SUBSET Lists : Forgets(ls)
  BY DEF OpenSettings, OpenConversations, LogsOut, Lists
<1>2. PICK by \in {"gone", "chat"} : calls' = Orphaned(by)
  BY DEF OpenSettings, OpenConversations, LogsOut
<1>3. ListsPast' /\ now' = now
  BY <1>1, ListsPastHears DEF Past, ListsPast
<1>4. view' # "friends" /\ UNCHANGED <<rows, channel>>
  BY DEF OpenSettings, OpenConversations, LogsOut
<1>5. \A c \in DOMAIN calls' : GoodCall(c, now') /\ c.by # "tab"
  BY <1>2, <1>3, OrphanedDomain, LeftGood DEF Past, CallsPast
<1>6. CallsPast' /\ TabCalls'
  BY <1>5 DEF CallsPast, TabCalls
<1>7. EventsPast' /\ RowsOne'
  BY <1>3, <1>4 DEF Past, EventsPast, RowsOne
<1>8. QED
  BY <1>3, <1>4, <1>6, <1>7 DEF Past

(* A call that is made. *)
LEMMA PastUser ==
    ASSUME MaxChanges \in Nat, Past, NEW op \in {"send", "accept", "reject", "remove"},
           NEW u \in Others, User(op, u)
    PROVE  /\ Past' /\ UNCHANGED <<rows, channel, client, lists, history>>
           /\ DOMAIN calls \subseteq DOMAIN calls'
           /\ \A c \in DOMAIN calls' : c \in DOMAIN calls \/ c.stage = "asked"
<1>1. PICK a : a = Asks(op, u, "tab")
  OBVIOUS
<1>2. /\ view = "friends" /\ UNCHANGED <<rows, channel, client, lists, history>>
      /\ calls' = With(calls, a) /\ now \in Nat
  BY <1>1 DEF User, Past, ListsPast
<1>3. GoodCall(a, now) /\ a.stage = "asked"
  BY <1>1, <1>2, AsksGood
<1>4. DOMAIN calls' = DOMAIN calls \union {a}
  BY <1>2, WithDomain
<1>5. Past'
  BY <1>2, <1>3, <1>4, PastCalls DEF client
<1>6. QED
  BY <1>2, <1>3, <1>4, <1>5

(* Serving a read keeps Past. *)
LEMMA PastReadServed ==
    ASSUME MaxChanges \in Nat, Past, NEW c \in DOMAIN calls, ServeRead(c) \/ ServeRefuses(c)
    PROVE  Past'
<1>1. UNCHANGED <<rows, channel, view, history>>
  BY DEF ServeRead, ServeRefuses, client
<1>2. CASE ServeRead(c)
  <2>1. PICK d \in DOMAIN calls' : /\ d.by = c.by /\ GoodCall(d, now)
                                   /\ DOMAIN calls' \subseteq DOMAIN calls \union {d}
    BY <1>2, ReadServed
  <2>2. QED
    BY <1>1, <2>1, PastCalls DEF Past, TabCalls
<1>3. CASE ServeRefuses(c)
  BY <1>1, <1>3, CallTaken, PastCalls
<1>4. QED
  BY <1>2, <1>3
--------------------------------------------------------------------------------
(* What a change does to the rows: one user changes place. *)

(* A stranger gets a row. *)
LEMMA RowsGain ==
    ASSUME RowsOne, NEW kind \in {"received", "sent", "friend"}, NEW u \in Others, Strangers(u),
           rows' = rows \union {<<kind, u>>}
    PROVE  /\ RowsOne'
           /\ u \notin Of(kind, rows) /\ Of(kind, rows)' = Of(kind, rows) \union {u}
           /\ \A other : other # kind => Of(other, rows)' = Of(other, rows)
<1>1. <<kind, u>> \in Rows /\ <<kind, u>>[2] = u
  BY DEF Rows
<1>2. RowsOne'
  BY <1>1 DEF RowsOne, Strangers
<1>3. \A other, v : <<other, v>> \in rows' <=> <<other, v>> \in rows \/ (other = kind /\ v = u)
  OBVIOUS
<1>4. <<kind, u>> \notin rows
  BY <1>1 DEF Strangers
<1>5. QED
  BY <1>2, <1>3, <1>4 DEF Of

(* A row is deleted. *)
LEMMA RowsLose ==
    ASSUME RowsOne, NEW kind, NEW u \in Others, <<kind, u>> \in rows,
           rows' = rows \ {<<kind, u>>}
    PROVE  /\ RowsOne'
           /\ u \in Of(kind, rows) /\ Of(kind, rows)' = Of(kind, rows) \ {u}
           /\ \A other : other # kind => Of(other, rows)' = Of(other, rows)
<1>1. RowsOne'
  BY DEF RowsOne
<1>2. \A other, v : <<other, v>> \in rows' <=> <<other, v>> \in rows /\ ~(other = kind /\ v = u)
  OBVIOUS
<1>3. QED
  BY <1>1, <1>2 DEF Of

(* A request becomes a friendship. *)
LEMMA RowsAccept ==
    ASSUME RowsOne, NEW kind \in {"received", "sent"}, NEW u \in Others, <<kind, u>> \in rows,
           rows' = (rows \ {<<kind, u>>}) \union {<<"friend", u>>}
    PROVE  /\ RowsOne'
           /\ u \in Of(kind, rows) /\ Of(kind, rows)' = Of(kind, rows) \ {u}
           /\ u \notin Of("friend", rows) /\ Of("friend", rows)' = Of("friend", rows) \union {u}
           /\ \A other : other # kind /\ other # "friend" => Of(other, rows)' = Of(other, rows)
<1>1. <<"friend", u>> \in Rows /\ <<"friend", u>>[2] = u /\ <<kind, u>>[2] = u
  BY DEF Rows
<1>2. \A r \in rows : r[2] = u => r = <<kind, u>>
  BY <1>1 DEF RowsOne
<1>3. RowsOne'
  BY <1>1, <1>2 DEF RowsOne
<1>4. \A other, v : <<other, v>> \in rows' <=>
         ((<<other, v>> \in rows /\ ~(other = kind /\ v = u)) \/ (other = "friend" /\ v = u))
  OBVIOUS
<1>5. <<"friend", u>> \notin rows
  BY <1>1, <1>2
<1>6. QED
  BY <1>3, <1>4, <1>5 DEF Of

(* What each of the user's own calls does to the rows. *)
LEMMA WriteChanges ==
    ASSUME Past, NEW c \in DOMAIN calls, ServeWrite(c)
    PROVE  /\ RowsOne' /\ c.who \in Others
           /\ c.op \in {"send", "accept", "reject", "remove"}
           /\ c.op = "send" =>
                 /\ c.who \notin Of("sent", rows)
                 /\ Of("sent", rows)' = Of("sent", rows) \union {c.who}
                 /\ \A other : other # "sent" => Of(other, rows)' = Of(other, rows)
           /\ c.op \in {"accept", "reject"} =>
                 /\ c.who \in Of("received", rows)
                 /\ Of("received", rows)' = Of("received", rows) \ {c.who}
                 /\ Of("sent", rows)' = Of("sent", rows)
           /\ c.op = "accept" =>
                 /\ c.who \notin Of("friend", rows)
                 /\ Of("friend", rows)' = Of("friend", rows) \union {c.who}
           /\ c.op = "reject" => Of("friend", rows)' = Of("friend", rows)
           /\ c.op = "remove" =>
                 /\ c.who \in Of("friend", rows)
                 /\ Of("friend", rows)' = Of("friend", rows) \ {c.who}
                 /\ \A other : other # "friend" => Of(other, rows)' = Of(other, rows)
<1>1. RowsOne /\ c.who \in Others /\ c.op \in {"send", "accept", "reject", "remove"}
  BY DEF Past, CallsPast, GoodCall, Call, ServeWrite, Reads
<1>2. CASE c.op = "send"
  <2>1. Strangers(c.who) /\ rows' = rows \union {<<"sent", c.who>>}
    BY <1>2 DEF ServeWrite, Permitted
  <2>2. QED
    BY <1>1, <1>2, <2>1, RowsGain
<1>3. CASE c.op = "accept"
  <2>1. /\ <<"received", c.who>> \in rows
        /\ rows' = (rows \ {<<"received", c.who>>}) \union {<<"friend", c.who>>}
    BY <1>3 DEF ServeWrite, Permitted
  <2>2. QED
    BY <1>1, <1>3, <2>1, RowsAccept
<1>4. CASE c.op = "reject"
  <2>1. <<"received", c.who>> \in rows /\ rows' = rows \ {<<"received", c.who>>}
    BY <1>4 DEF ServeWrite, Permitted
  <2>2. QED
    BY <1>1, <1>4, <2>1, RowsLose
<1>5. CASE c.op = "remove"
  <2>1. <<"friend", c.who>> \in rows /\ rows' = rows \ {<<"friend", c.who>>}
    BY <1>5 DEF ServeWrite, Permitted
  <2>2. QED
    BY <1>1, <1>5, <2>1, RowsLose
<1>6. QED
  BY <1>1, <1>2, <1>3, <1>4, <1>5
--------------------------------------------------------------------------------
(* An event that is published has the number of its change. *)
LEMMA Published ==
    ASSUME NEW type \in {"request", "accepted", "response"}, NEW u \in Others,
           now' \in 1..MaxChanges, NEW e, e = Publish(type, u)
    PROVE  e \in Event /\ e.type = type /\ e.who = u /\ e.n = now'
BY DEF Publish, Event

(* this user's answers are told to this user when they make a friend *)
LEMMA WriteTells ==
    ASSUME MaxChanges \in Nat, Past, NEW c \in DOMAIN calls, ServeWrite(c)
    PROVE  /\ c.op # "accept" => channel' = channel
           /\ c.op = "accept" => \E e \in Event : /\ e.type = "accepted" /\ e.who = c.who
                                                  /\ e.n = now' /\ channel' = channel \o <<e>>
<1>1. CASE c.op # "accept"
  <2>1. channel' = channel \o <<>> /\ channel \in Seq(Event)
    BY <1>1 DEF ServeWrite, Past, EventsPast
  <2>2. channel' = channel
    BY <2>1
  <2>3. QED
    BY <1>1, <2>2
<1>2. CASE c.op = "accept"
  <2>1. PICK e : e = Publish("accepted", c.who)
    OBVIOUS
  <2>2. channel' = channel \o <<e>>
    BY <1>2, <2>1 DEF ServeWrite
  <2>3. now' \in 1..MaxChanges
    BY DEF ServeWrite, Change, Past, ListsPast
  <2>4. c.who \in Others
    BY <1>2 DEF Past, CallsPast, GoodCall, Reads
  <2>5. e \in Event /\ e.type = "accepted" /\ e.who = c.who /\ e.n = now'
    BY <2>1, <2>3, <2>4, Published
  <2>6. QED
    BY <1>2, <2>2, <2>5
<1>3. QED
  BY <1>1, <1>2

(* Serving a change keeps Past. *)
LEMMA PastWrite ==
    ASSUME MaxChanges \in Nat, Past, NEW c \in DOMAIN calls, ServeWrite(c)
    PROVE  Past'
<1>1. now \in Nat /\ now' = now + 1 /\ now' \in 0..MaxChanges /\ newest' = newest /\ view' = view
  BY DEF ServeWrite, Change, Past, ListsPast, client
<1>2. ListsPast'
  BY <1>1, ListsPastLater DEF Past
<1>3. PICK d \in DOMAIN calls' : /\ d.by = c.by /\ GoodCall(d, now')
                                 /\ DOMAIN calls' \subseteq DOMAIN calls \union {d}
  BY WriteServed
<1>4. CallsPast'
  BY <1>1, <1>3, CallsPastLater DEF Past
<1>5. TabCalls'
  BY <1>1, <1>3 DEF Past, TabCalls
<1>6. RowsOne'
  BY WriteChanges
<1>7. EventsPast'
  <2>1. CASE c.op # "accept"
    BY <1>1, <2>1, WriteTells, EventsPastLater DEF Past
  <2>2. CASE c.op = "accept"
    <3>1. PICK e \in Event : e.n = now' /\ channel' = channel \o <<e>>
      BY <2>2, WriteTells
    <3>2. e.n <= now' /\ now <= now' /\ now' \in Nat /\ EventsPast
      BY <1>1, <3>1 DEF Past
    <3>3. QED
      BY <1>1, <3>1, <3>2, EventsPastAppend
  <2>3. QED
    BY <2>1, <2>2
<1>8. QED
  BY <1>2, <1>4, <1>5, <1>6, <1>7 DEF Past

(* An answer arrives. *)
LEMMA PastAnswer ==
    ASSUME MaxChanges \in Nat, Past, NEW c \in DOMAIN calls,
           \/ ListsAnswer(c) \/ CountAnswer(c) \/ FriendsAnswer(c)
           \/ SendAnswer(c) \/ RespondAnswer(c) \/ RemoveAnswer(c)
    PROVE  /\ Past' /\ now' = now /\ UNCHANGED <<rows, channel, client>>
           /\ c.n \in Nat /\ c.n <= now /\ c.stage = "answered"
           /\ DOMAIN calls \ {c} \subseteq DOMAIN calls' /\ DOMAIN calls' \subseteq DOMAIN calls
<1>1. Returned(c) /\ UNCHANGED <<rows, channel, client>>
  BY DEF ListsAnswer, CountAnswer, FriendsAnswer, SendAnswer, RespondAnswer, RemoveAnswer
<1>2. c.stage = "answered"
  BY <1>1 DEF Returned
<1>3. DOMAIN calls \ {c} \subseteq DOMAIN calls' /\ DOMAIN calls' \subseteq DOMAIN calls
  BY <1>1, CallTaken
<1>4. c.n \in Nat /\ c.n <= now /\ now \in Nat
  BY DEF Past, CallsPast, GoodCall, Call, ListsPast
<1>5. ListsPast' /\ now' = now
  <2>1. CASE UNCHANGED history
    BY <2>1 DEF history, Past, ListsPast
  <2>2. CASE \E ls \in SUBSET Lists : \/ \E whole \in BOOLEAN : Hears(ls, c.n, whole)
                                      \/ HearsCounted({"received"}, c.n)
                                      \/ Misses(ls, c.n)
    BY <1>4, <2>2, ListsPastHears DEF Past
  <2>3. {"received", "sent", "badge"} \in SUBSET Lists /\ {"badge"} \in SUBSET Lists
        /\ {"contacts"} \in SUBSET Lists /\ {"sent"} \in SUBSET Lists
        /\ {"received", "badge"} \in SUBSET Lists
    BY DEF Lists
  <2>4. \/ \E whole \in BOOLEAN : \/ Hears({"received", "sent", "badge"}, c.n, whole)
                                  \/ Hears({"badge"}, c.n, whole)
                                  \/ Hears({"contacts"}, c.n, whole)
                                  \/ Hears({"sent"}, c.n, whole)
        \/ HearsCounted({"received"}, c.n)
        \/ Misses({"sent"}, c.n) \/ Misses({"received", "badge"}, c.n) \/ Misses({"contacts"}, c.n)
        \/ UNCHANGED history
    <3>1. TRUE \in BOOLEAN /\ FALSE \in BOOLEAN
      OBVIOUS
    <3>2. CASE ListsAnswer(c) BY <3>1, <3>2 DEF ListsAnswer
    <3>3. CASE CountAnswer(c) BY <3>1, <3>3 DEF CountAnswer
    <3>4. CASE FriendsAnswer(c) BY <3>1, <3>4 DEF FriendsAnswer
    <3>5. CASE SendAnswer(c) BY <3>1, <3>5 DEF SendAnswer
    <3>6. CASE RespondAnswer(c) BY <3>1, <3>6 DEF RespondAnswer
    <3>7. CASE RemoveAnswer(c) BY <3>1, <3>7 DEF RemoveAnswer
    <3>8. QED BY <3>2, <3>3, <3>4, <3>5, <3>6, <3>7
  <2>5. QED
    BY <2>1, <2>2, <2>3, <2>4
<1>6. EventsPast' /\ RowsOne'
  BY <1>1, <1>5 DEF Past, EventsPast, RowsOne
<1>7. CallsPast'
  BY <1>3, <1>4, <1>5, CallsPastLater DEF Past
<1>8. TabCalls'
  BY <1>1, <1>3 DEF client, Past, TabCalls
<1>9. QED
  BY <1>1, <1>2, <1>3, <1>4, <1>5, <1>6, <1>7, <1>8 DEF Past

(* An event arrives, or is lost. *)
LEMMA PastHears ==
    ASSUME MaxChanges \in Nat, Past, SocketInv, Hearing
    PROVE  /\ Past' /\ now' = now /\ UNCHANGED <<rows, client>>
           /\ channel # <<>> /\ channel' = Tail(channel)
           /\ Head(channel) \in Event /\ Head(channel).n \in Nat /\ Head(channel).n <= now
           /\ DOMAIN calls \subseteq DOMAIN calls'
           /\ \A c \in DOMAIN calls' : c \in DOMAIN calls \/ c.stage = "asked"
<1>1. channel # <<>> /\ channel' = Tail(channel) /\ UNCHANGED <<rows, client>>
  BY DEF Hearing, FriendRequest, FriendAccepted, FriendRequestResponse, Unheard, Arrives
<1>2. Head(channel) \in Event /\ Head(channel).n \in Nat /\ Head(channel).n <= now
  <2>1. Len(channel) \in Nat \ {0} /\ Head(channel) = channel[1]
    BY <1>1 DEF Past, EventsPast
  <2>2. QED
    BY <2>1, EventNumbers DEF Past, EventsPast
<1>3. ListsPast' /\ now' = now
  <2>1. CASE UNCHANGED history
    BY <2>1 DEF history, Past, ListsPast
  <2>2. CASE \E ls \in SUBSET Lists : \/ \E whole \in BOOLEAN : Hears(ls, Head(channel).n, whole)
                                      \/ HearsCounted({"received"}, Head(channel).n)
                                      \/ Misses(ls, Head(channel).n)
    BY <1>2, <2>2, ListsPastHears DEF Past
  <2>3. \/ \E whole \in BOOLEAN : Hears({"sent"}, Head(channel).n, whole)
        \/ HearsCounted({"received"}, Head(channel).n)
        \/ \E ls \in SUBSET Lists : Misses(ls, Head(channel).n)
        \/ UNCHANGED history
    <3>1. CASE FriendRequest BY <3>1 DEF FriendRequest
    <3>2. CASE FriendAccepted BY <3>2 DEF FriendAccepted
    <3>3. CASE FriendRequestResponse BY <3>3 DEF FriendRequestResponse
    <3>4. CASE Unheard
      <4>1. \/ Misses({"received", "badge"}, Head(channel).n) \/ Misses({"contacts"}, Head(channel).n)
            \/ Misses({"sent"}, Head(channel).n)
        BY <1>2, <3>4 DEF Unheard, Event
      <4>2. QED BY <4>1 DEF Lists
    <3>5. QED BY <3>1, <3>2, <3>3, <3>4 DEF Hearing
  <2>4. {"sent"} \in SUBSET Lists
    BY DEF Lists
  <2>5. QED
    BY <2>1, <2>2, <2>3, <2>4
<1>4. EventsPast'
  BY <1>1, <1>3, EventsPastTail DEF Past
<1>5. RowsOne'
  BY <1>1 DEF Past, RowsOne
<1>6. PICK q : q = Asks("count", Nobody, "chat")
  OBVIOUS
<1>7. PICK f : f = Asks("friends", Nobody, "tab")
  OBVIOUS
<1>8. \/ UNCHANGED calls
      \/ DOMAIN calls' = DOMAIN calls \union DOMAIN Times(q)
      \/ view = "friends" /\ DOMAIN calls' = DOMAIN calls \union DOMAIN Times(f)
  <2>1. CASE FriendRequest
    <3>1. PICK K : K = Times(q)
      OBVIOUS
    <3>2. calls' = calls (+) K
      BY <2>1, <3>1, <1>6 DEF FriendRequest
    <3>3. QED
      BY <3>1, <3>2, PlusDomain
  <2>2. CASE FriendAccepted
    <3>1. PICK K : K = Times(f)
      OBVIOUS
    <3>2. /\ view # "friends" => calls' = calls
          /\ view = "friends" => calls' = calls (+) K
      BY <2>2, <3>1, <1>7 DEF FriendAccepted
    <3>3. view = "friends" => DOMAIN calls' = DOMAIN calls \union DOMAIN K
      BY <3>2, PlusDomain
    <3>4. QED
      BY <3>1, <3>2, <3>3
  <2>3. CASE FriendRequestResponse BY <2>3 DEF FriendRequestResponse
  <2>4. CASE Unheard BY <2>4 DEF Unheard
  <2>5. QED BY <2>1, <2>2, <2>3, <2>4 DEF Hearing
<1>9. /\ GoodCall(q, now) /\ q.by = "chat" /\ q.stage = "asked"
      /\ GoodCall(f, now) /\ f.by = "tab" /\ f.stage = "asked"
  BY <1>6, <1>7, AsksGood DEF Reads, Past, ListsPast
<1>10. DOMAIN Times(q) \subseteq {q} /\ DOMAIN Times(f) \subseteq {f}
  BY TimesDomain
<1>11. CallsPast'
  BY <1>3, <1>8, <1>9, <1>10, CallsPastLater DEF Past, ListsPast
<1>12. TabCalls'
  BY <1>1, <1>8, <1>9, <1>10 DEF client, Past, TabCalls
<1>13. QED
  BY <1>1, <1>2, <1>3, <1>4, <1>5, <1>8, <1>9, <1>10, <1>11, <1>12 DEF Past

(* The others act. *)
LEMMA PastElsewhere ==
    ASSUME MaxChanges \in Nat, Past, Elsewhere
    PROVE  Past' /\ now' = now + 1 /\ now' \in 1..MaxChanges /\ UNCHANGED <<client, lists, calls, newest, doubt>>
<1>1. PICK u \in Others : OtherSends(u) \/ (\E accepts \in BOOLEAN : OtherAnswers(u, accepts)) \/ OtherRemoves(u)
  BY DEF Elsewhere
<1>2. now' = now + 1 /\ now' \in 1..MaxChanges /\ now \in Nat /\ UNCHANGED <<client, lists, calls, newest, doubt>>
  BY <1>1 DEF Past, ListsPast, OtherSends, OtherAnswers, OtherRemoves, Change
<1>3. ListsPast'
  BY <1>2, ListsPastLater DEF Past
<1>4. CallsPast'
  BY <1>2, CallsPastLater DEF Past
<1>5. TabCalls'
  BY <1>2 DEF Past, TabCalls, client
<1>6. RowsOne' /\ EventsPast'
  <2>1. CASE OtherSends(u)
    <3>1. RowsOne'
      BY <2>1, RowsGain DEF OtherSends, Past
    <3>2. PICK e : e = Publish("request", u)
      OBVIOUS
    <3>3. e \in Event /\ e.n = now'
      BY <1>2, <3>2, Published
    <3>4. channel' = channel \o <<e>>
      <4>1. channel' = Append(channel, e) /\ channel \in Seq(Event)
        BY <2>1, <3>2 DEF OtherSends, Past, EventsPast
      <4>2. QED
        BY <3>3, <4>1
    <3>5. EventsPast'
      BY <1>2, <3>3, <3>4, EventsPastAppend DEF Past
    <3>6. QED
      BY <3>1, <3>5
  <2>2. CASE OtherAnswers(u, TRUE)
    <3>1. RowsOne'
      BY <2>2, RowsAccept DEF OtherAnswers, Past
    <3>2. PICK a : a = Publish("accepted", u)
      OBVIOUS
    <3>3. PICK e : e = Publish("response", u)
      OBVIOUS
    <3>4. a \in Event /\ a.n = now' /\ e \in Event /\ e.n = now'
      BY <1>2, <3>2, <3>3, Published
    <3>5. channel' = (channel \o <<a>>) \o <<e>>
      BY <2>2, <3>2, <3>3 DEF OtherAnswers
    <3>6. EventsPast'
      <4>1. channel' = channel \o <<a, e>> /\ channel \in Seq(Event)
        BY <3>4, <3>5 DEF Past, EventsPast
      <4>2. /\ channel' \in Seq(Event) /\ Len(channel') = Len(channel) + 2 /\ Len(channel) \in Nat
            /\ \A k \in 1..Len(channel) : channel'[k] = channel[k]
            /\ channel'[Len(channel) + 1] = a /\ channel'[Len(channel) + 2] = e
        BY <3>4, <4>1
      <4>3. \A k \in 1..Len(channel') : k \in 1..Len(channel) \/ k = Len(channel) + 1 \/ k = Len(channel) + 2
        BY <4>2
      <4>4. \A k \in 1..Len(channel) : channel[k].n \in Nat /\ channel[k].n <= now
        BY EventNumbers DEF Past, EventsPast
      <4>5. QED
        BY <1>2, <3>4, <4>2, <4>3, <4>4 DEF EventsPast
    <3>7. QED
      BY <3>1, <3>6
  <2>3. CASE OtherAnswers(u, FALSE)
    <3>1. rows' = rows \ {<<"sent", u>>} /\ <<"sent", u>> \in rows
      BY <2>3 DEF OtherAnswers
    <3>2. RowsOne'
      BY <3>1, RowsLose DEF Past
    <3>3. PICK e : e = Publish("response", u)
      OBVIOUS
    <3>4. e \in Event /\ e.n = now'
      BY <1>2, <3>3, Published
    <3>5. channel' = (channel \o <<>>) \o <<e>> /\ channel \in Seq(Event)
      BY <2>3, <3>3 DEF OtherAnswers, Past, EventsPast
    <3>6. channel' = channel \o <<e>>
      BY <3>5
    <3>7. EventsPast'
      BY <1>2, <3>4, <3>6, EventsPastAppend DEF Past
    <3>8. QED
      BY <3>2, <3>7
  <2>4. CASE OtherRemoves(u)
    <3>1. RowsOne'
      BY <2>4, RowsLose DEF OtherRemoves, Past
    <3>2. EventsPast'
      BY <1>2, <2>4, EventsPastLater DEF OtherRemoves, Past
    <3>3. QED
      BY <3>1, <3>2
  <2>5. QED
    BY <1>1, <2>1, <2>2, <2>3, <2>4
<1>7. QED
  BY <1>2, <1>3, <1>4, <1>5, <1>6 DEF Past
--------------------------------------------------------------------------------
(* Past, in the terms of the abstract lemmas. *)
LEMMA PastOf ==
    ASSUME MaxChanges \in Nat, Past, NEW l \in Lists, NEW type, NEW ops, NEW op
    PROVE  /\ PastNews(Events(type), Answered(ops), Answers(op), newest[l], now)
           /\ PastNews(Answered(ops), Events(type), Answers(op), newest[l], now)
<1>1. now \in Nat /\ newest[l] \in Nat /\ newest[l] <= now
  BY DEF Past, ListsPast
<1>2. Numbered(Events(type), now)
  BY EventNumbers DEF Past, EventsPast, Numbered, Events
<1>3. Numbered(Answered(ops), now) /\ Numbered(Answers(op), now)
  BY DEF Past, CallsPast, GoodCall, Call, Numbered, Answered, Answers
<1>4. QED
  BY <1>1, <1>2, <1>3 DEF PastNews, Numbered

(* An answer holds, of each list, what the rows hold. *)
LEMMA ReadRows ==
    /\ Of("received", Read("lists")) = Of("received", rows)
    /\ Of("sent", Read("lists")) = Of("sent", rows)
    /\ Of("friend", Read("friends")) = Of("friend", rows)
<1>1. /\ Read("lists") = {r \in rows : r[1] \in {"received", "sent"}}
      /\ Read("friends") = {r \in rows : r[1] \in {"friend"}}
  BY DEF Read
<1>2. \A kind, u : <<kind, u>>[1] = kind
  OBVIOUS
<1>3. QED
  BY <1>1, <1>2 DEF Of

(* A list that shows each user once gains one ... *)
LEMMA SetBagGains ==
    ASSUME NEW S, NEW x, x \notin S
    PROVE  /\ With(SetToBag(S), x) = SetToBag(S \union {x})
           /\ SetToBag(S) (+) SetToBag({x}) = SetToBag(S \union {x})
BY DEF With, SetToBag, (+)

(* ... and loses one. *)
LEMMA SetBagLoses ==
    ASSUME NEW S, NEW x
    PROVE  Without(SetToBag(S), x) = SetToBag(S \ {x})
BY DEF Without, Restrict, SetToBag
--------------------------------------------------------------------------------
(* The received requests: an event puts an entry on the list, the answer to the *)
(* user's own answer takes it off.                                              *)
ReceivedInv ==
    view = "friends" =>
        ListInv(Events("request"), Answered({"accept", "reject"}), Answers("lists"),
                Asked("lists"), "received", Of("received", rows), received,
                newest["received"], doubt, now)

(* Nothing happens to the list, its rows or its news. *)
LEMMA ReceivedSame ==
    ASSUME MaxChanges \in Nat, Past, ReceivedInv, now' \in Nat, now <= now', view' = view,
           Events("request")' = Events("request"),
           Answered({"accept", "reject"})' = Answered({"accept", "reject"}),
           Answers("lists")' = Answers("lists"),
           Asked("lists") # {} => Asked("lists")' # {},
           Of("received", rows)' = Of("received", rows),
           received' = received, newest'["received"] = newest["received"],
           "received" \in doubt' <=> "received" \in doubt
    PROVE  ReceivedInv'
<1>1. PastNews(Events("request"), Answered({"accept", "reject"}), Answers("lists"),
               newest["received"], now)
  BY PastOf DEF Lists
<1>2. QED
  BY <1>1, ListIdle DEF ReceivedInv

(* The user goes to a tab or a page. *)
LEMMA ReceivedMoves ==
    ASSUME MaxChanges \in Nat, Past, ReceivedInv, Moving
    PROVE  ReceivedInv'
<1>1. now \in Nat
  BY DEF Past, ListsPast
<1>2. CASE Connected \/ Lost
  <2>1. UNCHANGED <<rows, channel, view, lists, calls, history>>
    BY <1>2 DEF Connected, Lost
  <2>2. QED
    BY <1>1, <2>1, ReceivedSame DEF history, lists, Events, Answered, Answers, Asked, Of
<1>3. CASE EnterChat \/ OpenFriends
  <2>1. /\ DOMAIN calls \subseteq DOMAIN calls' /\ Asked("lists")' # {}
        /\ \A c \in DOMAIN calls' : c \in DOMAIN calls \/ c.stage = "asked"
        /\ \A c \in DOMAIN calls : c.by # "tab"
    BY <1>3, PastEnters
  <2>2. Answers("lists")' = {}
    BY <2>1, CallsAsked DEF Answers
  <2>3. QED
    BY <2>1, <2>2, ListStarts DEF ReceivedInv
<1>4. CASE OpenSettings \/ OpenConversations \/ LogsOut
  BY <1>4, PastLeaves DEF ReceivedInv
<1>5. QED
  BY <1>2, <1>3, <1>4 DEF Moving

(* What the server does for the user. *)
LEMMA ReceivedServes ==
    ASSUME MaxChanges \in Nat, Past, ReceivedInv, NEW c \in DOMAIN calls,
           ServeRead(c) \/ ServeWrite(c) \/ ServeRefuses(c)
    PROVE  ReceivedInv'
<1>1. /\ now \in Nat /\ c.stage = "asked" /\ view' = view
      /\ received' = received /\ newest' = newest /\ doubt' = doubt
  BY DEF Past, ListsPast, ServeRead, ServeWrite, ServeRefuses, Change, client, lists, history
<1>2. PastNews(Events("request"), Answered({"accept", "reject"}), Answers("lists"),
               newest["received"], now)
  BY PastOf DEF Lists
<1>3. CASE ServeRead(c)
  <2>1. PICK d \in DOMAIN calls' :
              /\ d.op = c.op /\ d.by = c.by /\ d.stage = "answered" /\ d.data = Read(c.op)
              /\ d.n = now
              /\ DOMAIN calls \ {c} \subseteq DOMAIN calls'
              /\ DOMAIN calls' \subseteq DOMAIN calls \union {d}
    BY <1>3, ReadServed
  <2>2. rows' = rows /\ channel' = channel /\ now' = now /\ c.op \in Reads
    BY <1>3 DEF ServeRead, history
  <2>3. /\ Events("request")' = Events("request") /\ Of("received", rows)' = Of("received", rows)
        /\ Answered({"accept", "reject"})' = Answered({"accept", "reject"})
    BY <1>1, <2>1, <2>2, CallsServed DEF Reads, Events, Of
  <2>4. CASE c.op = "lists" /\ c.by = "tab"
    <3>1. Answers("lists")' = Answers("lists") \union {d}
      BY <1>1, <2>1, <2>4, CallsServed
    <3>2. d.n = now /\ Of("received", d.data) = Of("received", rows)
      BY <2>1, <2>4, ReadRows
    <3>3. PICK B : B = Answers("lists")'
      OBVIOUS
    <3>4. d \in B /\ B \subseteq Answers("lists") \union {d}
      BY <3>1, <3>3
    <3>5. view = "friends" =>
             ListInv(Events("request"), Answered({"accept", "reject"}), B,
                     Asked("lists")', "received", Of("received", rows), received,
                     newest["received"], doubt, now)
      BY <1>2, <3>2, <3>4, ListServed DEF ReceivedInv
    <3>6. QED
      BY <1>1, <2>2, <2>3, <3>3, <3>5 DEF ReceivedInv
  <2>5. CASE ~(c.op = "lists" /\ c.by = "tab")
    <3>1. Answers("lists")' = Answers("lists") /\ Asked("lists")' = Asked("lists")
      BY <1>1, <2>1, <2>5, CallsServed
    <3>2. QED
      BY <1>1, <2>2, <2>3, <3>1, ReceivedSame
  <2>6. QED
    BY <2>4, <2>5
<1>4. CASE ServeRefuses(c)
  <2>1. rows' = rows /\ channel' = channel /\ now' = now /\ c.op # "lists"
    BY <1>4 DEF ServeRefuses, history, Reads
  <2>2. DOMAIN calls \ {c} \subseteq DOMAIN calls' /\ DOMAIN calls' \subseteq DOMAIN calls
    BY <1>4, CallTaken
  <2>3. /\ Answered({"accept", "reject"})' = Answered({"accept", "reject"})
        /\ Answers("lists")' = Answers("lists") /\ Asked("lists")' = Asked("lists")
    BY <1>1, <2>1, <2>2, CallsLeave
  <2>4. QED
    BY <1>1, <2>1, <2>3, ReceivedSame DEF Events, Of
<1>5. CASE ServeWrite(c)
  <2>1. PICK d \in DOMAIN calls' :
              /\ d.op = c.op /\ d.by = c.by /\ d.who = c.who /\ d.stage = "answered"
              /\ d.n = now' /\ now' = now + 1
              /\ DOMAIN calls \ {c} \subseteq DOMAIN calls'
              /\ DOMAIN calls' \subseteq DOMAIN calls \union {d}
    BY <1>5, WriteServed
  <2>2. Events("request")' = Events("request")
    <3>1. CASE c.op # "accept"
      BY <1>5, <3>1, WriteTells DEF Events
    <3>2. CASE c.op = "accept"
      BY <1>5, <3>2, WriteTells, EventsAppend DEF Past, EventsPast
    <3>3. QED
      BY <3>1, <3>2
  <2>3. c.op \in {"send", "accept", "reject", "remove"}
    BY <1>5, WriteChanges
  <2>4. Answers("lists")' = Answers("lists") /\ Asked("lists")' = Asked("lists")
    BY <1>1, <2>1, <2>3, CallsServed
  <2>5. CASE c.op \in {"accept", "reject"}
    <3>1. /\ Answered({"accept", "reject"})' = Answered({"accept", "reject"}) \union {d}
      BY <1>1, <2>1, <2>5, CallsServed
    <3>2. d.who \in Of("received", rows) /\ Of("received", rows)' = Of("received", rows) \ {d.who}
      BY <1>5, <2>1, <2>5, WriteChanges
    <3>3. view = "friends" =>
             ListInv(Events("request"), Answered({"accept", "reject"}) \union {d}, Answers("lists"),
                     Asked("lists"), "received", Of("received", rows) \ {d.who}, received,
                     newest["received"], doubt, now + 1)
      BY <1>2, <2>1, <3>2, ListTakenOff DEF ReceivedInv
    <3>4. QED
      BY <1>1, <2>1, <2>2, <2>4, <3>1, <3>2, <3>3 DEF ReceivedInv
  <2>6. CASE c.op \in {"send", "remove"}
    <3>1. Answered({"accept", "reject"})' = Answered({"accept", "reject"})
      BY <1>1, <2>1, <2>6, CallsServed
    <3>2. Of("received", rows)' = Of("received", rows)
      BY <1>5, <2>6, WriteChanges
    <3>3. QED
      BY <1>1, <2>1, <2>2, <2>4, <3>1, <3>2, ReceivedSame
  <2>7. QED
    BY <2>3, <2>5, <2>6
<1>6. QED
  BY <1>3, <1>4, <1>5

(* What is told to other lists. *)
LEMMA OthersHear ==
    ASSUME newest \in [Lists -> Nat], NEW n \in Nat, NEW l \in Lists,
           \E ls \in SUBSET Lists : /\ l \notin ls
                                   /\ \/ Hears(ls, n, TRUE) \/ Hears(ls, n, FALSE)
                                      \/ Misses(ls, n) \/ UNCHANGED history
    PROVE  newest'[l] = newest[l] /\ (l \in doubt' <=> l \in doubt)
<1>1. PICK ls \in SUBSET Lists : /\ l \notin ls
                                /\ \/ Hears(ls, n, TRUE) \/ Hears(ls, n, FALSE)
                                   \/ Misses(ls, n) \/ UNCHANGED history
  OBVIOUS
<1>2. CASE Hears(ls, n, TRUE) BY <1>1, <1>2, HearsEffect
<1>3. CASE Hears(ls, n, FALSE) BY <1>1, <1>3, HearsEffect
<1>4. CASE Misses(ls, n) BY <1>1, <1>4, MissesEffect
<1>5. CASE UNCHANGED history BY <1>5 DEF history
<1>6. QED BY <1>1, <1>2, <1>3, <1>4, <1>5

(* What the answers do to the list. *)
LEMMA ReceivedAnswers ==
    ASSUME MaxChanges \in Nat, Past, ReceivedInv, NEW c \in DOMAIN calls,
           \/ ListsAnswer(c) \/ CountAnswer(c) \/ FriendsAnswer(c)
           \/ SendAnswer(c) \/ RespondAnswer(c) \/ RemoveAnswer(c)
    PROVE  ReceivedInv'
<1>1. /\ now \in Nat /\ now' = now /\ UNCHANGED <<rows, channel, client>>
      /\ c.n \in Nat /\ c.n <= now /\ c.stage = "answered" /\ newest \in [Lists -> Nat]
      /\ DOMAIN calls \ {c} \subseteq DOMAIN calls' /\ DOMAIN calls' \subseteq DOMAIN calls
  BY PastAnswer DEF Past, ListsPast
<1>2. PastNews(Events("request"), Answered({"accept", "reject"}), Answers("lists"),
               newest["received"], now)
  BY PastOf DEF Lists
<1>3. /\ view' = view /\ Events("request")' = Events("request")
      /\ Of("received", rows)' = Of("received", rows)
  BY <1>1 DEF client, Events, Of
<1>4. Asked("lists")' = Asked("lists")
  BY <1>1, CallsLeave
<1>5. CASE ListsAnswer(c) /\ c.by = "tab"
  <2>1. /\ c.op = "lists" /\ received' = SetToBag(Of("received", c.data))
        /\ Hears({"received", "sent", "badge"}, c.n, TRUE)
    BY <1>5 DEF ListsAnswer
  <2>2. /\ newest'["received"] >= newest["received"] /\ newest'["received"] >= c.n
        /\ newest'["received"] = newest["received"] \/ newest'["received"] = c.n
        /\ "received" \in doubt' <=> c.n < newest["received"]
    <3>1. PICK ls : ls = {"received", "sent", "badge"}
      OBVIOUS
    <3>2. Hears(ls, c.n, TRUE) /\ ls \in SUBSET Lists /\ "received" \in ls
      BY <2>1, <3>1 DEF Lists
    <3>3. QED
      BY <1>1, <3>2, HearsEffect
  <2>3. c \in Answers("lists") /\ Answers("lists")' \subseteq Answers("lists")
        /\ Answered({"accept", "reject"})' = Answered({"accept", "reject"})
    BY <1>1, <1>5, <2>1, CallsLeave DEF Answers
  <2>4. view = "friends" =>
             ListInv(Events("request"), Answered({"accept", "reject"}), Answers("lists")',
                     Asked("lists"), "received", Of("received", rows), SetToBag(Of("received", c.data)),
                     newest'["received"], doubt', now)
    BY <1>2, <2>2, <2>3, ListAnswered DEF ReceivedInv
  <2>5. QED
    BY <1>1, <1>3, <1>4, <2>1, <2>3, <2>4 DEF ReceivedInv
<1>6. CASE RespondAnswer(c)
  <2>1. c \in Answered({"accept", "reject"}) /\ c.op \in {"accept", "reject"}
    BY <1>1, <1>6 DEF RespondAnswer, Answered
  <2>2. /\ Answered({"accept", "reject"}) \ {c} \subseteq Answered({"accept", "reject"})'
        /\ Answered({"accept", "reject"})' \subseteq Answered({"accept", "reject"})
        /\ Answers("lists")' = Answers("lists")
    BY <1>1, <2>1, CallsLeave
  <2>3. c.who \in Others
    BY <2>1 DEF Past, CallsPast, GoodCall, Reads
  <2>4. CASE c.by = "tab"
    <3>1. received' = Without(received, c.who) /\ HearsCounted({"received"}, c.n)
      BY <1>6, <2>4 DEF RespondAnswer
    <3>2. /\ newest'["received"] >= newest["received"] /\ newest'["received"] >= c.n
          /\ newest'["received"] = newest["received"] \/ newest'["received"] = c.n
          /\ "received" \in doubt' <=> "received" \in doubt \/ c.n <= newest["received"]
      BY <1>1, <3>1, HearsCountedEffect
    <3>3. received = SetToBag(DOMAIN received) => received' = SetToBag(DOMAIN received \ {c.who})
      BY <3>1, SetBagLoses
    <3>4. view = "friends" =>
             ListInv(Events("request"), Answered({"accept", "reject"})', Answers("lists"),
                     Asked("lists"), "received", Of("received", rows), received',
                     newest'["received"], doubt', now)
      <4>1. SUFFICES ASSUME view = "friends"
                     PROVE  ListInv(Events("request"), Answered({"accept", "reject"})', Answers("lists"),
                                    Asked("lists"), "received", Of("received", rows), received',
                                    newest'["received"], doubt', now)
        OBVIOUS
      <4>2. ListInv(Events("request"), Answered({"accept", "reject"}), Answers("lists"),
                    Asked("lists"), "received", Of("received", rows), received,
                    newest["received"], doubt, now)
        BY <4>1 DEF ReceivedInv
      <4>3. QED
        BY <1>2, <2>1, <2>2, <3>2, <3>3, <4>2, ListHearsOff
    <3>5. QED
      BY <1>1, <1>3, <1>4, <2>2, <3>4 DEF ReceivedInv
  <2>5. CASE c.by # "tab"
    <3>1. received' = received /\ Misses({"received", "badge"}, c.n)
      BY <1>6, <2>5 DEF RespondAnswer
    <3>2. view = "friends" =>
             /\ newest'["received"] >= newest["received"] /\ newest'["received"] >= c.n
             /\ newest'["received"] \in Nat /\ "received" \in doubt'
      BY <1>1, <3>1, MissesEffect DEF Lists
    <3>3. view = "friends" =>
             ListInv(Events("request"), Answered({"accept", "reject"})', Answers("lists"),
                     Asked("lists"), "received", Of("received", rows), received',
                     newest'["received"], doubt', now)
      BY <1>2, <2>1, <2>2, <3>2, ListMisses DEF ReceivedInv
    <3>4. QED
      BY <1>1, <1>3, <1>4, <2>2, <3>3 DEF ReceivedInv
  <2>6. QED
    BY <2>4, <2>5
<1>7. CASE (ListsAnswer(c) /\ c.by # "tab") \/ CountAnswer(c) \/ FriendsAnswer(c) \/ SendAnswer(c) \/ RemoveAnswer(c)
  <2>1. /\ received' = received /\ c.op \notin {"accept", "reject"}
        /\ c.op # "lists" \/ c.by # "tab"
    BY <1>7 DEF ListsAnswer, CountAnswer, FriendsAnswer, SendAnswer, RemoveAnswer
  <2>2. /\ Answered({"accept", "reject"})' = Answered({"accept", "reject"})
        /\ Answers("lists")' = Answers("lists")
    BY <1>1, <2>1, CallsLeave
  <2>3. \E ls \in SUBSET Lists : /\ "received" \notin ls
                                 /\ \/ Hears(ls, c.n, TRUE) \/ Hears(ls, c.n, FALSE)
                                    \/ Misses(ls, c.n) \/ UNCHANGED history
    <3>1. {"badge"} \in SUBSET Lists /\ {"contacts"} \in SUBSET Lists /\ {"sent"} \in SUBSET Lists
      BY DEF Lists
    <3>2. \/ Hears({"badge"}, c.n, TRUE) \/ Hears({"contacts"}, c.n, TRUE) \/ Hears({"contacts"}, c.n, FALSE)
          \/ Hears({"sent"}, c.n, FALSE) \/ Misses({"contacts"}, c.n) \/ Misses({"sent"}, c.n)
          \/ UNCHANGED history
      BY <1>7 DEF ListsAnswer, CountAnswer, FriendsAnswer, SendAnswer, RemoveAnswer
    <3>3. QED
      BY <3>1, <3>2
  <2>4. newest'["received"] = newest["received"] /\ ("received" \in doubt' <=> "received" \in doubt)
    BY <1>1, <2>3, OthersHear DEF Lists
  <2>5. QED
    BY <1>1, <1>3, <1>4, <2>1, <2>2, <2>4, ReceivedSame
<1>8. QED
  BY <1>5, <1>6, <1>7

(* What the others do, and what is told of it. *)
LEMMA SendTells ==
    ASSUME MaxChanges \in Nat, Past, NEW u \in Others, OtherSends(u)
    PROVE  /\ u \notin Of("received", rows) /\ Of("received", rows)' = Of("received", rows) \union {u}
           /\ \A kind : kind # "received" => Of(kind, rows)' = Of(kind, rows)
           /\ \A type : type # "request" => Events(type)' = Events(type)
           /\ \E e \in Event : e.who = u /\ e.n = now' /\ Events("request")' = Events("request") \union {e}
<1>1. PICK e : e = Publish("request", u)
  OBVIOUS
<1>2. now' \in 1..MaxChanges
  BY DEF Past, ListsPast, OtherSends, Change
<1>3. e \in Event /\ e.type = "request" /\ e.who = u /\ e.n = now'
  BY <1>1, <1>2, Published
<1>4. channel' = Append(channel, e) /\ channel \in Seq(Event)
  BY <1>1 DEF OtherSends, Past, EventsPast
<1>5. channel' = channel \o <<e>>
  BY <1>3, <1>4
<1>6. /\ Events("request")' = Events("request") \union {e}
      /\ \A type : type # "request" => Events(type)' = Events(type)
  BY <1>3, <1>4, <1>5, EventsAppend
<1>7. /\ u \notin Of("received", rows) /\ Of("received", rows)' = Of("received", rows) \union {u}
      /\ \A kind : kind # "received" => Of(kind, rows)' = Of(kind, rows)
  BY RowsGain DEF OtherSends, Past
<1>8. QED
  BY <1>3, <1>6, <1>7

(* Acceptance publishes two events at once. *)
LEMMA EventsAppendTwo ==
    ASSUME channel \in Seq(Event), NEW a \in Event, NEW e \in Event, a.type # e.type,
           channel' = (channel \o <<a>>) \o <<e>>
    PROVE  /\ Events(a.type)' = Events(a.type) \union {a}
           /\ Events(e.type)' = Events(e.type) \union {e}
           /\ \A type : type # a.type /\ type # e.type => Events(type)' = Events(type)
<1>1. PICK s : s = channel \o <<a>>
  OBVIOUS
<1>2. /\ Len(channel) \in Nat /\ Len(channel') = Len(channel) + 2
      /\ \A k \in 1..Len(channel) : channel'[k] = channel[k]
      /\ channel'[Len(channel) + 1] = a /\ channel'[Len(channel) + 2] = e
  <2>1. /\ s \in Seq(Event) /\ Len(channel) \in Nat /\ Len(s) = Len(channel) + 1
        /\ \A k \in 1..Len(channel) : s[k] = channel[k]
        /\ s[Len(channel) + 1] = a
    BY <1>1
  <2>2. channel' = s \o <<e>>
    BY <1>1
  <2>3. /\ Len(channel') = Len(s) + 1
        /\ \A k \in 1..Len(s) : channel'[k] = s[k]
        /\ channel'[Len(s) + 1] = e
    BY <2>1, <2>2
  <2>4. QED
    BY <2>1, <2>3
<1>3. \A k : k \in 1..Len(channel') <=> k \in 1..Len(channel) \/ k = Len(channel) + 1 \/ k = Len(channel) + 2
  BY <1>2
<1>4. \A type, x : x \in Events(type)' <=>
         (x \in Events(type) \/ (x = a /\ a.type = type) \/ (x = e /\ e.type = type))
  <2>1. ASSUME NEW type, NEW x, x \in Events(type)'
        PROVE  x \in Events(type) \/ (x = a /\ a.type = type) \/ (x = e /\ e.type = type)
    <3>1. PICK k \in 1..Len(channel') : channel'[k] = x /\ channel'[k].type = type
      BY <2>1 DEF Events
    <3>2. CASE k \in 1..Len(channel) BY <1>2, <3>1, <3>2 DEF Events
    <3>3. CASE k = Len(channel) + 1 BY <1>2, <3>1, <3>3
    <3>4. CASE k = Len(channel) + 2 BY <1>2, <3>1, <3>4
    <3>5. QED BY <1>3, <3>2, <3>3, <3>4
  <2>2. ASSUME NEW type, NEW x, x \in Events(type)
        PROVE  x \in Events(type)'
    BY <1>2, <1>3, <2>2 DEF Events
  <2>3. \A type : a.type = type => a \in Events(type)'
    BY <1>2, <1>3 DEF Events
  <2>4. \A type : e.type = type => e \in Events(type)'
    BY <1>2, <1>3 DEF Events
  <2>5. SUFFICES ASSUME NEW type, NEW x
                 PROVE  x \in Events(type)' <=>
                           (x \in Events(type) \/ (x = a /\ a.type = type) \/ (x = e /\ e.type = type))
    OBVIOUS
  <2>6. QED
    BY <2>1, <2>2, <2>3, <2>4
<1>6. ASSUME NEW type, type # a.type, type # e.type
      PROVE  Events(type)' = Events(type)
  <2>1. Events(type)' \subseteq Events(type) /\ Events(type) \subseteq Events(type)'
    BY <1>4, <1>6
  <2>2. QED
    BY <2>1
<1>7. Events(a.type)' = Events(a.type) \union {a}
  <2>1. /\ Events(a.type)' \subseteq Events(a.type) \union {a}
        /\ Events(a.type) \union {a} \subseteq Events(a.type)'
    BY <1>4
  <2>2. QED
    BY <2>1
<1>8. Events(e.type)' = Events(e.type) \union {e}
  <2>1. /\ Events(e.type)' \subseteq Events(e.type) \union {e}
        /\ Events(e.type) \union {e} \subseteq Events(e.type)'
    BY <1>4
  <2>2. QED
    BY <2>1
<1>9. QED
  BY <1>6, <1>7, <1>8

(* Another user's answer takes the request away and tells of it. *)
LEMMA AnswerTells ==
    ASSUME MaxChanges \in Nat, Past, NEW u \in Others, OtherAnswers(u, TRUE) \/ OtherAnswers(u, FALSE)
    PROVE  /\ u \in Of("sent", rows) /\ Of("sent", rows)' = Of("sent", rows) \ {u}
           /\ Of("received", rows)' = Of("received", rows)
           /\ Events("request")' = Events("request")
           /\ \E e \in Event : /\ e.who = u /\ e.n = now'
                               /\ Events("response")' = Events("response") \union {e}
<1>1. PICK a : a = Publish("accepted", u)
  OBVIOUS
<1>2. PICK e : e = Publish("response", u)
  OBVIOUS
<1>3. now' \in 1..MaxChanges /\ channel \in Seq(Event) /\ RowsOne
  BY DEF Past, ListsPast, EventsPast, OtherAnswers, Change
<1>4. /\ a \in Event /\ a.type = "accepted"
      /\ e \in Event /\ e.type = "response" /\ e.who = u /\ e.n = now'
  BY <1>1, <1>2, <1>3, Published
<1>5. CASE OtherAnswers(u, TRUE)
  <2>1. channel' = (channel \o <<a>>) \o <<e>>
    BY <1>1, <1>2, <1>5 DEF OtherAnswers
  <2>2. Events("response")' = Events("response") \union {e} /\ Events("request")' = Events("request")
    BY <1>3, <1>4, <2>1, EventsAppendTwo
  <2>3. /\ <<"sent", u>> \in rows
        /\ rows' = (rows \ {<<"sent", u>>}) \union {<<"friend", u>>}
    BY <1>5 DEF OtherAnswers
  <2>4. /\ u \in Of("sent", rows) /\ Of("sent", rows)' = Of("sent", rows) \ {u}
        /\ Of("received", rows)' = Of("received", rows)
    BY <1>3, <2>3, RowsAccept
  <2>5. QED
    BY <1>4, <2>2, <2>4
<1>6. CASE OtherAnswers(u, FALSE)
  <2>1. channel' = (channel \o <<>>) \o <<e>>
    BY <1>2, <1>6 DEF OtherAnswers
  <2>2. channel' = channel \o <<e>>
    BY <1>3, <2>1
  <2>3. Events("response")' = Events("response") \union {e} /\ Events("request")' = Events("request")
    BY <1>3, <1>4, <2>2, EventsAppend
  <2>4. <<"sent", u>> \in rows /\ rows' = rows \ {<<"sent", u>>}
    BY <1>6 DEF OtherAnswers
  <2>5. /\ u \in Of("sent", rows) /\ Of("sent", rows)' = Of("sent", rows) \ {u}
        /\ Of("received", rows)' = Of("received", rows)
    BY <1>3, <2>4, RowsLose
  <2>6. QED
    BY <1>4, <2>3, <2>5
<1>7. QED
  BY <1>5, <1>6

(* Removing a friend publishes nothing. *)
LEMMA RemovalTellsNobody ==
    ASSUME Past, NEW u \in Others, OtherRemoves(u)
    PROVE  /\ \A kind : kind # "friend" => Of(kind, rows)' = Of(kind, rows)
           /\ u \in Of("friend", rows) /\ Of("friend", rows)' = Of("friend", rows) \ {u}
           /\ \A type : Events(type)' = Events(type)
BY RowsLose DEF OtherRemoves, Events, Past

(* The other users and the socket act. *)
LEMMA ReceivedElsewhere ==
    ASSUME MaxChanges \in Nat, Past, ReceivedInv, Elsewhere
    PROVE  ReceivedInv'
<1>1. /\ now \in Nat /\ now' = now + 1 /\ view' = view /\ calls' = calls /\ received' = received
      /\ newest' = newest /\ doubt' = doubt
  BY PastElsewhere DEF client, lists, Past, ListsPast
<1>2. /\ Answers("lists")' = Answers("lists") /\ Asked("lists")' = Asked("lists")
      /\ Answered({"accept", "reject"})' = Answered({"accept", "reject"})
  BY <1>1 DEF Answers, Asked, Answered
<1>3. PastNews(Events("request"), Answered({"accept", "reject"}), Answers("lists"),
               newest["received"], now)
  BY PastOf DEF Lists
<1>4. PICK u \in Others : \/ OtherSends(u) \/ OtherAnswers(u, TRUE) \/ OtherAnswers(u, FALSE)
                          \/ OtherRemoves(u)
  BY DEF Elsewhere
<1>5. CASE OtherSends(u)
  <2>1. PICK e \in Event : e.who = u /\ e.n = now' /\ Events("request")' = Events("request") \union {e}
    BY <1>5, SendTells
  <2>2. e.who \notin Of("received", rows) /\ Of("received", rows)' = Of("received", rows) \union {e.who}
    BY <1>5, <2>1, SendTells
  <2>3. view = "friends" =>
             ListInv(Events("request") \union {e}, Answered({"accept", "reject"}), Answers("lists"),
                     Asked("lists"), "received", Of("received", rows) \union {e.who}, received,
                     newest["received"], doubt, now + 1)
    BY <1>1, <1>3, <2>1, <2>2, ListPutOn DEF ReceivedInv
  <2>4. QED
    BY <1>1, <1>2, <2>1, <2>2, <2>3 DEF ReceivedInv
<1>6. CASE OtherAnswers(u, TRUE) \/ OtherAnswers(u, FALSE)
  <2>1. Of("received", rows)' = Of("received", rows) /\ Events("request")' = Events("request")
    BY <1>6, AnswerTells
  <2>2. now' \in Nat /\ now <= now'
    BY <1>1
  <2>3. QED
    BY <1>1, <1>2, <2>1, <2>2, ReceivedSame
<1>7. CASE OtherRemoves(u)
  <2>1. Of("received", rows)' = Of("received", rows) /\ Events("request")' = Events("request")
    BY <1>7, RemovalTellsNobody
  <2>2. now' \in Nat /\ now <= now'
    BY <1>1
  <2>3. QED
    BY <1>1, <1>2, <2>1, <2>2, ReceivedSame
<1>8. QED
  BY <1>4, <1>5, <1>6, <1>7

(* The page hears an event. *)
LEMMA ReceivedHears ==
    ASSUME MaxChanges \in Nat, Past, SocketInv, ReceivedInv, Hearing
    PROVE  ReceivedInv'
<1>1. /\ now \in Nat /\ now' = now /\ UNCHANGED <<rows, client>> /\ newest \in [Lists -> Nat]
      /\ channel # <<>> /\ channel' = Tail(channel) /\ channel \in Seq(Event)
      /\ Head(channel) \in Event /\ Head(channel).n \in Nat /\ Head(channel).n <= now
      /\ DOMAIN calls \subseteq DOMAIN calls'
      /\ \A c \in DOMAIN calls' : c \in DOMAIN calls \/ c.stage = "asked"
  BY PastHears DEF Past, ListsPast, EventsPast
<1>2. /\ Answers("lists")' = Answers("lists") /\ Asked("lists") \subseteq Asked("lists")'
      /\ Answered({"accept", "reject"})' = Answered({"accept", "reject"})
  BY <1>1, CallsAsked
<1>3. PastNews(Events("request"), Answered({"accept", "reject"}), Answers("lists"),
               newest["received"], now)
  BY PastOf DEF Lists
<1>4. view' = view /\ Of("received", rows)' = Of("received", rows)
  BY <1>1 DEF client, Of
<1>5. Asked("lists") # {} => Asked("lists")' # {}
  BY <1>2
<1>6. view = "friends" =>
         ListInv(Events("request"), Answered({"accept", "reject"}), Answers("lists"),
                 Asked("lists")', "received", Of("received", rows), received,
                 newest["received"], doubt, now)
  BY <1>1, <1>3, <1>5, ListIdle DEF ReceivedInv
<1>7. PICK e : e = Head(channel)
  OBVIOUS
<1>8. CASE e.type # "request"
  <2>1. Events("request")' = Events("request")
    BY <1>1, <1>7, <1>8, EventsTail
  <2>2. /\ received' = received
        /\ \E ls \in SUBSET Lists : /\ "received" \notin ls
                                    /\ \/ Hears(ls, e.n, TRUE) \/ Hears(ls, e.n, FALSE)
                                       \/ Misses(ls, e.n) \/ UNCHANGED history
    <3>1. {"sent"} \in SUBSET Lists /\ {"contacts"} \in SUBSET Lists
      BY DEF Lists
    <3>2. CASE FriendAccepted
      BY <3>1, <3>2 DEF FriendAccepted, lists
    <3>3. CASE FriendRequestResponse
      BY <3>1, <3>3, <1>7 DEF FriendRequestResponse
    <3>4. CASE Unheard
      <4>1. (Misses({"contacts"}, e.n) \/ Misses({"sent"}, e.n)) /\ received' = received
        BY <1>1, <1>7, <1>8, <3>4 DEF Unheard, Event, lists
      <4>2. QED
        BY <3>1, <4>1
    <3>5. ~FriendRequest
      BY <1>7, <1>8 DEF FriendRequest, Arrives
    <3>6. QED
      BY <3>2, <3>3, <3>4, <3>5 DEF Hearing
  <2>3. newest'["received"] = newest["received"] /\ ("received" \in doubt' <=> "received" \in doubt)
    BY <1>1, <1>7, <2>2, OthersHear DEF Lists
  <2>4. QED
    BY <1>1, <1>2, <1>4, <1>5, <2>1, <2>2, <2>3, ReceivedSame
<1>9. CASE e.type = "request"
  <2>1. /\ e \in Events("request") /\ Events("request") \ {e} \subseteq Events("request")'
        /\ Events("request")' \subseteq Events("request")
    BY <1>1, <1>7, <1>9, EventsTail
  <2>2. e.who \in Others
    BY <1>1, <1>7 DEF Event
  <2>3. CASE FriendRequest /\ view = "friends"
    <3>1. received' = received (+) Times(e.who) /\ HearsCounted({"received"}, e.n)
      BY <1>7, <2>3 DEF FriendRequest
    <3>2. handlers = 1
      BY <2>3 DEF FriendRequest, SocketInv
    <3>3. received' = received (+) SetToBag({e.who})
      BY <3>1, <3>2, TimesDomain
    <3>4. received = SetToBag(DOMAIN received) =>
             (e.who \notin DOMAIN received => received' = SetToBag(DOMAIN received \union {e.who}))
      BY <3>3, SetBagGains
    <3>5. /\ newest'["received"] >= newest["received"] /\ newest'["received"] >= e.n
          /\ newest'["received"] = newest["received"] \/ newest'["received"] = e.n
          /\ "received" \in doubt' <=> "received" \in doubt \/ e.n <= newest["received"]
      BY <1>1, <1>7, <3>1, HearsCountedEffect
    <3>6. ListInv(Events("request")', Answered({"accept", "reject"}), Answers("lists"),
                  Asked("lists")', "received", Of("received", rows), received',
                  newest'["received"], doubt', now)
      BY <1>3, <1>6, <2>1, <2>2, <2>3, <3>4, <3>5, ListHearsOn
    <3>7. QED
      BY <1>1, <1>2, <1>4, <3>6 DEF ReceivedInv
  <2>4. CASE Unheard /\ view = "friends"
    <3>1. received' = received /\ Misses({"received", "badge"}, e.n)
      BY <1>7, <1>9, <2>4 DEF Unheard, lists
    <3>2. /\ newest'["received"] >= newest["received"] /\ newest'["received"] >= e.n
          /\ newest'["received"] \in Nat /\ "received" \in doubt'
      <4>1. PICK ls : ls = {"received", "badge"}
        OBVIOUS
      <4>2. Misses(ls, e.n) /\ ls \in SUBSET Lists /\ "received" \in ls
        BY <3>1, <4>1 DEF Lists
      <4>3. QED
        BY <1>1, <1>7, <2>4, <4>2, MissesEffect
    <3>3. ListInv(Events("request")', Answered({"accept", "reject"}), Answers("lists"),
                  Asked("lists")', "received", Of("received", rows), received',
                  newest'["received"], doubt', now)
      BY <1>3, <1>6, <2>1, <2>4, <3>2, ListMisses
    <3>4. QED
      BY <1>1, <1>2, <1>4, <3>3 DEF ReceivedInv
  <2>5. FriendRequest \/ Unheard
    BY <1>7, <1>9 DEF Hearing, FriendAccepted, FriendRequestResponse, Arrives
  <2>6. CASE view # "friends"
    BY <1>4, <2>6 DEF ReceivedInv
  <2>7. QED
    BY <2>3, <2>4, <2>5, <2>6
<1>10. QED
  BY <1>8, <1>9
--------------------------------------------------------------------------------
(* The sent requests: the answer to the user's own request puts an entry on the *)
(* list, an event takes it off, if the list listens for it.                     *)
SentInv ==
    view = "friends" /\ onResponse =>
        ListInv(Answered({"send"}), Events("response"), Answers("lists"),
                Asked("lists"), "sent", Of("sent", rows), sent,
                newest["sent"], doubt, now)

(* Nothing happens to the list, its rows or its news. *)
LEMMA SentSame ==
    ASSUME MaxChanges \in Nat, Past, SentInv, now' \in Nat, now <= now', view' = view, onResponse' = onResponse,
           Events("response")' = Events("response"),
           Answered({"send"})' = Answered({"send"}),
           Answers("lists")' = Answers("lists"),
           Asked("lists") # {} => Asked("lists")' # {},
           Of("sent", rows)' = Of("sent", rows),
           sent' = sent, newest'["sent"] = newest["sent"],
           "sent" \in doubt' <=> "sent" \in doubt
    PROVE  SentInv'
<1>1. PastNews(Answered({"send"}), Events("response"), Answers("lists"),
               newest["sent"], now)
  BY PastOf DEF Lists
<1>2. QED
  BY <1>1, ListIdle DEF SentInv

(* The user goes to a tab or a page. *)
LEMMA SentMoves ==
    ASSUME MaxChanges \in Nat, Past, SentInv, Moving
    PROVE  SentInv'
<1>1. now \in Nat
  BY DEF Past, ListsPast
<1>2. CASE Connected \/ Lost
  <2>1. UNCHANGED <<rows, channel, view, onResponse, lists, calls, history>>
    BY <1>2 DEF Connected, Lost
  <2>2. QED
    BY <1>1, <2>1, SentSame DEF history, lists, Events, Answered, Answers, Asked, Of
<1>3. CASE EnterChat \/ OpenFriends
  <2>1. /\ DOMAIN calls \subseteq DOMAIN calls' /\ Asked("lists")' # {}
        /\ \A c \in DOMAIN calls' : c \in DOMAIN calls \/ c.stage = "asked"
        /\ \A c \in DOMAIN calls : c.by # "tab"
    BY <1>3, PastEnters
  <2>2. Answers("lists")' = {}
    BY <2>1, CallsAsked DEF Answers
  <2>3. QED
    BY <2>1, <2>2, ListStarts DEF SentInv
<1>4. CASE OpenSettings \/ OpenConversations \/ LogsOut
  BY <1>4, PastLeaves DEF SentInv
<1>5. QED
  BY <1>2, <1>3, <1>4 DEF Moving

(* What the server does for the user. *)
LEMMA SentServes ==
    ASSUME MaxChanges \in Nat, Past, SentInv, NEW c \in DOMAIN calls,
           ServeRead(c) \/ ServeWrite(c) \/ ServeRefuses(c)
    PROVE  SentInv'
<1>1. /\ now \in Nat /\ c.stage = "asked" /\ view' = view /\ onResponse' = onResponse
      /\ sent' = sent /\ newest' = newest /\ doubt' = doubt
  BY DEF Past, ListsPast, ServeRead, ServeWrite, ServeRefuses, Change, client, lists, history
<1>2. PastNews(Answered({"send"}), Events("response"), Answers("lists"),
               newest["sent"], now)
  BY PastOf DEF Lists
<1>3. CASE ServeRead(c)
  <2>1. PICK d \in DOMAIN calls' :
              /\ d.op = c.op /\ d.by = c.by /\ d.stage = "answered" /\ d.data = Read(c.op)
              /\ d.n = now
              /\ DOMAIN calls \ {c} \subseteq DOMAIN calls'
              /\ DOMAIN calls' \subseteq DOMAIN calls \union {d}
    BY <1>3, ReadServed
  <2>2. rows' = rows /\ channel' = channel /\ now' = now /\ c.op \in Reads
    BY <1>3 DEF ServeRead, history
  <2>3. /\ Events("response")' = Events("response") /\ Of("sent", rows)' = Of("sent", rows)
        /\ Answered({"send"})' = Answered({"send"})
    BY <1>1, <2>1, <2>2, CallsServed DEF Reads, Events, Of
  <2>4. CASE c.op = "lists" /\ c.by = "tab"
    <3>1. Answers("lists")' = Answers("lists") \union {d}
      BY <1>1, <2>1, <2>4, CallsServed
    <3>2. d.n = now /\ Of("sent", d.data) = Of("sent", rows)
      BY <2>1, <2>4, ReadRows
    <3>3. PICK B : B = Answers("lists")'
      OBVIOUS
    <3>4. d \in B /\ B \subseteq Answers("lists") \union {d}
      BY <3>1, <3>3
    <3>5. view = "friends" /\ onResponse =>
             ListInv(Answered({"send"}), Events("response"), B,
                     Asked("lists")', "sent", Of("sent", rows), sent,
                     newest["sent"], doubt, now)
      BY <1>2, <3>2, <3>4, ListServed DEF SentInv
    <3>6. QED
      BY <1>1, <2>2, <2>3, <3>3, <3>5 DEF SentInv
  <2>5. CASE ~(c.op = "lists" /\ c.by = "tab")
    <3>1. Answers("lists")' = Answers("lists") /\ Asked("lists")' = Asked("lists")
      BY <1>1, <2>1, <2>5, CallsServed
    <3>2. QED
      BY <1>1, <2>2, <2>3, <3>1, SentSame
  <2>6. QED
    BY <2>4, <2>5
<1>4. CASE ServeRefuses(c)
  <2>1. rows' = rows /\ channel' = channel /\ now' = now /\ c.op # "lists"
    BY <1>4 DEF ServeRefuses, history, Reads
  <2>2. DOMAIN calls \ {c} \subseteq DOMAIN calls' /\ DOMAIN calls' \subseteq DOMAIN calls
    BY <1>4, CallTaken
  <2>3. /\ Answered({"send"})' = Answered({"send"})
        /\ Answers("lists")' = Answers("lists") /\ Asked("lists")' = Asked("lists")
    BY <1>1, <2>1, <2>2, CallsLeave
  <2>4. QED
    BY <1>1, <2>1, <2>3, SentSame DEF Events, Of
<1>5. CASE ServeWrite(c)
  <2>1. PICK d \in DOMAIN calls' :
              /\ d.op = c.op /\ d.by = c.by /\ d.who = c.who /\ d.stage = "answered"
              /\ d.n = now' /\ now' = now + 1
              /\ DOMAIN calls \ {c} \subseteq DOMAIN calls'
              /\ DOMAIN calls' \subseteq DOMAIN calls \union {d}
    BY <1>5, WriteServed
  <2>2. Events("response")' = Events("response")
    <3>1. CASE c.op # "accept"
      BY <1>5, <3>1, WriteTells DEF Events
    <3>2. CASE c.op = "accept"
      BY <1>5, <3>2, WriteTells, EventsAppend DEF Past, EventsPast
    <3>3. QED
      BY <3>1, <3>2
  <2>3. c.op \in {"send", "accept", "reject", "remove"}
    BY <1>5, WriteChanges
  <2>4. Answers("lists")' = Answers("lists") /\ Asked("lists")' = Asked("lists")
    BY <1>1, <2>1, <2>3, CallsServed
  <2>5. CASE c.op = "send"
    <3>1. /\ Answered({"send"})' = Answered({"send"}) \union {d}
      BY <1>1, <2>1, <2>5, CallsServed
    <3>2. d.who \notin Of("sent", rows) /\ Of("sent", rows)' = Of("sent", rows) \union {d.who}
      BY <1>5, <2>1, <2>5, WriteChanges
    <3>3. view = "friends" /\ onResponse =>
             ListInv(Answered({"send"}) \union {d}, Events("response"), Answers("lists"),
                     Asked("lists"), "sent", Of("sent", rows) \union {d.who}, sent,
                     newest["sent"], doubt, now + 1)
      BY <1>2, <2>1, <3>2, ListPutOn DEF SentInv
    <3>4. QED
      BY <1>1, <2>1, <2>2, <2>4, <3>1, <3>2, <3>3 DEF SentInv
  <2>6. CASE c.op \in {"accept", "reject", "remove"}
    <3>1. Answered({"send"})' = Answered({"send"})
      BY <1>1, <2>1, <2>6, CallsServed
    <3>2. Of("sent", rows)' = Of("sent", rows)
      BY <1>5, <2>6, WriteChanges
    <3>3. QED
      BY <1>1, <2>1, <2>2, <2>4, <3>1, <3>2, SentSame
  <2>7. QED
    BY <2>3, <2>5, <2>6
<1>6. QED
  BY <1>3, <1>4, <1>5

(* The other users and the socket act. *)
LEMMA SentElsewhere ==
    ASSUME MaxChanges \in Nat, Past, SentInv, Elsewhere
    PROVE  SentInv'
<1>1. /\ now \in Nat /\ now' = now + 1 /\ view' = view /\ onResponse' = onResponse /\ calls' = calls /\ sent' = sent
      /\ newest' = newest /\ doubt' = doubt
  BY PastElsewhere DEF client, lists, Past, ListsPast
<1>2. /\ Answers("lists")' = Answers("lists") /\ Asked("lists")' = Asked("lists")
      /\ Answered({"send"})' = Answered({"send"})
  BY <1>1 DEF Answers, Asked, Answered
<1>3. PastNews(Answered({"send"}), Events("response"), Answers("lists"),
               newest["sent"], now)
  BY PastOf DEF Lists
<1>4. PICK u \in Others : \/ OtherSends(u) \/ OtherAnswers(u, TRUE) \/ OtherAnswers(u, FALSE)
                          \/ OtherRemoves(u)
  BY DEF Elsewhere
<1>5. CASE OtherAnswers(u, TRUE) \/ OtherAnswers(u, FALSE)
  <2>1. PICK e \in Event : e.who = u /\ e.n = now' /\ Events("response")' = Events("response") \union {e}
    BY <1>5, AnswerTells
  <2>2. e.who \in Of("sent", rows) /\ Of("sent", rows)' = Of("sent", rows) \ {e.who}
    BY <1>5, <2>1, AnswerTells
  <2>3. view = "friends" /\ onResponse =>
             ListInv(Answered({"send"}), Events("response") \union {e}, Answers("lists"),
                     Asked("lists"), "sent", Of("sent", rows) \ {e.who}, sent,
                     newest["sent"], doubt, now + 1)
    BY <1>1, <1>3, <2>1, <2>2, ListTakenOff DEF SentInv
  <2>4. QED
    BY <1>1, <1>2, <2>1, <2>2, <2>3 DEF SentInv
<1>6. CASE OtherSends(u)
  <2>1. Of("sent", rows)' = Of("sent", rows) /\ Events("response")' = Events("response")
    BY <1>6, SendTells
  <2>2. now' \in Nat /\ now <= now'
    BY <1>1
  <2>3. QED
    BY <1>1, <1>2, <2>1, <2>2, SentSame
<1>7. CASE OtherRemoves(u)
  <2>1. Of("sent", rows)' = Of("sent", rows) /\ Events("response")' = Events("response")
    BY <1>7, RemovalTellsNobody
  <2>2. now' \in Nat /\ now <= now'
    BY <1>1
  <2>3. QED
    BY <1>1, <1>2, <2>1, <2>2, SentSame
<1>8. QED
  BY <1>4, <1>5, <1>6, <1>7

(* What the answers do to the list. *)
LEMMA SentAnswers ==
    ASSUME MaxChanges \in Nat, Past, SentInv, NEW c \in DOMAIN calls,
           \/ ListsAnswer(c) \/ CountAnswer(c) \/ FriendsAnswer(c)
           \/ SendAnswer(c) \/ RespondAnswer(c) \/ RemoveAnswer(c)
    PROVE  SentInv'
<1>1. /\ now \in Nat /\ now' = now /\ UNCHANGED <<rows, channel, client>>
      /\ c.n \in Nat /\ c.n <= now /\ c.stage = "answered" /\ newest \in [Lists -> Nat]
      /\ DOMAIN calls \ {c} \subseteq DOMAIN calls' /\ DOMAIN calls' \subseteq DOMAIN calls
  BY PastAnswer DEF Past, ListsPast
<1>2. PastNews(Answered({"send"}), Events("response"), Answers("lists"),
               newest["sent"], now)
  BY PastOf DEF Lists
<1>3. /\ view' = view /\ onResponse' = onResponse /\ Events("response")' = Events("response")
      /\ Of("sent", rows)' = Of("sent", rows)
  BY <1>1 DEF client, Events, Of
<1>4. Asked("lists")' = Asked("lists")
  BY <1>1, CallsLeave
<1>5. CASE ListsAnswer(c) /\ c.by = "tab"
  <2>1. /\ c.op = "lists" /\ sent' = SetToBag(Of("sent", c.data))
        /\ Hears({"received", "sent", "badge"}, c.n, TRUE)
    BY <1>5 DEF ListsAnswer
  <2>2. /\ newest'["sent"] >= newest["sent"] /\ newest'["sent"] >= c.n
        /\ newest'["sent"] = newest["sent"] \/ newest'["sent"] = c.n
        /\ "sent" \in doubt' <=> c.n < newest["sent"]
    <3>1. PICK ls : ls = {"received", "sent", "badge"}
      OBVIOUS
    <3>2. Hears(ls, c.n, TRUE) /\ ls \in SUBSET Lists /\ "sent" \in ls
      BY <2>1, <3>1 DEF Lists
    <3>3. QED
      BY <1>1, <3>2, HearsEffect
  <2>3. c \in Answers("lists") /\ Answers("lists")' \subseteq Answers("lists")
        /\ Answered({"send"})' = Answered({"send"})
    BY <1>1, <1>5, <2>1, CallsLeave DEF Answers
  <2>4. view = "friends" /\ onResponse =>
             ListInv(Answered({"send"}), Events("response"), Answers("lists")',
                     Asked("lists"), "sent", Of("sent", rows), SetToBag(Of("sent", c.data)),
                     newest'["sent"], doubt', now)
    BY <1>2, <2>2, <2>3, ListAnswered DEF SentInv
  <2>5. QED
    BY <1>1, <1>3, <1>4, <2>1, <2>3, <2>4 DEF SentInv
<1>6. CASE SendAnswer(c)
  <2>1. c \in Answered({"send"}) /\ c.op = "send"
    BY <1>1, <1>6 DEF SendAnswer, Answered
  <2>2. /\ Answered({"send"}) \ {c} \subseteq Answered({"send"})'
        /\ Answered({"send"})' \subseteq Answered({"send"})
        /\ Answers("lists")' = Answers("lists")
    BY <1>1, <2>1, CallsLeave
  <2>3. c.who \in Others
    BY <2>1 DEF Past, CallsPast, GoodCall, Reads
  <2>4. CASE c.by = "tab"
    <3>1. sent' = With(sent, c.who) /\ Hears({"sent"}, c.n, FALSE)
      BY <1>6, <2>4 DEF SendAnswer
    <3>2. /\ newest'["sent"] >= newest["sent"] /\ newest'["sent"] >= c.n
          /\ newest'["sent"] = newest["sent"] \/ newest'["sent"] = c.n
          /\ "sent" \in doubt' <=> "sent" \in doubt \/ c.n <= newest["sent"]
      <4>1. PICK ls : ls = {"sent"}
        OBVIOUS
      <4>2. Hears(ls, c.n, FALSE) /\ ls \in SUBSET Lists /\ "sent" \in ls
        BY <3>1, <4>1 DEF Lists
      <4>3. QED
        BY <1>1, <4>2, HearsEffect
    <3>3. sent = SetToBag(DOMAIN sent) =>
             (c.who \notin DOMAIN sent => sent' = SetToBag(DOMAIN sent \union {c.who}))
      BY <3>1, SetBagGains
    <3>4. view = "friends" /\ onResponse =>
             ListInv(Answered({"send"})', Events("response"), Answers("lists"),
                     Asked("lists"), "sent", Of("sent", rows), sent',
                     newest'["sent"], doubt', now)
      BY <1>2, <2>1, <2>2, <2>3, <3>2, <3>3, ListHearsOn DEF SentInv
    <3>5. QED
      BY <1>1, <1>3, <1>4, <2>2, <3>4 DEF SentInv
  <2>5. CASE c.by # "tab"
    <3>1. sent' = sent /\ Misses({"sent"}, c.n)
      BY <1>6, <2>5 DEF SendAnswer
    <3>2. view = "friends" =>
             /\ newest'["sent"] >= newest["sent"] /\ newest'["sent"] >= c.n
             /\ newest'["sent"] \in Nat /\ "sent" \in doubt'
      <4>1. PICK ls : ls = {"sent"}
        OBVIOUS
      <4>2. Misses(ls, c.n) /\ ls \in SUBSET Lists /\ "sent" \in ls
        BY <3>1, <4>1 DEF Lists
      <4>3. QED
        BY <1>1, <4>2, MissesEffect
    <3>3. view = "friends" /\ onResponse =>
             ListInv(Answered({"send"})', Events("response"), Answers("lists"),
                     Asked("lists"), "sent", Of("sent", rows), sent',
                     newest'["sent"], doubt', now)
      BY <1>2, <2>1, <2>2, <3>2, ListMisses DEF SentInv
    <3>4. QED
      BY <1>1, <1>3, <1>4, <2>2, <3>3 DEF SentInv
  <2>6. QED
    BY <2>4, <2>5
<1>7. CASE (ListsAnswer(c) /\ c.by # "tab") \/ CountAnswer(c) \/ FriendsAnswer(c) \/ RespondAnswer(c) \/ RemoveAnswer(c)
  <2>1. /\ sent' = sent /\ c.op # "send"
        /\ c.op # "lists" \/ c.by # "tab"
    BY <1>7 DEF ListsAnswer, CountAnswer, FriendsAnswer, RespondAnswer, RemoveAnswer
  <2>2. /\ Answered({"send"})' = Answered({"send"})
        /\ Answers("lists")' = Answers("lists")
    BY <1>1, <2>1, CallsLeave
  <2>3. \/ HearsCounted({"received"}, c.n)
        \/ \E ls \in SUBSET Lists : /\ "sent" \notin ls
                                    /\ \/ Hears(ls, c.n, TRUE) \/ Hears(ls, c.n, FALSE)
                                       \/ Misses(ls, c.n) \/ UNCHANGED history
    <3>1. /\ {"badge"} \in SUBSET Lists /\ {"contacts"} \in SUBSET Lists
          /\ {"received", "badge"} \in SUBSET Lists
      BY DEF Lists
    <3>2. \/ Hears({"badge"}, c.n, TRUE) \/ Hears({"contacts"}, c.n, TRUE) \/ Hears({"contacts"}, c.n, FALSE)
          \/ Misses({"contacts"}, c.n) \/ Misses({"received", "badge"}, c.n)
          \/ HearsCounted({"received"}, c.n) \/ UNCHANGED history
      BY <1>7 DEF ListsAnswer, CountAnswer, FriendsAnswer, RespondAnswer, RemoveAnswer
    <3>3. QED
      BY <3>1, <3>2
  <2>4. newest'["sent"] = newest["sent"] /\ ("sent" \in doubt' <=> "sent" \in doubt)
    BY <1>1, <2>3, OthersHear, HearsCountedEffect DEF Lists
  <2>5. QED
    BY <1>1, <1>3, <1>4, <2>1, <2>2, <2>4, SentSame
<1>8. QED
  BY <1>5, <1>6, <1>7

(* The page hears an event. *)
LEMMA SentHears ==
    ASSUME MaxChanges \in Nat, Past, SocketInv, SentInv, Hearing
    PROVE  SentInv'
<1>1. /\ now \in Nat /\ now' = now /\ UNCHANGED <<rows, client>> /\ newest \in [Lists -> Nat]
      /\ channel # <<>> /\ channel' = Tail(channel) /\ channel \in Seq(Event)
      /\ Head(channel) \in Event /\ Head(channel).n \in Nat /\ Head(channel).n <= now
      /\ DOMAIN calls \subseteq DOMAIN calls'
      /\ \A c \in DOMAIN calls' : c \in DOMAIN calls \/ c.stage = "asked"
  BY PastHears DEF Past, ListsPast, EventsPast
<1>2. /\ Answers("lists")' = Answers("lists") /\ Asked("lists") \subseteq Asked("lists")'
      /\ Answered({"send"})' = Answered({"send"})
  BY <1>1, CallsAsked
<1>3. PastNews(Answered({"send"}), Events("response"), Answers("lists"),
               newest["sent"], now)
  BY PastOf DEF Lists
<1>4. view' = view /\ onResponse' = onResponse /\ Of("sent", rows)' = Of("sent", rows)
  BY <1>1 DEF client, Of
<1>5. Asked("lists") # {} => Asked("lists")' # {}
  BY <1>2
<1>6. view = "friends" /\ onResponse =>
         ListInv(Answered({"send"}), Events("response"), Answers("lists"),
                 Asked("lists")', "sent", Of("sent", rows), sent,
                 newest["sent"], doubt, now)
  <2>1. SUFFICES ASSUME view = "friends", onResponse
                 PROVE  ListInv(Answered({"send"}), Events("response"), Answers("lists"),
                                Asked("lists")', "sent", Of("sent", rows), sent,
                                newest["sent"], doubt, now)
    OBVIOUS
  <2>2. ListInv(Answered({"send"}), Events("response"), Answers("lists"),
                Asked("lists"), "sent", Of("sent", rows), sent,
                newest["sent"], doubt, now)
    BY <2>1 DEF SentInv
  <2>3. PICK V : V = Asked("lists")'
    OBVIOUS
  <2>4. Asked("lists") # {} => V # {}
    BY <1>5, <2>3
  <2>5. now \in Nat /\ now <= now
    BY <1>1
  <2>6. ListInv(Answered({"send"}), Events("response"), Answers("lists"),
                V, "sent", Of("sent", rows), sent, newest["sent"], doubt, now)
    BY <1>3, <2>2, <2>4, <2>5, ListIdle
  <2>7. QED
    BY <2>3, <2>6
<1>7. PICK e : e = Head(channel)
  OBVIOUS
<1>8. CASE e.type # "response"
  <2>1. Events("response")' = Events("response")
    BY <1>1, <1>7, <1>8, EventsTail
  <2>2. /\ sent' = sent
        /\ \/ HearsCounted({"received"}, e.n)
           \/ \E ls \in SUBSET Lists : /\ "sent" \notin ls
                                       /\ \/ Hears(ls, e.n, TRUE) \/ Hears(ls, e.n, FALSE)
                                          \/ Misses(ls, e.n) \/ UNCHANGED history
    <3>1. {"received", "badge"} \in SUBSET Lists /\ {"contacts"} \in SUBSET Lists
      BY DEF Lists
    <3>2. CASE FriendAccepted
      BY <3>1, <3>2 DEF FriendAccepted, lists
    <3>3. CASE FriendRequest
      BY <3>1, <3>3, <1>7 DEF FriendRequest
    <3>4. CASE Unheard
      <4>1. (Misses({"contacts"}, e.n) \/ Misses({"received", "badge"}, e.n)) /\ sent' = sent
        BY <1>1, <1>7, <1>8, <3>4 DEF Unheard, Event, lists
      <4>2. QED
        BY <3>1, <4>1
    <3>5. ~FriendRequestResponse
      BY <1>7, <1>8 DEF FriendRequestResponse, Arrives
    <3>6. QED
      BY <3>2, <3>3, <3>4, <3>5 DEF Hearing
  <2>3. newest'["sent"] = newest["sent"] /\ ("sent" \in doubt' <=> "sent" \in doubt)
    BY <1>1, <1>7, <2>2, OthersHear, HearsCountedEffect DEF Lists
  <2>4. QED
    BY <1>1, <1>2, <1>4, <1>5, <2>1, <2>2, <2>3, SentSame
<1>9. CASE e.type = "response"
  <2>1. /\ e \in Events("response") /\ Events("response") \ {e} \subseteq Events("response")'
        /\ Events("response")' \subseteq Events("response")
    BY <1>1, <1>7, <1>9, EventsTail
  <2>2. e.who \in Others
    BY <1>1, <1>7 DEF Event
  <2>3. CASE FriendRequestResponse /\ view = "friends" /\ onResponse
    <3>1. sent' = Without(sent, e.who) /\ Hears({"sent"}, e.n, FALSE)
      BY <1>7, <2>3 DEF FriendRequestResponse
    <3>2. sent = SetToBag(DOMAIN sent) => sent' = SetToBag(DOMAIN sent \ {e.who})
      BY <3>1, SetBagLoses
    <3>3. /\ newest'["sent"] >= newest["sent"] /\ newest'["sent"] >= e.n
          /\ newest'["sent"] = newest["sent"] \/ newest'["sent"] = e.n
          /\ "sent" \in doubt' <=> "sent" \in doubt \/ e.n <= newest["sent"]
      <4>1. PICK ls : ls = {"sent"}
        OBVIOUS
      <4>2. Hears(ls, e.n, FALSE) /\ ls \in SUBSET Lists /\ "sent" \in ls
        BY <3>1, <4>1 DEF Lists
      <4>3. QED
        BY <1>1, <1>7, <4>2, HearsEffect
    <3>4. ListInv(Answered({"send"}), Events("response")', Answers("lists"),
                  Asked("lists")', "sent", Of("sent", rows), sent',
                  newest'["sent"], doubt', now)
      <4>1. ListInv(Answered({"send"}), Events("response"), Answers("lists"),
                    Asked("lists")', "sent", Of("sent", rows), sent,
                    newest["sent"], doubt, now)
        BY <1>6, <2>3
      <4>2. QED
        BY <1>3, <2>1, <2>2, <3>2, <3>3, <4>1, ListHearsOff
    <3>5. QED
      BY <1>1, <1>2, <1>4, <3>4 DEF SentInv
  <2>4. CASE Unheard /\ view = "friends" /\ onResponse
    <3>1. sent' = sent /\ Misses({"sent"}, e.n)
      BY <1>7, <1>9, <2>4 DEF Unheard, lists
    <3>2. /\ newest'["sent"] >= newest["sent"] /\ newest'["sent"] >= e.n
          /\ newest'["sent"] \in Nat /\ "sent" \in doubt'
      <4>1. PICK ls : ls = {"sent"}
        OBVIOUS
      <4>2. Misses(ls, e.n) /\ ls \in SUBSET Lists /\ "sent" \in ls
        BY <3>1, <4>1 DEF Lists
      <4>3. QED
        BY <1>1, <1>7, <2>4, <4>2, MissesEffect
    <3>3. ListInv(Answered({"send"}), Events("response")', Answers("lists"),
                  Asked("lists")', "sent", Of("sent", rows), sent',
                  newest'["sent"], doubt', now)
      BY <1>3, <1>6, <2>1, <2>4, <3>2, ListMisses
    <3>4. QED
      BY <1>1, <1>2, <1>4, <3>3 DEF SentInv
  <2>5. FriendRequestResponse \/ Unheard
    BY <1>7, <1>9 DEF Hearing, FriendAccepted, FriendRequest, Arrives
  <2>6. CASE ~(view = "friends" /\ onResponse)
    BY <1>4, <2>6 DEF SentInv
  <2>7. QED
    BY <2>3, <2>4, <2>5, <2>6
<1>10. QED
  BY <1>8, <1>9
--------------------------------------------------------------------------------
(***************************************************************************)
(* The friends.  An event only makes the list ask again, so that what is   *)
(* under way for a friend who is not on it is an event, a question, or an  *)
(* answer: E, V and A; the answers W to the user's own removals take off   *)
(* the list without a question.                                            *)
(***************************************************************************)

(* after change n, u will be heard to be a friend, or the list has heard of *)
(* something newer                                                          *)
LaterHeard(u, n, E, A, V, N) ==
    \/ N > n
    \/ V # {}
    \/ \E e \in E : e.who = u /\ e.n > n
    \/ \E a \in A : u \in Of("friend", a.data) /\ a.n > n

(* u is on the list, or will be, or the list is in doubt, or will be: an answer or *)
(* a removal will be heard after something newer                                   *)
Listed(u, E, A, W, V, list, N, D) ==
    \/ "contacts" \in D
    \/ \E a \in A : a.n < N
    \/ \E w \in W : w.n <= N
    \/ u \in list
    \/ V # {}
    \/ \E e \in E : e.who = u
    \/ \E a \in A : u \in Of("friend", a.data) /\ a.n >= N

(* what would take the friend u off the list is older than what puts u on it *)
FriendInv(u, E, A, W, V, list, N, D, t) ==
    /\ Listed(u, E, A, W, V, list, N, D)
    /\ \A a \in A : u \notin Of("friend", a.data) => a.n < t /\ LaterHeard(u, a.n, E, A, V, N)
    /\ \A w \in W : w.who = u => LaterHeard(u, w.n, E, A, V, N)

PastFriends(E, A, W, N, t) ==
    /\ t \in Nat /\ N \in Nat /\ N <= t
    /\ Numbered(E, t) /\ Numbered(A, t) /\ Numbered(W, t)

(* A list that waits for its first answer has promised nothing. *)
LEMMA FriendAsksFirst ==
    ASSUME NEW u, NEW E, NEW W, NEW V, V # {}, NEW list, NEW N, NEW D, NEW t
    PROVE  FriendInv(u, E, {}, W, V, list, N, D, t)
BY DEF FriendInv, Listed, LaterHeard

(* Nothing about u. *)
LEMMA FriendIdle ==
    ASSUME NEW u, NEW E, NEW A, NEW W, NEW V, NEW list, NEW N, NEW D, NEW t,
           PastFriends(E, A, W, N, t), FriendInv(u, E, A, W, V, list, N, D, t),
           NEW F, E \subseteq F, NEW X, W \subseteq X, \A w \in X : w \in W \/ w.who # u,
           NEW Y, V # {} => Y # {}, NEW C, "contacts" \in D => "contacts" \in C,
           NEW s \in Nat, t <= s
    PROVE  FriendInv(u, F, A, X, Y, list, N, C, s)
<1>1. Listed(u, F, A, X, Y, list, N, C)
  BY DEF FriendInv, Listed
<1>2. \A n : LaterHeard(u, n, E, A, V, N) => LaterHeard(u, n, F, A, Y, N)
  BY DEF LaterHeard
<1>3. \A a \in A : a.n \in Nat
  BY DEF PastFriends, Numbered
<1>4. t \in Nat
  BY DEF PastFriends
<1>5. \A a \in A : a.n < t => a.n < s
  BY <1>3, <1>4
<1>6. QED
  BY <1>1, <1>2, <1>5 DEF FriendInv

(* The friends are asked for. *)
LEMMA FriendAsks ==
    ASSUME NEW u, NEW E, NEW A, NEW W, NEW V, NEW list, NEW N, NEW D, NEW t,
           FriendInv(u, E, A, W, V, list, N, D, t), NEW F, NEW Y, Y # {}
    PROVE  FriendInv(u, F, A, W, Y, list, N, D, t)
BY DEF FriendInv, Listed, LaterHeard

(* u becomes a friend, and the event is on its way. *)
LEMMA FriendMade ==
    ASSUME NEW u, NEW E, NEW A, NEW W, NEW V, NEW list, NEW N, NEW D, NEW t \in Nat,
           Numbered(A, t), Numbered(W, t), NEW e0, e0.who = u, e0.n = t + 1
    PROVE  FriendInv(u, E \union {e0}, A, W, V, list, N, D, t + 1)
<1>1. Listed(u, E \union {e0}, A, W, V, list, N, D)
  BY DEF Listed
<1>2. \A n \in Nat : n <= t => n < t + 1 /\ e0.n > n
  OBVIOUS
<1>3. \A n \in Nat : n <= t => n < t + 1 /\ LaterHeard(u, n, E \union {e0}, A, V, N)
  BY <1>2 DEF LaterHeard
<1>4. QED
  BY <1>1, <1>3 DEF FriendInv, Numbered

(* The server answers with the friends as they are. *)
LEMMA FriendServed ==
    ASSUME NEW u, NEW E, NEW A, NEW W, NEW V, NEW list, NEW N, NEW D, NEW t,
           PastFriends(E, A, W, N, t), FriendInv(u, E, A, W, V, list, N, D, t),
           \A w \in W : w.who = u => w.n < t,
           NEW a0, a0.n = t, u \in Of("friend", a0.data), NEW B, B = A \union {a0}, NEW Y
    PROVE  FriendInv(u, E, B, W, Y, list, N, D, t)
<1>1. t \in Nat /\ N \in Nat /\ N <= t /\ a0 \in B
  BY DEF PastFriends
<1>2. Listed(u, E, B, W, Y, list, N, D)
  BY <1>1 DEF Listed
<1>3. \A n : n < t => LaterHeard(u, n, E, B, Y, N)
  <2>1. \A n : n < t => a0.n > n
    OBVIOUS
  <2>2. QED
    BY <1>1, <2>1 DEF LaterHeard
<1>4. QED
  BY <1>2, <1>3 DEF FriendInv

(* An answer arrives: the list is what it says. *)
LEMMA FriendAnswered ==
    ASSUME NEW u, NEW E, NEW A, NEW W, NEW V, NEW list, NEW N, NEW D, NEW t,
           PastFriends(E, A, W, N, t), FriendInv(u, E, A, W, V, list, N, D, t),
           NEW a0 \in A, NEW B, A \ {a0} \subseteq B, B \subseteq A,
           NEW N1, N1 >= N, N1 >= a0.n, N1 = N \/ N1 = a0.n,
           NEW C, "contacts" \in C <=> a0.n < N
    PROVE  FriendInv(u, E, B, W, V, Of("friend", a0.data), N1, C, t)
<1>1. N \in Nat /\ N1 \in Nat /\ (\A a \in A : a.n \in Nat) /\ (\A w \in W : w.n \in Nat)
  BY DEF PastFriends, Numbered
<1>2. \A n \in Nat : LaterHeard(u, n, E, A, V, N) => LaterHeard(u, n, E, B, V, N1)
  <2>1. SUFFICES ASSUME NEW n \in Nat, LaterHeard(u, n, E, A, V, N)
                 PROVE  LaterHeard(u, n, E, B, V, N1)
    OBVIOUS
  <2>2. CASE N > n \/ V # {} \/ \E e \in E : e.who = u /\ e.n > n
    <3>1. N > n => N1 > n
      BY <1>1
    <3>2. QED
      BY <2>2, <3>1 DEF LaterHeard
  <2>3. CASE \E a \in A : u \in Of("friend", a.data) /\ a.n > n
    <3>1. PICK a \in A : u \in Of("friend", a.data) /\ a.n > n
      BY <2>3
    <3>2. a = a0 => N1 > n
      BY <1>1, <3>1
    <3>3. QED
      BY <3>1, <3>2 DEF LaterHeard
  <2>4. QED
    BY <2>1, <2>2, <2>3 DEF LaterHeard
<1>3. Listed(u, E, B, W, V, Of("friend", a0.data), N1, C)
  <2>1. CASE a0.n < N \/ u \in Of("friend", a0.data)
    BY <2>1 DEF Listed
  <2>2. CASE ~(a0.n < N) /\ u \notin Of("friend", a0.data)
    <3>1. N1 = a0.n /\ ~(N > a0.n)
      BY <1>1, <2>2
    <3>2. LaterHeard(u, a0.n, E, A, V, N)
      BY <2>2 DEF FriendInv
    <3>3. CASE \E a \in A : u \in Of("friend", a.data) /\ a.n > a0.n
      <4>1. PICK a \in A : u \in Of("friend", a.data) /\ a.n > a0.n
        BY <3>3
      <4>2. a \in B /\ a.n >= N1
        BY <1>1, <2>2, <3>1, <4>1
      <4>3. QED
        BY <4>1, <4>2 DEF Listed
    <3>4. QED
      BY <3>1, <3>2, <3>3 DEF LaterHeard, Listed
  <2>3. QED
    BY <2>1, <2>2
<1>4. QED
  BY <1>1, <1>2, <1>3 DEF FriendInv

(* A removal is answered: the friend is off the list. *)
LEMMA FriendRemoved ==
    ASSUME NEW u, NEW E, NEW A, NEW W, NEW V, NEW list, NEW N, NEW D, NEW t,
           PastFriends(E, A, W, N, t), FriendInv(u, E, A, W, V, list, N, D, t),
           NEW w0 \in W, NEW X, W \ {w0} \subseteq X, X \subseteq W,
           NEW N1, N1 >= N, N1 >= w0.n, N1 = N \/ N1 = w0.n,
           NEW C, "contacts" \in C <=> "contacts" \in D \/ w0.n <= N
    PROVE  FriendInv(u, E, A, X, V, list \ {w0.who}, N1, C, t)
<1>1. N \in Nat /\ N1 \in Nat /\ (\A a \in A : a.n \in Nat) /\ (\A w \in W : w.n \in Nat)
  BY DEF PastFriends, Numbered
<1>2. \A n \in Nat : LaterHeard(u, n, E, A, V, N) => LaterHeard(u, n, E, A, V, N1)
  BY <1>1 DEF LaterHeard
<1>3. Listed(u, E, A, X, V, list \ {w0.who}, N1, C)
  <2>1. CASE "contacts" \in D \/ w0.n <= N
    BY <2>1 DEF Listed
  <2>2. CASE "contacts" \notin D /\ ~(w0.n <= N)
    <3>1. N1 = w0.n /\ N < w0.n
      BY <1>1, <2>2
    <3>2. \A a \in A : a.n < N1 \/ a.n >= N1
      BY <1>1
    <3>3. CASE w0.who = u
      <4>1. LaterHeard(u, w0.n, E, A, V, N)
        BY <3>3 DEF FriendInv
      <4>2. ~(N > w0.n)
        BY <1>1, <3>1
      <4>3. QED
        BY <3>1, <3>2, <4>1, <4>2 DEF LaterHeard, Listed
    <3>4. CASE w0.who # u
      <4>1. Listed(u, E, A, W, V, list, N, D)
        BY DEF FriendInv
      <4>2. \A w \in W : w.n <= N => w \in X /\ w.n <= N1
        BY <1>1, <3>1
      <4>3. u \in list => u \in list \ {w0.who}
        BY <3>4
      <4>4. \A a \in A : a.n < N => a.n < N1
        BY <1>1
      <4>5. QED
        BY <2>2, <3>2, <4>1, <4>2, <4>3, <4>4 DEF Listed
    <3>5. QED
      BY <3>3, <3>4
  <2>3. QED
    BY <2>1, <2>2
<1>4. QED
  BY <1>1, <1>2, <1>3 DEF FriendInv

(* An event, or the answer to a removal, is missed. *)
LEMMA FriendMissed ==
    ASSUME NEW u, NEW E, NEW A, NEW W, NEW V, NEW list, NEW N, NEW D, NEW t,
           PastFriends(E, A, W, N, t), FriendInv(u, E, A, W, V, list, N, D, t),
           NEW N1 \in Nat, N1 >= N,
           NEW F, \A e \in E : e \in F \/ N1 >= e.n, NEW X, X \subseteq W,
           NEW C, "contacts" \in C
    PROVE  FriendInv(u, F, A, X, V, list, N1, C, t)
<1>1. /\ N \in Nat /\ (\A a \in A : a.n \in Nat) /\ (\A w \in W : w.n \in Nat)
      /\ \A e \in E : e.n \in Nat
  BY DEF PastFriends, Numbered
<1>2. \A n \in Nat : LaterHeard(u, n, E, A, V, N) => LaterHeard(u, n, F, A, V, N1)
  <2>1. \A n \in Nat : N > n => N1 > n
    BY <1>1
  <2>2. \A n \in Nat, e \in E : e.n > n => e \in F \/ N1 > n
    BY <1>1
  <2>3. QED
    BY <2>1, <2>2 DEF LaterHeard
<1>3. Listed(u, F, A, X, V, list, N1, C)
  BY DEF Listed
<1>4. QED
  BY <1>1, <1>2, <1>3 DEF FriendInv
--------------------------------------------------------------------------------
ContactsInv ==
    view = "friends" =>
        \A u \in Of("friend", rows) :
            FriendInv(u, Events("accepted"), Answers("friends"), Answered({"remove"}),
                      Asked("friends"), contacts, newest["contacts"], doubt, now)

(* who was removed and is a friend again was made one since *)
RemovedBefore == \A c \in Answered({"remove"}) : c.who \in Of("friend", rows) => c.n < now

(* Past, in the terms of the lemmas on friends. *)
LEMMA PastOfFriends ==
    ASSUME MaxChanges \in Nat, Past
    PROVE  /\ PastFriends(Events("accepted"), Answers("friends"), Answered({"remove"}),
                          newest["contacts"], now)
           /\ Numbered(Answers("friends"), now) /\ Numbered(Answered({"remove"}), now)
<1>1. PastNews(Answered({"remove"}), Events("accepted"), Answers("friends"), newest["contacts"], now)
  BY PastOf DEF Lists
<1>2. QED
  BY <1>1 DEF PastNews, PastFriends, Numbered

(* RemovedBefore outlives whoever becomes a friend after the removal. *)
LEMMA RemovedBeforeNext ==
    ASSUME MaxChanges \in Nat, Past, RemovedBefore, now' \in Nat,
           \/ now' = now + 1 /\ \A c \in Answered({"remove"})' : c \in Answered({"remove"}) \/ c.who \notin Of("friend", rows)'
           \/ /\ now' = now /\ Of("friend", rows)' = Of("friend", rows)
              /\ \A c \in Answered({"remove"})' : \E d \in Answered({"remove"}) : c.who = d.who /\ c.n = d.n
    PROVE  RemovedBefore'
<1>1. CASE now' = now + 1 /\ \A c \in Answered({"remove"})' : c \in Answered({"remove"}) \/ c.who \notin Of("friend", rows)'
  <2>1. \A c \in Answered({"remove"}) : c.n \in Nat /\ c.n <= now
    BY PastOfFriends DEF Numbered
  <2>2. now \in Nat
    BY DEF Past, ListsPast
  <2>3. QED
    BY <1>1, <2>1, <2>2 DEF RemovedBefore
<1>2. CASE /\ now' = now /\ Of("friend", rows)' = Of("friend", rows)
           /\ \A c \in Answered({"remove"})' : \E d \in Answered({"remove"}) : c.who = d.who /\ c.n = d.n
  BY <1>2 DEF RemovedBefore
<1>3. QED
  BY <1>1, <1>2

(* Nothing happens to the list or its news, and nobody becomes a friend. *)
LEMMA ContactsSame ==
    ASSUME MaxChanges \in Nat, Past, ContactsInv, now' \in Nat, now <= now', view' = view,
           Events("accepted")' = Events("accepted"),
           Answered({"remove"})' = Answered({"remove"}),
           Answers("friends")' = Answers("friends"),
           Asked("friends") # {} => Asked("friends")' # {},
           Of("friend", rows)' \subseteq Of("friend", rows),
           contacts' = contacts, newest'["contacts"] = newest["contacts"],
           "contacts" \in doubt' <=> "contacts" \in doubt
    PROVE  ContactsInv'
<1>1. SUFFICES ASSUME view = "friends", NEW u \in Of("friend", rows)
               PROVE  FriendInv(u, Events("accepted"), Answers("friends"), Answered({"remove"}),
                                Asked("friends")', contacts, newest["contacts"], doubt', now')
  BY DEF ContactsInv
<1>2. FriendInv(u, Events("accepted"), Answers("friends"), Answered({"remove"}),
                Asked("friends"), contacts, newest["contacts"], doubt, now)
  BY <1>1 DEF ContactsInv
<1>3. QED
  BY <1>2, PastOfFriends, FriendIdle

(* A friend is made, and the event is on its way. *)
LEMMA ContactsMade ==
    ASSUME MaxChanges \in Nat, Past, ContactsInv, now' = now + 1, view' = view,
           NEW e, e.n = now',
           Events("accepted")' = Events("accepted") \union {e},
           Answered({"remove"})' = Answered({"remove"}),
           Answers("friends")' = Answers("friends"), Asked("friends")' = Asked("friends"),
           Of("friend", rows)' = Of("friend", rows) \union {e.who},
           contacts' = contacts, newest' = newest, doubt' = doubt
    PROVE  ContactsInv'
<1>1. /\ PastFriends(Events("accepted"), Answers("friends"), Answered({"remove"}),
                     newest["contacts"], now)
      /\ Numbered(Answers("friends"), now) /\ Numbered(Answered({"remove"}), now)
  BY PastOfFriends
<1>2. now \in Nat
  BY DEF Past, ListsPast
<1>3. PICK F : F = Events("accepted") \union {e}
  OBVIOUS
<1>4. ASSUME view = "friends", NEW u \in Of("friend", rows) \union {e.who}
      PROVE  FriendInv(u, F, Answers("friends"), Answered({"remove"}),
                       Asked("friends"), contacts, newest["contacts"], doubt, now + 1)
  <2>1. CASE u = e.who
    BY <1>1, <1>2, <1>3, <2>1, FriendMade
  <2>2. CASE u # e.who
    <3>1. FriendInv(u, Events("accepted"), Answers("friends"), Answered({"remove"}),
                    Asked("friends"), contacts, newest["contacts"], doubt, now)
      BY <1>4, <2>2 DEF ContactsInv
    <3>2. Events("accepted") \subseteq F
      BY <1>3
    <3>3. QED
      BY <1>1, <1>2, <3>1, <3>2, FriendIdle
  <2>3. QED
    BY <2>1, <2>2
<1>5. QED
  BY <1>2, <1>3, <1>4 DEF ContactsInv

(* The user goes to a tab or a page. *)
LEMMA ContactsMoves ==
    ASSUME MaxChanges \in Nat, Past, ContactsInv, RemovedBefore, Moving
    PROVE  ContactsInv' /\ RemovedBefore'
<1>1. now \in Nat
  BY DEF Past, ListsPast
<1>2. CASE Connected \/ Lost
  <2>1. UNCHANGED <<rows, channel, view, lists, calls, history>>
    BY <1>2 DEF Connected, Lost
  <2>2. ContactsInv'
    BY <1>1, <2>1, ContactsSame DEF history, lists, Events, Answered, Answers, Asked, Of
  <2>3. RemovedBefore'
    BY <2>1 DEF history, RemovedBefore, Answered, Of
  <2>4. QED
    BY <2>2, <2>3
<1>3. CASE EnterChat \/ OpenFriends
  <2>1. /\ DOMAIN calls \subseteq DOMAIN calls' /\ Asked("friends")' # {}
        /\ \A c \in DOMAIN calls' : c \in DOMAIN calls \/ c.stage = "asked"
        /\ \A c \in DOMAIN calls : c.by # "tab"
        /\ UNCHANGED <<rows, history>>
    BY <1>3, PastEnters
  <2>2. Answers("friends")' = {} /\ Answered({"remove"})' = Answered({"remove"})
    BY <2>1, CallsAsked DEF Answers
  <2>3. ContactsInv'
    BY <2>1, <2>2, FriendAsksFirst DEF ContactsInv
  <2>4. RemovedBefore'
    BY <2>1, <2>2 DEF history, RemovedBefore, Of
  <2>5. QED
    BY <2>3, <2>4
<1>4. CASE OpenSettings \/ OpenConversations \/ LogsOut
  <2>1. ContactsInv' /\ rows' = rows
    BY <1>4, PastLeaves DEF ContactsInv, OpenSettings, OpenConversations, LogsOut
  <2>2. PICK by \in {"gone", "chat"} : calls' = Orphaned(by) /\ now' = now
    BY <1>4 DEF OpenSettings, OpenConversations, LogsOut, Forgets
  <2>3. ASSUME NEW c \in Answered({"remove"})'
        PROVE  \E d \in Answered({"remove"}) : c.who = d.who /\ c.n = d.n
    <3>1. c \in DOMAIN Orphaned(by) /\ c.op = "remove" /\ c.stage = "answered"
      BY <2>2, <2>3 DEF Answered
    <3>2. PICK d \in DOMAIN calls : c = Left(by, d)
      BY <3>1, OrphanedDomain
    <3>3. d \in Call
      BY DEF Past, CallsPast, GoodCall
    <3>4. c.op = d.op /\ c.stage = d.stage /\ c.who = d.who /\ c.n = d.n
      BY <3>2, <3>3 DEF Left, Call
    <3>5. QED
      BY <3>1, <3>4 DEF Answered
  <2>4. RemovedBefore'
    BY <1>1, <2>1, <2>2, <2>3, RemovedBeforeNext DEF Of
  <2>5. QED
    BY <2>1, <2>4
<1>5. QED
  BY <1>2, <1>3, <1>4 DEF Moving

(* What the server does for the user. *)
LEMMA ContactsServes ==
    ASSUME MaxChanges \in Nat, Past, ContactsInv, RemovedBefore, NEW c \in DOMAIN calls,
           ServeRead(c) \/ ServeWrite(c) \/ ServeRefuses(c)
    PROVE  ContactsInv' /\ RemovedBefore'
<1>1. /\ now \in Nat /\ c.stage = "asked" /\ view' = view
      /\ contacts' = contacts /\ newest' = newest /\ doubt' = doubt
  BY DEF Past, ListsPast, ServeRead, ServeWrite, ServeRefuses, Change, client, lists, history
<1>2. /\ PastFriends(Events("accepted"), Answers("friends"), Answered({"remove"}),
                     newest["contacts"], now)
      /\ Numbered(Answers("friends"), now) /\ Numbered(Answered({"remove"}), now)
  BY PastOfFriends
<1>3. CASE ServeRead(c)
  <2>1. PICK d \in DOMAIN calls' :
              /\ d.op = c.op /\ d.by = c.by /\ d.stage = "answered" /\ d.data = Read(c.op)
              /\ d.n = now
              /\ DOMAIN calls \ {c} \subseteq DOMAIN calls'
              /\ DOMAIN calls' \subseteq DOMAIN calls \union {d}
    BY <1>3, ReadServed
  <2>2. rows' = rows /\ channel' = channel /\ now' = now /\ c.op \in Reads
    BY <1>3 DEF ServeRead, history
  <2>3. /\ Events("accepted")' = Events("accepted") /\ Of("friend", rows)' = Of("friend", rows)
        /\ Answered({"remove"})' = Answered({"remove"})
    BY <1>1, <2>1, <2>2, CallsServed DEF Reads, Events, Of
  <2>4. RemovedBefore'
    BY <2>2, <2>3 DEF RemovedBefore
  <2>5. CASE c.op = "friends" /\ c.by = "tab"
    <3>1. Answers("friends")' = Answers("friends") \union {d}
      BY <1>1, <2>1, <2>5, CallsServed
    <3>2. d.n = now /\ Of("friend", d.data) = Of("friend", rows)
      BY <2>1, <2>5, ReadRows
    <3>3. PICK B : B = Answers("friends")'
      OBVIOUS
    <3>4. B = Answers("friends") \union {d}
      BY <3>1, <3>3
    <3>5. ASSUME view = "friends", NEW u \in Of("friend", rows)
          PROVE  FriendInv(u, Events("accepted"), B, Answered({"remove"}),
                           Asked("friends")', contacts, newest["contacts"], doubt, now)
      <4>1. FriendInv(u, Events("accepted"), Answers("friends"), Answered({"remove"}),
                      Asked("friends"), contacts, newest["contacts"], doubt, now)
        BY <3>5 DEF ContactsInv
      <4>2. \A w \in Answered({"remove"}) : w.who = u => w.n < now
        BY <3>5 DEF RemovedBefore
      <4>3. u \in Of("friend", d.data)
        BY <3>2, <3>5
      <4>4. QED
        BY <1>2, <3>2, <3>4, <4>1, <4>2, <4>3, FriendServed
    <3>6. ContactsInv'
      BY <1>1, <2>2, <2>3, <3>3, <3>5 DEF ContactsInv
    <3>7. QED
      BY <2>4, <3>6
  <2>6. CASE ~(c.op = "friends" /\ c.by = "tab")
    <3>1. Answers("friends")' = Answers("friends") /\ Asked("friends")' = Asked("friends")
      BY <1>1, <2>1, <2>6, CallsServed
    <3>2. ContactsInv'
      BY <1>1, <2>2, <2>3, <3>1, ContactsSame
    <3>3. QED
      BY <2>4, <3>2
  <2>7. QED
    BY <2>5, <2>6
<1>4. CASE ServeRefuses(c)
  <2>1. rows' = rows /\ channel' = channel /\ now' = now /\ c.op # "friends"
    BY <1>4 DEF ServeRefuses, history, Reads
  <2>2. DOMAIN calls \ {c} \subseteq DOMAIN calls' /\ DOMAIN calls' \subseteq DOMAIN calls
    BY <1>4, CallTaken
  <2>3. /\ Answered({"remove"})' = Answered({"remove"})
        /\ Answers("friends")' = Answers("friends") /\ Asked("friends")' = Asked("friends")
    BY <1>1, <2>1, <2>2, CallsLeave
  <2>4. ContactsInv'
    BY <1>1, <2>1, <2>3, ContactsSame DEF Events, Of
  <2>5. RemovedBefore'
    BY <2>1, <2>3 DEF RemovedBefore, Of
  <2>6. QED
    BY <2>4, <2>5
<1>5. CASE ServeWrite(c)
  <2>1. PICK d \in DOMAIN calls' :
              /\ d.op = c.op /\ d.by = c.by /\ d.who = c.who /\ d.stage = "answered"
              /\ d.n = now' /\ now' = now + 1
              /\ DOMAIN calls \ {c} \subseteq DOMAIN calls'
              /\ DOMAIN calls' \subseteq DOMAIN calls \union {d}
    BY <1>5, WriteServed
  <2>2. c.op \in {"send", "accept", "reject", "remove"}
    BY <1>5, WriteChanges
  <2>3. Answers("friends")' = Answers("friends") /\ Asked("friends")' = Asked("friends")
    BY <1>1, <2>1, <2>2, CallsServed
  <2>4. CASE c.op = "accept"
    <3>1. PICK e \in Event : /\ e.type = "accepted" /\ e.who = c.who
                             /\ e.n = now' /\ channel' = channel \o <<e>>
      BY <1>5, <2>4, WriteTells
    <3>2. Events("accepted")' = Events("accepted") \union {e}
      <4>1. channel \in Seq(Event)
        BY DEF Past, EventsPast
      <4>2. Events(e.type)' = Events(e.type) \union {e}
        BY <3>1, <4>1, EventsAppend
      <4>3. QED
        BY <3>1, <4>2
    <3>3. Of("friend", rows)' = Of("friend", rows) \union {c.who}
      BY <1>5, <2>4, WriteChanges
    <3>4. Answered({"remove"})' = Answered({"remove"})
      BY <1>1, <2>1, <2>4, CallsServed
    <3>5. RemovedBefore'
      BY <1>1, <2>1, <3>4, RemovedBeforeNext
    <3>6. ContactsInv'
      BY <1>1, <1>2, <2>1, <2>3, <3>1, <3>2, <3>3, <3>4, ContactsMade
    <3>7. QED
      BY <3>5, <3>6
  <2>5. CASE c.op \in {"send", "reject"}
    <3>1. channel' = channel /\ Of("friend", rows)' = Of("friend", rows)
      BY <1>5, <2>5, WriteTells, WriteChanges
    <3>2. Answered({"remove"})' = Answered({"remove"})
      BY <1>1, <2>1, <2>5, CallsServed
    <3>3. RemovedBefore'
      BY <1>1, <2>1, <3>2, RemovedBeforeNext
    <3>4. Events("accepted")' = Events("accepted")
      BY <3>1 DEF Events
    <3>5. ContactsInv'
      BY <1>1, <2>1, <2>3, <3>1, <3>2, <3>4, ContactsSame
    <3>6. QED
      BY <3>3, <3>5
  <2>6. CASE c.op = "remove"
    <3>1. channel' = channel /\ Of("friend", rows)' = Of("friend", rows) \ {c.who}
      BY <1>5, <2>6, WriteTells, WriteChanges
    <3>2. Answered({"remove"})' = Answered({"remove"}) \union {d}
      BY <1>1, <2>1, <2>6, CallsServed
    <3>3. RemovedBefore'
      BY <1>1, <2>1, <3>1, <3>2, RemovedBeforeNext
    <3>4. Events("accepted")' = Events("accepted")
      BY <3>1 DEF Events
    <3>5. ASSUME view = "friends", NEW u \in Of("friend", rows), u # c.who
          PROVE  FriendInv(u, Events("accepted"), Answers("friends"), Answered({"remove"}) \union {d},
                           Asked("friends"), contacts, newest["contacts"], doubt, now + 1)
      <4>1. FriendInv(u, Events("accepted"), Answers("friends"), Answered({"remove"}),
                      Asked("friends"), contacts, newest["contacts"], doubt, now)
        BY <3>5 DEF ContactsInv
      <4>2. PICK X : X = Answered({"remove"}) \union {d}
        OBVIOUS
      <4>3. \A w \in X : w \in Answered({"remove"}) \/ w.who # u
        BY <2>1, <3>5, <4>2
      <4>4. QED
        BY <1>1, <1>2, <4>1, <4>2, <4>3, FriendIdle
    <3>6. ContactsInv'
      BY <1>1, <2>1, <2>3, <3>1, <3>2, <3>4, <3>5 DEF ContactsInv
    <3>7. QED
      BY <3>3, <3>6
  <2>7. QED
    BY <2>2, <2>4, <2>5, <2>6
<1>6. QED
  BY <1>3, <1>4, <1>5

(* What the answers do to the list. *)
LEMMA ContactsAnswers ==
    ASSUME MaxChanges \in Nat, Past, ContactsInv, RemovedBefore, NEW c \in DOMAIN calls,
           \/ ListsAnswer(c) \/ CountAnswer(c) \/ FriendsAnswer(c)
           \/ SendAnswer(c) \/ RespondAnswer(c) \/ RemoveAnswer(c)
    PROVE  ContactsInv' /\ RemovedBefore'
<1>1. /\ now \in Nat /\ now' = now /\ UNCHANGED <<rows, channel, client>>
      /\ c.n \in Nat /\ c.n <= now /\ c.stage = "answered" /\ newest \in [Lists -> Nat]
      /\ DOMAIN calls \ {c} \subseteq DOMAIN calls' /\ DOMAIN calls' \subseteq DOMAIN calls
  BY PastAnswer DEF Past, ListsPast
<1>2. PastFriends(Events("accepted"), Answers("friends"), Answered({"remove"}),
                  newest["contacts"], now)
  BY PastOfFriends
<1>3. /\ view' = view /\ Events("accepted")' = Events("accepted")
      /\ Of("friend", rows)' = Of("friend", rows)
  BY <1>1 DEF client, Events, Of
<1>4. Asked("friends")' = Asked("friends")
  BY <1>1, CallsLeave
<1>5. RemovedBefore'
  <2>1. Answered({"remove"})' \subseteq Answered({"remove"})
    BY <1>1, CallsLeave
  <2>2. QED
    BY <1>1, <1>3, <2>1 DEF RemovedBefore
<1>6. \A u \in Of("friend", rows) : view = "friends" =>
         FriendInv(u, Events("accepted"), Answers("friends"), Answered({"remove"}),
                   Asked("friends"), contacts, newest["contacts"], doubt, now)
  BY DEF ContactsInv
<1>7. CASE FriendsAnswer(c) /\ c.by = "tab"
  <2>1. /\ c.op = "friends" /\ contacts' = Of("friend", c.data)
        /\ Hears({"contacts"}, c.n, TRUE)
    BY <1>7 DEF FriendsAnswer
  <2>2. /\ newest'["contacts"] >= newest["contacts"] /\ newest'["contacts"] >= c.n
        /\ newest'["contacts"] = newest["contacts"] \/ newest'["contacts"] = c.n
        /\ "contacts" \in doubt' <=> c.n < newest["contacts"]
    <3>1. PICK ls : ls = {"contacts"}
      OBVIOUS
    <3>2. Hears(ls, c.n, TRUE) /\ ls \in SUBSET Lists /\ "contacts" \in ls
      BY <2>1, <3>1 DEF Lists
    <3>3. QED
      BY <1>1, <3>2, HearsEffect
  <2>3. /\ c \in Answers("friends") /\ Answers("friends") \ {c} \subseteq Answers("friends")'
        /\ Answers("friends")' \subseteq Answers("friends")
        /\ Answered({"remove"})' = Answered({"remove"})
    BY <1>1, <1>7, <2>1, CallsLeave DEF Answers
  <2>4. ASSUME view = "friends", NEW u \in Of("friend", rows)
        PROVE  FriendInv(u, Events("accepted"), Answers("friends")', Answered({"remove"}),
                         Asked("friends"), Of("friend", c.data), newest'["contacts"], doubt', now)
    BY <1>2, <1>6, <2>2, <2>3, <2>4, FriendAnswered
  <2>5. ContactsInv'
    BY <1>1, <1>3, <1>4, <2>1, <2>3, <2>4 DEF ContactsInv
  <2>6. QED
    BY <1>5, <2>5
<1>8. CASE RemoveAnswer(c)
  <2>1. c \in Answered({"remove"}) /\ c.op = "remove"
    BY <1>1, <1>8 DEF RemoveAnswer, Answered
  <2>2. /\ Answered({"remove"}) \ {c} \subseteq Answered({"remove"})'
        /\ Answered({"remove"})' \subseteq Answered({"remove"})
        /\ Answers("friends")' = Answers("friends")
    BY <1>1, <2>1, CallsLeave
  <2>3. CASE c.by = "tab"
    <3>1. contacts' = contacts \ {c.who} /\ Hears({"contacts"}, c.n, FALSE)
      BY <1>8, <2>3 DEF RemoveAnswer
    <3>2. /\ newest'["contacts"] >= newest["contacts"] /\ newest'["contacts"] >= c.n
          /\ newest'["contacts"] = newest["contacts"] \/ newest'["contacts"] = c.n
          /\ "contacts" \in doubt' <=> "contacts" \in doubt \/ c.n <= newest["contacts"]
      <4>1. PICK ls : ls = {"contacts"}
        OBVIOUS
      <4>2. Hears(ls, c.n, FALSE) /\ ls \in SUBSET Lists /\ "contacts" \in ls
        BY <3>1, <4>1 DEF Lists
      <4>3. QED
        BY <1>1, <4>2, HearsEffect
    <3>3. ASSUME view = "friends", NEW u \in Of("friend", rows)
          PROVE  FriendInv(u, Events("accepted"), Answers("friends"), Answered({"remove"})',
                           Asked("friends"), contacts \ {c.who}, newest'["contacts"], doubt', now)
      BY <1>2, <1>6, <2>1, <2>2, <3>2, <3>3, FriendRemoved
    <3>4. ContactsInv'
      BY <1>1, <1>3, <1>4, <2>2, <3>1, <3>3 DEF ContactsInv
    <3>5. QED
      BY <1>5, <3>4
  <2>4. CASE c.by # "tab"
    <3>1. contacts' = contacts /\ Misses({"contacts"}, c.n)
      BY <1>8, <2>4 DEF RemoveAnswer
    <3>2. view = "friends" =>
             /\ newest'["contacts"] >= newest["contacts"]
             /\ newest'["contacts"] \in Nat /\ "contacts" \in doubt'
      <4>1. PICK ls : ls = {"contacts"}
        OBVIOUS
      <4>2. Misses(ls, c.n) /\ ls \in SUBSET Lists /\ "contacts" \in ls
        BY <3>1, <4>1 DEF Lists
      <4>3. QED
        BY <1>1, <4>2, MissesEffect
    <3>3. ASSUME view = "friends", NEW u \in Of("friend", rows)
          PROVE  FriendInv(u, Events("accepted"), Answers("friends"), Answered({"remove"})',
                           Asked("friends"), contacts, newest'["contacts"], doubt', now)
      BY <1>2, <1>6, <2>2, <3>2, <3>3, FriendMissed
    <3>4. ContactsInv'
      BY <1>1, <1>3, <1>4, <2>2, <3>1, <3>3 DEF ContactsInv
    <3>5. QED
      BY <1>5, <3>4
  <2>5. QED
    BY <2>3, <2>4
<1>9. CASE (FriendsAnswer(c) /\ c.by # "tab") \/ ListsAnswer(c) \/ CountAnswer(c) \/ SendAnswer(c) \/ RespondAnswer(c)
  <2>1. /\ contacts' = contacts /\ c.op # "remove"
        /\ c.op # "friends" \/ c.by # "tab"
    BY <1>9 DEF FriendsAnswer, ListsAnswer, CountAnswer, SendAnswer, RespondAnswer
  <2>2. /\ Answered({"remove"})' = Answered({"remove"})
        /\ Answers("friends")' = Answers("friends")
    BY <1>1, <2>1, CallsLeave
  <2>3. \/ HearsCounted({"received"}, c.n)
        \/ \E ls \in SUBSET Lists : /\ "contacts" \notin ls
                                    /\ \/ Hears(ls, c.n, TRUE) \/ Hears(ls, c.n, FALSE)
                                       \/ Misses(ls, c.n) \/ UNCHANGED history
    <3>1. /\ {"badge"} \in SUBSET Lists /\ {"received", "sent", "badge"} \in SUBSET Lists
          /\ {"received", "badge"} \in SUBSET Lists /\ {"sent"} \in SUBSET Lists
      BY DEF Lists
    <3>2. \/ Hears({"badge"}, c.n, TRUE) \/ Hears({"received", "sent", "badge"}, c.n, TRUE)
          \/ Hears({"sent"}, c.n, FALSE)
          \/ Misses({"sent"}, c.n) \/ Misses({"received", "badge"}, c.n)
          \/ HearsCounted({"received"}, c.n) \/ UNCHANGED history
      BY <1>9 DEF FriendsAnswer, ListsAnswer, CountAnswer, SendAnswer, RespondAnswer
    <3>3. QED
      BY <3>1, <3>2
  <2>4. newest'["contacts"] = newest["contacts"] /\ ("contacts" \in doubt' <=> "contacts" \in doubt)
    BY <1>1, <2>3, OthersHear, HearsCountedEffect DEF Lists
  <2>5. ContactsInv'
    BY <1>1, <1>3, <1>4, <2>1, <2>2, <2>4, ContactsSame
  <2>6. QED
    BY <1>5, <2>5
<1>10. QED
  BY <1>7, <1>8, <1>9

(* A friendship the other user makes is told as an event, too. *)
LEMMA FriendshipTells ==
    ASSUME MaxChanges \in Nat, Past, NEW u \in Others, OtherAnswers(u, TRUE)
    PROVE  /\ Of("friend", rows)' = Of("friend", rows) \union {u}
           /\ \E a \in Event : /\ a.who = u /\ a.n = now'
                               /\ Events("accepted")' = Events("accepted") \union {a}
<1>1. PICK a : a = Publish("accepted", u)
  OBVIOUS
<1>2. PICK e : e = Publish("response", u)
  OBVIOUS
<1>3. now' \in 1..MaxChanges /\ channel \in Seq(Event) /\ RowsOne
  BY DEF Past, ListsPast, EventsPast, OtherAnswers, Change
<1>4. /\ a \in Event /\ a.type = "accepted" /\ a.who = u /\ a.n = now'
      /\ e \in Event /\ e.type = "response"
  BY <1>1, <1>2, <1>3, Published
<1>5. channel' = (channel \o <<a>>) \o <<e>>
  BY <1>1, <1>2 DEF OtherAnswers
<1>6. Events("accepted")' = Events("accepted") \union {a}
  BY <1>3, <1>4, <1>5, EventsAppendTwo
<1>7. /\ <<"sent", u>> \in rows
      /\ rows' = (rows \ {<<"sent", u>>}) \union {<<"friend", u>>}
  BY DEF OtherAnswers
<1>8. Of("friend", rows)' = Of("friend", rows) \union {u}
  BY <1>3, <1>7, RowsAccept
<1>9. QED
  BY <1>4, <1>6, <1>8

(* A refused request makes no friend. *)
LEMMA RefusalTells ==
    ASSUME MaxChanges \in Nat, Past, NEW u \in Others, OtherAnswers(u, FALSE)
    PROVE  Of("friend", rows)' = Of("friend", rows) /\ Events("accepted")' = Events("accepted")
<1>1. PICK e : e = Publish("response", u)
  OBVIOUS
<1>2. now' \in 1..MaxChanges /\ channel \in Seq(Event) /\ RowsOne
  BY DEF Past, ListsPast, EventsPast, OtherAnswers, Change
<1>3. e \in Event /\ e.type = "response"
  BY <1>1, <1>2, Published
<1>4. channel' = (channel \o <<>>) \o <<e>>
  BY <1>1 DEF OtherAnswers
<1>5. channel' = channel \o <<e>>
  BY <1>2, <1>4
<1>6. Events("accepted")' = Events("accepted")
  BY <1>2, <1>3, <1>5, EventsAppend
<1>7. <<"sent", u>> \in rows /\ rows' = rows \ {<<"sent", u>>}
  BY DEF OtherAnswers
<1>8. Of("friend", rows)' = Of("friend", rows)
  BY <1>2, <1>7, RowsLose
<1>9. QED
  BY <1>6, <1>8

(* The other users and the socket act. *)
LEMMA ContactsElsewhere ==
    ASSUME MaxChanges \in Nat, Past, ContactsInv, RemovedBefore, Elsewhere
    PROVE  ContactsInv' /\ RemovedBefore'
<1>1. /\ now \in Nat /\ now' = now + 1 /\ view' = view /\ calls' = calls /\ contacts' = contacts
      /\ newest' = newest /\ doubt' = doubt
  BY PastElsewhere DEF client, lists, Past, ListsPast
<1>2. /\ Answers("friends")' = Answers("friends") /\ Asked("friends")' = Asked("friends")
      /\ Answered({"remove"})' = Answered({"remove"})
  BY <1>1 DEF Answers, Asked, Answered
<1>3. RemovedBefore'
  BY <1>1, <1>2, RemovedBeforeNext
<1>4. PICK u \in Others : \/ OtherSends(u) \/ OtherAnswers(u, TRUE) \/ OtherAnswers(u, FALSE)
                          \/ OtherRemoves(u)
  BY DEF Elsewhere
<1>5. CASE OtherAnswers(u, TRUE)
  <2>1. PICK a \in Event : /\ a.who = u /\ a.n = now'
                           /\ Events("accepted")' = Events("accepted") \union {a}
    BY <1>5, FriendshipTells
  <2>2. Of("friend", rows)' = Of("friend", rows) \union {a.who}
    BY <1>5, <2>1, FriendshipTells
  <2>3. ContactsInv'
    BY <1>1, <1>2, <2>1, <2>2, ContactsMade
  <2>4. QED
    BY <1>3, <2>3
<1>6. CASE OtherSends(u) \/ OtherAnswers(u, FALSE) \/ OtherRemoves(u)
  <2>1. Of("friend", rows)' \subseteq Of("friend", rows) /\ Events("accepted")' = Events("accepted")
    <3>1. CASE OtherSends(u)
      BY <3>1, SendTells
    <3>2. CASE OtherAnswers(u, FALSE)
      BY <3>2, RefusalTells
    <3>3. CASE OtherRemoves(u)
      BY <3>3, RemovalTellsNobody
    <3>4. QED
      BY <1>6, <3>1, <3>2, <3>3
  <2>2. now' \in Nat /\ now <= now'
    BY <1>1
  <2>3. ContactsInv'
    BY <1>1, <1>2, <2>1, <2>2, ContactsSame
  <2>4. QED
    BY <1>3, <2>3
<1>7. QED
  BY <1>4, <1>5, <1>6

(* The page hears an event. *)
LEMMA ContactsHears ==
    ASSUME MaxChanges \in Nat, Past, SocketInv, ContactsInv, RemovedBefore, Hearing
    PROVE  ContactsInv' /\ RemovedBefore'
<1>1. /\ now \in Nat /\ now' = now /\ UNCHANGED <<rows, client>> /\ newest \in [Lists -> Nat]
      /\ channel # <<>> /\ channel' = Tail(channel) /\ channel \in Seq(Event)
      /\ Head(channel) \in Event /\ Head(channel).n \in Nat /\ Head(channel).n <= now
      /\ DOMAIN calls \subseteq DOMAIN calls'
      /\ \A c \in DOMAIN calls' : c \in DOMAIN calls \/ c.stage = "asked"
  BY PastHears DEF Past, ListsPast, EventsPast
<1>2. /\ Answers("friends")' = Answers("friends") /\ Asked("friends") \subseteq Asked("friends")'
      /\ Answered({"remove"})' = Answered({"remove"})
  BY <1>1, CallsAsked
<1>3. PastFriends(Events("accepted"), Answers("friends"), Answered({"remove"}),
                  newest["contacts"], now)
  BY PastOfFriends
<1>4. view' = view /\ Of("friend", rows)' = Of("friend", rows)
  BY <1>1 DEF client, Of
<1>5. Asked("friends") # {} => Asked("friends")' # {}
  BY <1>2
<1>6. RemovedBefore'
  BY <1>1, <1>2, <1>4 DEF RemovedBefore
<1>7. PICK e : e = Head(channel)
  OBVIOUS
<1>8. CASE e.type # "accepted"
  <2>1. Events("accepted")' = Events("accepted")
    BY <1>1, <1>7, <1>8, EventsTail
  <2>2. /\ contacts' = contacts
        /\ \/ HearsCounted({"received"}, e.n)
           \/ \E ls \in SUBSET Lists : /\ "contacts" \notin ls
                                       /\ \/ Hears(ls, e.n, TRUE) \/ Hears(ls, e.n, FALSE)
                                          \/ Misses(ls, e.n) \/ UNCHANGED history
    <3>1. {"received", "badge"} \in SUBSET Lists /\ {"sent"} \in SUBSET Lists
      BY DEF Lists
    <3>2. CASE FriendRequest
      BY <3>1, <3>2, <1>7 DEF FriendRequest
    <3>3. CASE FriendRequestResponse
      BY <3>1, <3>3, <1>7 DEF FriendRequestResponse
    <3>4. CASE Unheard
      <4>1. (Misses({"sent"}, e.n) \/ Misses({"received", "badge"}, e.n)) /\ contacts' = contacts
        BY <1>1, <1>7, <1>8, <3>4 DEF Unheard, Event, lists
      <4>2. QED
        BY <3>1, <4>1
    <3>5. ~FriendAccepted
      BY <1>7, <1>8 DEF FriendAccepted, Arrives
    <3>6. QED
      BY <3>2, <3>3, <3>4, <3>5 DEF Hearing
  <2>3. newest'["contacts"] = newest["contacts"] /\ ("contacts" \in doubt' <=> "contacts" \in doubt)
    BY <1>1, <1>7, <2>2, OthersHear, HearsCountedEffect DEF Lists
  <2>4. ContactsInv'
    BY <1>1, <1>2, <1>4, <1>5, <2>1, <2>2, <2>3, ContactsSame
  <2>5. QED
    BY <1>6, <2>4
<1>9. CASE e.type = "accepted"
  <2>1. /\ e \in Events("accepted") /\ Events("accepted") \ {e} \subseteq Events("accepted")'
        /\ Events("accepted")' \subseteq Events("accepted")
    BY <1>1, <1>7, <1>9, EventsTail
  <2>2. CASE FriendAccepted /\ view = "friends"
    <3>1. PICK f : f = Asks("friends", Nobody, "tab")
      OBVIOUS
    <3>2. PICK K : K = Times(f)
      OBVIOUS
    <3>3. calls' = calls (+) K /\ contacts' = contacts /\ newest' = newest /\ doubt' = doubt
      BY <2>2, <3>1, <3>2 DEF FriendAccepted, lists, history
    <3>4. handlers = 1
      BY <2>2 DEF FriendAccepted, SocketInv
    <3>5. DOMAIN K = {f}
      BY <3>2, <3>4, TimesDomain, SetDomain
    <3>6. f \in DOMAIN calls'
      BY <3>3, <3>5, PlusDomain
    <3>7. f.op = "friends" /\ f.by = "tab" /\ f.stage = "asked"
      BY <3>1 DEF Asks
    <3>8. Asked("friends")' # {}
      BY <3>6, <3>7 DEF Asked
    <3>9. ASSUME NEW u \in Of("friend", rows)
          PROVE  FriendInv(u, Events("accepted")', Answers("friends"), Answered({"remove"}),
                           Asked("friends")', contacts, newest["contacts"], doubt, now)
      <4>1. FriendInv(u, Events("accepted"), Answers("friends"), Answered({"remove"}),
                      Asked("friends"), contacts, newest["contacts"], doubt, now)
        BY <2>2 DEF ContactsInv
      <4>2. QED
        BY <3>8, <4>1, FriendAsks
    <3>10. ContactsInv'
      BY <1>1, <1>2, <1>4, <3>3, <3>9 DEF ContactsInv
    <3>11. QED
      BY <1>6, <3>10
  <2>3. CASE Unheard /\ view = "friends"
    <3>1. contacts' = contacts /\ Misses({"contacts"}, e.n)
      BY <1>7, <1>9, <2>3 DEF Unheard, lists
    <3>2. /\ newest'["contacts"] >= newest["contacts"] /\ newest'["contacts"] >= e.n
          /\ newest'["contacts"] \in Nat /\ "contacts" \in doubt'
      <4>1. PICK ls : ls = {"contacts"}
        OBVIOUS
      <4>2. Misses(ls, e.n) /\ ls \in SUBSET Lists /\ "contacts" \in ls
        BY <3>1, <4>1 DEF Lists
      <4>3. QED
        BY <1>1, <1>7, <2>3, <4>2, MissesEffect
    <3>3. \A x \in Events("accepted") : x \in Events("accepted")' \/ newest'["contacts"] >= x.n
      BY <2>1, <3>2
    <3>4. ASSUME NEW u \in Of("friend", rows)
          PROVE  FriendInv(u, Events("accepted")', Answers("friends"), Answered({"remove"}),
                           Asked("friends"), contacts, newest'["contacts"], doubt', now)
      <4>1. FriendInv(u, Events("accepted"), Answers("friends"), Answered({"remove"}),
                      Asked("friends"), contacts, newest["contacts"], doubt, now)
        BY <2>3 DEF ContactsInv
      <4>2. QED
        BY <1>3, <3>2, <3>3, <4>1, FriendMissed
    <3>5. Asked("friends")' = Asked("friends")
      BY <2>3 DEF Unheard, Asked
    <3>6. ContactsInv'
      BY <1>1, <1>2, <1>4, <3>1, <3>4, <3>5 DEF ContactsInv
    <3>7. QED
      BY <1>6, <3>6
  <2>4. FriendAccepted \/ Unheard
    BY <1>7, <1>9 DEF Hearing, FriendRequest, FriendRequestResponse, Arrives
  <2>5. CASE view # "friends"
    BY <1>4, <1>6, <2>5 DEF ContactsInv
  <2>6. QED
    BY <2>2, <2>3, <2>4, <2>5
<1>10. QED
  BY <1>8, <1>9
--------------------------------------------------------------------------------
(* What is inductive: the socket, the numbers, and what each list is to hear. *)
ListsInv == SocketInv /\ Past /\ ReceivedInv /\ SentInv /\ ContactsInv /\ RemovedBefore

(* At the beginning there is no page, and no news. *)
LEMMA ListsInvInit == Init => ListsInv
<1> SUFFICES ASSUME Init PROVE ListsInv
    OBVIOUS
<1>1. DOMAIN calls = {}
  BY DEF Init, EmptyBag, SetToBag
<1>2. SocketInv /\ ReceivedInv /\ SentInv /\ ContactsInv
  BY DEF Init, SocketInv, ReceivedInv, SentInv, ContactsInv
<1>3. CallsPast /\ TabCalls /\ RemovedBefore
  BY <1>1 DEF CallsPast, TabCalls, RemovedBefore, Answered
<1>4. RowsOne
  BY DEF Init, RowsOne
<1>5. EventsPast
  BY DEF Init, EventsPast
<1>6. ListsPast
  BY BoundsAssumption DEF Init, ListsPast
<1>7. QED
  BY <1>2, <1>3, <1>4, <1>5, <1>6 DEF ListsInv, Past

(* Every step keeps Past. *)
LEMMA PastNext ==
    ASSUME MaxChanges \in Nat, Past, SocketInv, [Next]_vars
    PROVE  Past'
<1>1. CASE Moving
  <2>1. CASE Connected \/ Lost
    <3>1. UNCHANGED <<rows, channel, view, lists, calls, history>>
      BY <2>1 DEF Connected, Lost
    <3>2. QED
      BY <3>1, PastCalls
  <2>2. QED
    BY <1>1, <2>1, PastEnters, PastLeaves DEF Moving
<1>2. CASE Calling
  <2>1. CASE \E op \in {"send", "accept", "reject", "remove"}, u \in Others : User(op, u)
    BY <2>1, PastUser
  <2>2. CASE \E c \in DOMAIN calls : ServeRead(c) \/ ServeRefuses(c)
    BY <2>2, PastReadServed
  <2>3. CASE \E c \in DOMAIN calls : ServeWrite(c)
    BY <2>3, PastWrite
  <2>4. CASE \E c \in DOMAIN calls : \/ ListsAnswer(c) \/ CountAnswer(c) \/ FriendsAnswer(c)
                                     \/ SendAnswer(c) \/ RespondAnswer(c) \/ RemoveAnswer(c)
    BY <2>4, PastAnswer
  <2>5. QED
    BY <1>2, <2>1, <2>2, <2>3, <2>4 DEF Calling
<1>3. CASE Hearing
  BY <1>3, PastHears
<1>4. CASE Elsewhere
  BY <1>4, PastElsewhere
<1>5. CASE UNCHANGED vars
  BY <1>5, PastCalls DEF vars, client
<1>6. QED
  BY <1>1, <1>2, <1>3, <1>4, <1>5 DEF Next

(* When nothing moves the lists stay, and so does what they are to hear. *)
LEMMA ListsStay ==
    ASSUME MaxChanges \in Nat, Past, ReceivedInv, SentInv, ContactsInv, RemovedBefore,
           UNCHANGED <<rows, channel, view, onResponse, lists, history>>,
           DOMAIN calls \subseteq DOMAIN calls',
           \A c \in DOMAIN calls' : c \in DOMAIN calls \/ c.stage = "asked"
    PROVE  ReceivedInv' /\ SentInv' /\ ContactsInv' /\ RemovedBefore'
<1>1. now \in Nat /\ now' = now /\ newest' = newest /\ doubt' = doubt
  BY DEF Past, ListsPast, history
<1>2. received' = received /\ sent' = sent /\ contacts' = contacts
  BY DEF lists
<1>3. /\ \A kind : Of(kind, rows)' = Of(kind, rows)
      /\ \A type : Events(type)' = Events(type)
  BY DEF Of, Events
<1>4. /\ \A ops : Answered(ops)' = Answered(ops)
      /\ \A op : Answers(op)' = Answers(op)
      /\ \A op : Asked(op) \subseteq Asked(op)'
  BY CallsAsked
<1>5. ReceivedInv'
  <2>1. Asked("lists") # {} => Asked("lists")' # {}
    BY <1>4
  <2>2. QED
    BY <1>1, <1>2, <1>3, <1>4, <2>1, ReceivedSame
<1>6. SentInv'
  <2>1. Asked("lists") # {} => Asked("lists")' # {}
    BY <1>4
  <2>2. QED
    BY <1>1, <1>2, <1>3, <1>4, <2>1, SentSame
<1>7. ContactsInv'
  <2>1. Asked("friends") # {} => Asked("friends")' # {}
    BY <1>4
  <2>2. QED
    BY <1>1, <1>2, <1>3, <1>4, <2>1, ContactsSame
<1>8. RemovedBefore'
  BY <1>1, <1>3, <1>4 DEF RemovedBefore
<1>9. QED
  BY <1>5, <1>6, <1>7, <1>8

(* Every step keeps the invariant. *)
LEMMA ListsInvInductive == ListsInv /\ [Next]_vars => ListsInv'
<1> SUFFICES ASSUME ListsInv, [Next]_vars
             PROVE  ListsInv'
    OBVIOUS
<1>1. MaxChanges \in Nat
  BY BoundsAssumption
<1>2. SocketInv /\ Past /\ ReceivedInv /\ SentInv /\ ContactsInv /\ RemovedBefore
  BY DEF ListsInv
<1>3. SocketInv' /\ Past'
  BY <1>1, <1>2, SocketInvInductive, PastNext
<1>4. CASE Moving
  BY <1>1, <1>2, <1>3, <1>4, ReceivedMoves, SentMoves, ContactsMoves DEF ListsInv
<1>5. CASE Calling
  <2>1. CASE \E op \in {"send", "accept", "reject", "remove"}, u \in Others : User(op, u)
    <3>1. PICK op \in {"send", "accept", "reject", "remove"}, u \in Others : User(op, u)
      BY <2>1
    <3>2. /\ UNCHANGED <<rows, channel, client, lists, history>>
          /\ DOMAIN calls \subseteq DOMAIN calls'
          /\ \A c \in DOMAIN calls' : c \in DOMAIN calls \/ c.stage = "asked"
      BY <1>1, <1>2, <3>1, PastUser
    <3>3. QED
      BY <1>1, <1>2, <1>3, <3>2, ListsStay DEF ListsInv, client
  <2>2. CASE \E c \in DOMAIN calls : ServeRead(c) \/ ServeWrite(c) \/ ServeRefuses(c)
    BY <1>1, <1>2, <1>3, <2>2, ReceivedServes, SentServes, ContactsServes DEF ListsInv
  <2>3. CASE \E c \in DOMAIN calls : \/ ListsAnswer(c) \/ CountAnswer(c) \/ FriendsAnswer(c)
                                     \/ SendAnswer(c) \/ RespondAnswer(c) \/ RemoveAnswer(c)
    BY <1>1, <1>2, <1>3, <2>3, ReceivedAnswers, SentAnswers, ContactsAnswers DEF ListsInv
  <2>4. QED
    BY <1>5, <2>1, <2>2, <2>3 DEF Calling
<1>6. CASE Hearing
  BY <1>1, <1>2, <1>3, <1>6, ReceivedHears, SentHears, ContactsHears DEF ListsInv
<1>7. CASE Elsewhere
  BY <1>1, <1>2, <1>3, <1>7, ReceivedElsewhere, SentElsewhere, ContactsElsewhere DEF ListsInv
<1>8. CASE UNCHANGED vars
  BY <1>1, <1>2, <1>3, <1>8, ListsStay DEF vars, client, ListsInv
<1>9. QED
  BY <1>4, <1>5, <1>6, <1>7, <1>8 DEF Next

(* When all is quiet there is no news. *)
LEMMA QuietNews ==
    ASSUME Quiet
    PROVE  /\ \A type : Events(type) = {}
           /\ \A ops : Answered(ops) = {}
           /\ \A op : Answers(op) = {} /\ Asked(op) = {}
<1>1. DOMAIN calls = {}
  BY DEF Quiet, EmptyBag, SetToBag
<1>2. 1..Len(channel) = {}
  BY DEF Quiet
<1>3. QED
  BY <1>1, <1>2 DEF Events, Answered, Answers, Asked

(* A list that is to hear nothing more is the rows. *)
LEMMA ListSettles ==
    ASSUME NEW kind, NEW R, NEW list, NEW N, NEW D, NEW t,
           ListInv({}, {}, {}, {}, kind, R, list, N, D, t), kind \notin D
    PROVE  list = SetToBag(R)
<1>1. ListLeads({}, {}, list, R, N, t)
  BY DEF ListInv
<1>2. \A u : u \in DOMAIN list <=> u \in R
  BY <1>1, LeadsNowhere DEF ListLeads
<1>3. DOMAIN list = R
  BY <1>2
<1>4. QED
  BY <1>1, <1>3 DEF ListLeads

(* Whatever answers and events cross, and in whatever order they come: once all   *)
(* have come, the incoming requests on the page are those that wait, each once,   *)
(* unless the list was told of an older change after a newer one or missed one.   *)
THEOREM ReceivedCorrect == Spec => []ReceivedExact
<1>1. ListsInv => ReceivedExact
  <2>1. SUFFICES ASSUME ListsInv, Quiet, view = "friends", "received" \notin doubt
                 PROVE  received = SetToBag(Of("received", rows))
    BY DEF ReceivedExact
  <2>2. ListInv({}, {}, {}, {}, "received", Of("received", rows), received, newest["received"], doubt, now)
    BY <2>1, QuietNews DEF ListsInv, ReceivedInv
  <2>3. QED
    BY <2>1, <2>2, ListSettles
<1>2. QED
  BY <1>1, ListsInvInit, ListsInvInductive, PTL DEF Spec

(* Likewise the outgoing requests, on a page that listens to the answers. *)
THEOREM SentCorrect == Spec => []SentExact
<1>1. ListsInv => SentExact
  <2>1. SUFFICES ASSUME ListsInv, Quiet, view = "friends", onResponse, "sent" \notin doubt
                 PROVE  sent = SetToBag(Of("sent", rows))
    BY DEF SentExact
  <2>2. ListInv({}, {}, {}, {}, "sent", Of("sent", rows), sent, newest["sent"], doubt, now)
    BY <2>1, QuietNews DEF ListsInv, SentInv
  <2>3. QED
    BY <2>1, <2>2, ListSettles
<1>2. QED
  BY <1>1, ListsInvInit, ListsInvInductive, PTL DEF Spec

(* A new friend is listed, whoever accepted and whatever else was under way: the   *)
(* event makes the list ask again, and no older answer hides what a newer one told. *)
THEOREM ContactsCorrect == Spec => []ContactsComplete
<1>1. ListsInv => ContactsComplete
  <2>1. SUFFICES ASSUME ListsInv, Quiet, view = "friends", "contacts" \notin doubt,
                        NEW u \in Of("friend", rows)
                 PROVE  u \in contacts
    BY DEF ContactsComplete
  <2>2. FriendInv(u, {}, {}, {}, {}, contacts, newest["contacts"], doubt, now)
    BY <2>1, QuietNews DEF ListsInv, ContactsInv
  <2>3. QED
    BY <2>1, <2>2 DEF FriendInv, Listed
<1>2. QED
  BY <1>1, ListsInvInit, ListsInvInductive, PTL DEF Spec
================================================================================
