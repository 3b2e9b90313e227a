------------------------------ MODULE FriendsAbs ------------------------------
(***************************************************************************)
(* What the friends service promises to a pair of users when every HTTP    *)
(* request takes effect at once: a pair is strangers, or one has asked the *)
(* other, or they are friends.  Friends.tla is the service itself, where a *)
(* request is a sequence of database calls; it keeps the promise to a pair *)
(* until two requests about the pair have got in each other's way.         *)
(***************************************************************************)
CONSTANT Users

VARIABLES asked,    \* <<a, b>>: a has an unanswered request to b
          friends,  \* {a, b}: a and b are friends
          lost      \* {a, b}: nothing is promised of a and b any more

vars == <<asked, friends, lost>>

Init ==
    /\ asked = {}
    /\ friends = {}
    /\ lost = {}

(* a asks b: only between strangers, and only one of the two may be asking *)
Ask(a, b) ==
    /\ a # b
    /\ {a, b} \notin friends \union lost
    /\ <<a, b>> \notin asked
    /\ <<b, a>> \notin asked
    /\ asked' = asked \union {<<a, b>>}
    /\ UNCHANGED <<friends, lost>>

Accept(a, b) ==
    /\ <<a, b>> \in asked
    /\ asked' = asked \ {<<a, b>>}
    /\ friends' = friends \union {{a, b}}
    /\ UNCHANGED lost

(* b refuses, or the server drops b's acceptance half way *)
Decline(a, b) ==
    /\ <<a, b>> \in asked
    /\ asked' = asked \ {<<a, b>>}
    /\ UNCHANGED <<friends, lost>>

Remove(a, b) ==
    /\ {a, b} \in friends
    /\ friends' = friends \ {{a, b}}
    /\ UNCHANGED <<asked, lost>>

(* a request writes under the eyes of another; other pairs notice nothing *)
Lose(a, b) ==
    /\ {a, b} \notin lost
    /\ asked' = asked \ {<<a, b>>, <<b, a>>}
    /\ friends' = friends \ {{a, b}}
    /\ lost' = lost \union {{a, b}}

Next ==
    \E a, b \in Users :
        \/ Ask(a, b)
        \/ Accept(a, b)
        \/ Decline(a, b)
        \/ Remove(a, b)
        \/ Lose(a, b)

Spec == Init /\ [][Next]_vars
===============================================================================
