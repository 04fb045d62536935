----------------------------- MODULE BallotBox -----------------------------
(* What a vote promises its voters, without rows, requests or clocks: each *)
(* key (a unit, or a person) holds at most one choice; only its holder may *)
(* change or withdraw it; and the result, announced once, counts exactly   *)
(* what is held at that moment, after which the box is shut.               *)
EXTENDS Naturals, FiniteSets

CONSTANTS Keys, Users, Options

VARIABLES
    word,    \* key -> the last word on it: {} or the set of one
             \* [voter, choice]; no choice: withdrawn by that voter
    result   \* {} or the set of the announced count

box == <<word, result>>

Choice == SUBSET Options

(* Who holds the ballot of the key: nobody, or one voter.                  *)
Holder(k) == {x.voter : x \in {y \in word[k] : y.choice # {}}}

Count ==
    [voters |-> Cardinality({k \in Keys : Holder(k) # {}}),
     counts |-> [o \in Options |->
                    Cardinality({k \in Keys : \E x \in word[k] : o \in x.choice})]]

Init == word = [k \in Keys |-> {}] /\ result = {}

Say(u, k, choice) ==
    /\ result = {}
    /\ word' = [word EXCEPT ![k] = {[voter |-> u, choice |-> choice]}]
    /\ UNCHANGED result

Cast(u, k, choice) == choice # {} /\ Holder(k) \subseteq {u} /\ Say(u, k, choice)

Withdraw(u, k) == Holder(k) = {u} /\ Say(u, k, {})

Announce ==
    /\ result = {}
    /\ result' = {Count}
    /\ UNCHANGED word

Next ==
    \/ \E u \in Users, k \in Keys : Withdraw(u, k)
    \/ \E u \in Users, k \in Keys, c \in Choice : Cast(u, k, c)
    \/ Announce

Spec == Init /\ [][Next]_box
=============================================================================
