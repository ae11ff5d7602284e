---------------------------- MODULE ReviewLedger ----------------------------
(***************************************************************************)
(* What the review of memories promises, without saying how: every item    *)
(* has a confirmed value and a working one.  Proposals move the working    *)
(* value at once and leave the item open; only a reviewer moves the        *)
(* confirmed value, and only to the working one the proposals led to.      *)
(***************************************************************************)
CONSTANTS Items, Values, None

VARIABLES
  confirmed,   (* what a reviewer last agreed to; None if nothing        *)
  working,     (* what agents read; None if the item is not there        *)
  open         (* the items that wait for a decision                     *)

vars == <<confirmed, working, open>>

Init ==
  /\ confirmed = [i \in Items |-> None]
  /\ working = [i \in Items |-> None]
  /\ open = {}

\* A creation, an edit, a deletion, or the return of a deleted creation.
Propose(i, v) ==
  /\ working' = [working EXCEPT ![i] = v]
  /\ open' = open \cup {i}
  /\ UNCHANGED confirmed

\* Decisions in favour of the working state, several at once when the trash is
\* emptied.
Accept(S) ==
  /\ S \subseteq open
  /\ confirmed' = [i \in Items |-> IF i \in S THEN working[i] ELSE confirmed[i]]
  /\ open' = open \ S
  /\ UNCHANGED working

\* A decision for the confirmed state.
Reject(i) ==
  /\ i \in open
  /\ working' = [working EXCEPT ![i] = confirmed[i]]
  /\ open' = open \ {i}
  /\ UNCHANGED confirmed

Next ==
  \/ \E i \in Items, v \in Values \cup {None} : Propose(i, v)
  \/ \E S \in SUBSET Items : Accept(S)
  \/ \E i \in Items : Reject(i)

Spec == Init /\ [][Next]_vars

\* An item nobody has to decide on shows what was confirmed: no unreviewed
\* text is ever left in the working state.
Settled == \A i \in Items \ open : working[i] = confirmed[i]
=============================================================================
