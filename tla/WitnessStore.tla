----------------------------- MODULE WitnessStore -----------------------------
(***************************************************************************)
(* What the write plane promises the parties that send it events, with no  *)
(* processes, statements or transactions: a growing set of witnessed facts *)
(* and a growing set of answers.  A fact is witnessed at most once, it is  *)
(* never withdrawn, nobody is told "accepted" or "duplicate" about a fact  *)
(* that is not in the store, and "accepted" is said of a fact at most once *)
(* however many times, and by however many senders, it is submitted.       *)
(***************************************************************************)

CONSTANTS
    Keys,       \* the dedup keys of facts
    Answers     \* the answers: records with at least the fields key and status

VARIABLES
    facts,      \* the keys witnessed so far
    told        \* the answers given so far

vars == <<facts, told>>

\* The answers that claim the fact is in the store.
Claims(A) == {a \in A : a.status \in {"accepted", "duplicate"}}

\* The answers that claim this very submission put it there.
Accepts(A) == {a \in A : a.status = "accepted"}

TypeOK ==
    /\ facts \subseteq Keys
    /\ told \subseteq Answers

Init ==
    /\ facts = {}
    /\ told = {}

\* A new fact enters the store.
Witness(k) ==
    /\ k \notin facts
    /\ facts' = facts \cup {k}
    /\ UNCHANGED told

\* A party is given the answers of one submission.
Tell ==
    /\ told \subseteq told'
    /\ told' \subseteq Answers
    /\ \A a \in Claims(told') : a.key \in facts
    /\ \A a, b \in Accepts(told') : a.key = b.key => a = b
    /\ UNCHANGED facts

Next ==
    \/ \E k \in Keys : Witness(k)
    \/ Tell

Spec == Init /\ [][Next]_vars
===============================================================================
