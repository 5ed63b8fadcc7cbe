-------------------------- MODULE OrderedDelivery ---------------------------
(* What a network that reroutes promises to the host behind it: the packets *)
(* of a flow, numbered in the order of sending, leave it at most once, and  *)
(* in that order while `ordered`. Some may be lost; several may leave in    *)
(* one step. Order that was given up returns only when nothing is left that *)
(* could come late.                                                         *)
EXTENDS Naturals, Sequences, SequencesExt

VARIABLES
    sent,       \* how many packets entered
    out,        \* the packets that left, in the order of leaving
    lost,       \* the packets that were dropped
    ordered     \* what leaves is later than all that left

vars == <<sent, out, lost, ordered>>

Init ==
    /\ sent = 0
    /\ out = << >>
    /\ lost = {}
    /\ ordered = TRUE

Pending == (1..sent) \ (lost \cup ToSet(out))

Enter ==
    /\ sent' = sent + 1
    /\ ordered' \in BOOLEAN
    /\ ordered' => ordered \/ Pending = {}
    /\ UNCHANGED <<out, lost>>

\* One packet or more leave, each for the first time.
Leave ==
    /\ IsStrictPrefix(out, out')
    /\ \A j \in Len(out) + 1..Len(out') :
          /\ out'[j] \in Pending
          /\ \A i \in 1..j - 1 :
                out'[i] # out'[j] /\ (ordered => out'[i] < out'[j])
    /\ ordered' \in {ordered, FALSE}
    /\ UNCHANGED <<sent, lost>>

Drop ==
    \E i \in Pending :
        /\ lost' = lost \cup {i}
        /\ UNCHANGED <<sent, out, ordered>>

GiveUpOrder ==
    /\ ordered' = FALSE
    /\ UNCHANGED <<sent, out, lost>>

Next == Enter \/ Leave \/ Drop \/ GiveUpOrder

Spec == Init /\ [][Next]_vars
=============================================================================
