------------------------------- MODULE Chains -------------------------------
(***************************************************************************)
(* Cells linked through a field next, as os_mqueue.c and os_mpool.c link   *)
(* them: next is a function of the cells, p points to the first one, and   *)
(* null ends a chain.                                                      *)
(***************************************************************************)
EXTENDS Naturals, Sequences, SequencesExt, FiniteSets

(* The chain of the cells of s, in their order. *)
Threaded(s, null) ==
    [x \in ToSet(s) |-> LET i == CHOOSE j \in DOMAIN s : s[j] = x
                        IN  IF i = Len(s) THEN null ELSE s[i + 1]]

(* Where the pointer is after i - 1 steps. *)
Follow(next, p, null) ==
    LET at[i \in 1..Cardinality(DOMAIN next)] ==
            IF i = 1 THEN p
            ELSE IF at[i - 1] \in DOMAIN next THEN next[at[i - 1]] ELSE null
    IN  at

(* The cells that p leads to, in their order. *)
Chain(next, p, null) ==
    LET at == Follow(next, p, null)
    IN  [i \in 1..Cardinality({j \in DOMAIN at : at[j] # null}) |-> at[i]]

(* p leads to the cells of s, in their order. *)
Leads(next, p, null, s) ==
    /\ s \in Seq(DOMAIN next) /\ IsInjective(s)
    /\ p = IF s = <<>> THEN null ELSE s[1]
    /\ \A i \in 1..Len(s) : next[s[i]] = IF i = Len(s) THEN null ELSE s[i + 1]
=============================================================================
