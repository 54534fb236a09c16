----------------------------- MODULE Dictionary -----------------------------
(***************************************************************************)
(* What a search tree promises to its owner: a set of pairs in which no    *)
(* key occurs twice, that grows by one pair at a time and never loses one  *)
(* before it is dropped.                                                   *)
(***************************************************************************)
CONSTANT Pairs
VARIABLES entries,  \* the pairs
          open      \* the owner has not dropped it

DInit == entries = {} /\ open = TRUE

DInsert(e) == /\ open /\ UNCHANGED open
              /\ entries' = entries \cup {e}
              /\ \A f \in entries : f[1] # e[1]

DDrop == /\ open /\ open' = FALSE
         /\ entries' = {}

DNext == DDrop \/ \E e \in Pairs : DInsert(e)

dvars == <<entries, open>>

DSpec == DInit /\ [][DNext]_dvars
=============================================================================
