---------------------------- MODULE MCRingBuffer ----------------------------
EXTENDS RingBuffer, TLC

\* Producers are interchangeable, and so are consumers and records.
Symmetry == Permutations(Producers) \cup Permutations(Consumers)
              \cup Permutations(Items)

\* States that no later step can tell apart are one: nobody reads what a call
\* returned, nor the argument of a push that has returned or taken effect.
Argument(t) == IF t \in Consumers \/ PhaseOf(pc[t]) = "push" THEN item[t] ELSE NoItem
View == <<ring, shutdown, lock, pc, [t \in Threads |-> Argument(t)]>>
=============================================================================
