------------------------------ MODULE WireItems ------------------------------
(***************************************************************************)
(* Sequences of the items of a message on the wire: what the items of one  *)
(* field say, and messages that come in several parts.                     *)
(***************************************************************************)
EXTENDS Integers, Sequences

IsSequence(s) == Len(s) \in Nat /\ s = [k \in 1 .. Len(s) |-> s[k]]

\* The members of a set of positions up to n, in order.
Ascending(K, n) ==
    LET upto[k \in 0 .. n] ==
          IF k = 0 THEN << >> ELSE IF k \in K THEN Append(upto[k - 1], k) ELSE upto[k - 1]
    IN  upto[n]

\* The members of a sequence at some positions.
Chosen(s, K) == LET order == Ascending(K, Len(s))
                IN  [j \in 1 .. Len(order) |-> s[order[j]]]

\* What the items with a given number say, in their order.
Values(items, number) ==
    LET found == Chosen(items, {k \in 1 .. Len(items) : items[k].number = number})
    IN  [j \in 1 .. Len(found) |-> found[j].value]

\* The items of all parts in which a message came.
Concatenated(parts) ==
    LET upto[k \in 0 .. Len(parts)] ==
          IF k = 0 THEN << >> ELSE upto[k - 1] \o parts[k]
    IN  upto[Len(parts)]

==============================================================================
