------------------------- MODULE MessageLevelProofs -------------------------
(***************************************************************************)
(* If the messages inside are unpacked and merged rightly, so is the       *)
(* message, for every schema whose fields have names and numbers of their  *)
(* own.  What recursive functions of sequences compute is proved by        *)
(* induction over their length, stated about sets of lengths.              *)
(***************************************************************************)
EXTENDS MessageLevel, TLAPS, SequenceTheorems, NaturalsInduction, WellFoundedInduction

-----------------------------------------------------------------------------
(* Sequences of items. *)

\* Induction over the natural numbers, for a set of those for which it holds.
LEMMA Induction ==
    ASSUME NEW S, 0 \in S, \A n \in Nat : n \in S => n + 1 \in S
    PROVE  \A n \in Nat : n \in S
<1> DEFINE R == {p \in Nat \X Nat : p[1] < p[2]}
<1>1. IsWellFoundedOn(R, Nat)
  BY NatLessThanWellFounded DEF OpToRel
<1>2. SUFFICES ASSUME Nat \ S # {} PROVE FALSE
  OBVIOUS
<1>3. PICK n \in Nat \ S : \A y \in Nat \ S : ~(<<y, n>> \in R)
  BY <1>1, <1>2, WFMin
<1>4. n - 1 \in Nat /\ n - 1 < n /\ n - 1 + 1 = n
  OBVIOUS
<1>5. n - 1 \in S
  BY <1>3, <1>4
<1> QED BY <1>4, <1>5

\* The same up to a bound.
LEMMA InductionUpto ==
    ASSUME NEW S, NEW p \in Nat, 0 \in S,
           \A n \in Nat : n < p /\ n \in S => n + 1 \in S
    PROVE  \A n \in 0 .. p : n \in S
<1> DEFINE T == {n \in Nat : n <= p => n \in S}
<1>1. 0 \in T
  OBVIOUS
<1>2. \A n \in Nat : n \in T => n + 1 \in T
  OBVIOUS
<1> HIDE DEF T
<1>3. \A n \in Nat : n \in T
  BY <1>1, <1>2, Induction
<1> QED BY <1>3 DEF T

\* The members of a set up to each position.
IsListing(v, K, n) ==
    /\ v[0] = << >>
    /\ \A k \in 1 .. n : v[k] = IF k \in K THEN Append(v[k - 1], k) ELSE v[k - 1]

\* The recursive function that lists the members has the values its equations ask
\* for: such a function exists for every length, so the one chosen is one.
LEMMA AscendingUpto ==
    ASSUME NEW K, NEW n, n \in Nat
    PROVE  \E v : IsListing(v, K, n) /\ Ascending(K, n) = v[n]
<1> DEFINE body(v, k) == IF k = 0 THEN << >> ELSE IF k \in K THEN Append(v[k - 1], k) ELSE v[k - 1]
           S == {m \in Nat : \E v : v = [k \in 0 .. m |-> body(v, k)]}
<1>1. \A v : body(v, 0) = << >>
  OBVIOUS
<1>2. \A v, k : k # 0 => body(v, k) = IF k \in K THEN Append(v[k - 1], k) ELSE v[k - 1]
  OBVIOUS
<1>3. \A v, w, k : k # 0 /\ v[k - 1] = w[k - 1] => body(v, k) = body(w, k)
  OBVIOUS
<1> HIDE DEF body
<1>4. 0 \in S
  <2> DEFINE w == [k \in 0 .. 0 |-> << >>]
  <2>1. \A k \in 0 .. 0 : body(w, k) = << >>
    BY <1>1
  <2>2. w = [k \in 0 .. 0 |-> body(w, k)]
    BY <2>1
  <2> QED BY <2>2
<1>5. ASSUME NEW m \in Nat, m \in S PROVE m + 1 \in S
  <2>1. PICK v : v = [k \in 0 .. m |-> body(v, k)]
    BY <1>5
  <2> DEFINE w == [k \in 0 .. m + 1 |-> body(v, k)]
  <2>2. \A k \in 0 .. m : w[k] = v[k]
    BY <2>1
  <2>3. \A k \in 0 .. m + 1 : k = 0 \/ k - 1 \in 0 .. m
    OBVIOUS
  <2> HIDE DEF w
  <2>4. ASSUME NEW k \in 0 .. m + 1 PROVE body(v, k) = body(w, k)
    <3>1. CASE k = 0
      BY <1>1, <3>1
    <3>2. CASE k # 0
      <4>1. v[k - 1] = w[k - 1]
        BY <2>2, <2>3, <3>2
      <4> QED BY <1>3, <3>2, <4>1
    <3> QED BY <3>1, <3>2
  <2>5. w = [k \in 0 .. m + 1 |-> body(w, k)]
    BY <2>4 DEF w
  <2>6. \E x : x = [k \in 0 .. m + 1 |-> body(x, k)]
    BY <2>5
  <2> QED BY <2>6
<1>6. \E v : v = [k \in 0 .. n |-> body(v, k)]
  <2>1. n \in S
    BY <1>4, <1>5, Induction
  <2> QED BY <2>1
<1> DEFINE u == CHOOSE v : v = [k \in 0 .. n |-> body(v, k)]
<1>7. u = [k \in 0 .. n |-> body(u, k)]
  BY <1>6
<1>8. Ascending(K, n) = u[n]
  BY DEF Ascending, body
<1> HIDE DEF u
<1>9. u[0] = << >>
  BY <1>1, <1>7
<1>10. ASSUME NEW k \in 1 .. n PROVE u[k] = IF k \in K THEN Append(u[k - 1], k) ELSE u[k - 1]
  <2>1. k \in 0 .. n /\ k # 0
    OBVIOUS
  <2>2. u[k] = body(u, k)
    BY <1>7, <2>1
  <2> QED BY <1>2, <2>1, <2>2
<1>11. IsListing(u, K, n)
  BY <1>9, <1>10 DEF IsListing
<1> QED BY <1>8, <1>11

\* Concatenation, without what the provers try to do with it.
Joined(s, t) == s \o t

IsMonoid(W) ==
    /\ << >> \in W
    /\ \A s, t \in W : Joined(s, t) \in W
    /\ \A s \in W : Joined(s, << >>) = s /\ Joined(<< >>, s) = s
    /\ \A r, s, t \in W : Joined(Joined(r, s), t) = Joined(r, Joined(s, t))

\* Sequences over one set can be joined in any grouping.
LEMMA SeqMonoid ==
    ASSUME NEW U PROVE IsMonoid(Seq(U))
<1>1. \A s, t \in Seq(U) : Joined(s, t) \in Seq(U)
  BY ConcatProperties DEF Joined
<1>2. \A s \in Seq(U) : Joined(s, << >>) = s /\ Joined(<< >>, s) = s
  BY ConcatEmptySeq DEF Joined
<1>3. \A r, s, t \in Seq(U) : Joined(Joined(r, s), t) = Joined(r, Joined(s, t))
  BY ConcatAssociative DEF Joined
<1>4. << >> \in Seq(U)
  OBVIOUS
<1> QED BY <1>1, <1>2, <1>3, <1>4 DEF IsMonoid

\* The parts up to each one.
IsConcatenation(v, parts) ==
    /\ v[0] = << >>
    /\ \A k \in 1 .. Len(parts) : v[k] = Joined(v[k - 1], parts[k])

\* The joined parts up to each position exist in the same way.
LEMMA ConcatenatedUpto ==
    ASSUME NEW parts, Len(parts) \in Nat
    PROVE  \E v : IsConcatenation(v, parts) /\ Concatenated(parts) = v[Len(parts)]
<1> DEFINE body(v, k) == IF k = 0 THEN << >> ELSE Joined(v[k - 1], parts[k])
           S == {n \in Nat : \E v : v = [k \in 0 .. n |-> body(v, k)]}
<1>1. \A v : body(v, 0) = << >>
  OBVIOUS
<1>2. \A v, k : k # 0 => body(v, k) = Joined(v[k - 1], parts[k])
  OBVIOUS
<1>3. \A v, w, k : k # 0 /\ v[k - 1] = w[k - 1] => body(v, k) = body(w, k)
  OBVIOUS
<1> HIDE DEF body
<1>4. 0 \in S
  <2> DEFINE w == [k \in 0 .. 0 |-> << >>]
  <2>1. \A k \in 0 .. 0 : body(w, k) = << >>
    BY <1>1
  <2>2. w = [k \in 0 .. 0 |-> body(w, k)]
    BY <2>1
  <2> QED BY <2>2
<1>5. ASSUME NEW n \in Nat, n \in S PROVE n + 1 \in S
  <2>1. PICK v : v = [k \in 0 .. n |-> body(v, k)]
    BY <1>5
  <2> DEFINE w == [k \in 0 .. n + 1 |-> body(v, k)]
  <2>2. \A k \in 0 .. n : w[k] = v[k]
    BY <2>1
  <2>3. \A k \in 0 .. n + 1 : k = 0 \/ k - 1 \in 0 .. n
    OBVIOUS
  <2> HIDE DEF w
  <2>4. ASSUME NEW k \in 0 .. n + 1 PROVE body(v, k) = body(w, k)
    <3>1. CASE k = 0
      BY <1>1, <3>1
    <3>2. CASE k # 0
      <4>1. v[k - 1] = w[k - 1]
        BY <2>2, <2>3, <3>2
      <4> QED BY <1>3, <3>2, <4>1
    <3> QED BY <3>1, <3>2
  <2>5. w = [k \in 0 .. n + 1 |-> body(w, k)]
    BY <2>4 DEF w
  <2>6. \E x : x = [k \in 0 .. n + 1 |-> body(x, k)]
    BY <2>5
  <2> QED BY <2>6
<1>6. \E v : v = [k \in 0 .. Len(parts) |-> body(v, k)]
  <2>1. Len(parts) \in S
    BY <1>4, <1>5, Induction
  <2> QED BY <2>1
<1> DEFINE u == CHOOSE v : v = [k \in 0 .. Len(parts) |-> body(v, k)]
<1>7. u = [k \in 0 .. Len(parts) |-> body(u, k)]
  BY <1>6
<1>8. Concatenated(parts) = u[Len(parts)]
  BY DEF Concatenated, Joined, body
<1> HIDE DEF u
<1>9. u[0] = << >>
  BY <1>1, <1>7
<1>10. ASSUME NEW k \in 1 .. Len(parts) PROVE u[k] = Joined(u[k - 1], parts[k])
  <2>1. k \in 0 .. Len(parts) /\ k # 0
    OBVIOUS
  <2>2. u[k] = body(u, k)
    BY <1>7, <2>1
  <2> QED BY <1>2, <2>1, <2>2
<1>11. IsConcatenation(u, parts)
  BY <1>9, <1>10 DEF IsConcatenation
<1> QED BY <1>8, <1>11

\* What Ascending lists are members of the set, and it lists none only if there
\* is none.
LEMMA AscendingMembers ==
    ASSUME NEW K, NEW n \in Nat
    PROVE  /\ Ascending(K, n) \in Seq({k \in 1 .. n : k \in K})
           /\ (\E k \in 1 .. n : k \in K) => Ascending(K, n) # << >>
<1> DEFINE Q == {k \in 1 .. n : k \in K}
<1>a. PICK v : IsListing(v, K, n) /\ Ascending(K, n) = v[n]
  BY AscendingUpto
<1>1. /\ v[0] = << >>
      /\ \A k \in 1 .. n : v[k] = IF k \in K THEN Append(v[k - 1], k) ELSE v[k - 1]
      /\ Ascending(K, n) = v[n]
  BY <1>a DEF IsListing
<1> DEFINE S == {m \in Nat : /\ v[m] \in Seq(Q)
                             /\ (\E k \in 1 .. m : k \in K) => Len(v[m]) > 0}
<1>2. 0 \in S
  <2>1. v[0] \in Seq(Q) /\ ~(\E k \in 1 .. 0 : k \in K)
    BY <1>1
  <2> QED BY <2>1
<1>3. ASSUME NEW m \in Nat, m < n, m \in S PROVE m + 1 \in S
  <2>1. m + 1 \in 1 .. n /\ m + 1 - 1 = m
    BY <1>3
  <2>2. v[m + 1] = IF m + 1 \in K THEN Append(v[m], m + 1) ELSE v[m]
    BY <1>1, <2>1
  <2>3. CASE m + 1 \in K
    <3>1. m + 1 \in Q
      BY <2>1, <2>3
    <3>2. v[m + 1] = Append(v[m], m + 1)
      BY <2>2, <2>3
    <3> HIDE DEF Q
    <3>3. Append(v[m], m + 1) \in Seq(Q) /\ Len(Append(v[m], m + 1)) > 0
      BY <1>3, <3>1
    <3>4. m + 1 \in Nat
      OBVIOUS
    <3> QED BY <3>2, <3>3, <3>4
  <2>4. CASE m + 1 \notin K
    BY <1>3, <2>2, <2>4
  <2> QED BY <2>3, <2>4
<1> HIDE DEF S
<1>4. \A m \in 0 .. n : m \in S
  BY <1>2, <1>3, InductionUpto
<1>5. n \in S
  BY <1>4
<1> QED BY <1>1, <1>5 DEF S

\* Appending and joining can change places.
LEMMA AppendJoin ==
    ASSUME NEW S, NEW s \in Seq(S), NEW t \in Seq(S), NEW x \in S
    PROVE  s \o Append(t, x) = Append(s \o t, x)
<1>1. Append(t, x) = t \o <<x>> /\ <<x>> \in Seq(S) /\ s \o t \in Seq(S)
  OBVIOUS
<1>2. Append(s \o t, x) = (s \o t) \o <<x>>
  BY <1>1
<1> QED BY <1>1, <1>2, ConcatAssociative

Shifted(b, n) == [j \in 1 .. Len(b) |-> n + b[j]]

\* The same of positions that are moved by n.
LEMMA AppendShifted ==
    ASSUME NEW s \in Seq(Int), NEW b \in Seq(Int), NEW n \in Nat, NEW x \in Int
    PROVE  s \o Shifted(Append(b, x), n) = Append(s \o Shifted(b, n), n + x)
<1>1. Shifted(Append(b, x), n) = Append(Shifted(b, n), n + x)
  BY DEF Shifted
<1>2. Shifted(b, n) \in Seq(Int) /\ n + x \in Int
  BY DEF Shifted
<1> QED BY <1>1, <1>2, AppendJoin

\* Two ranges of positions one after the other.
UpTo(K, n) == {k \in 1 .. n : k \in K}
After(K, n, p) == {k \in 1 .. p : n + k \in K}

\* The members up to n + p are those up to n, then those of the p places behind.
LEMMA AscendingJoin ==
    ASSUME NEW K, NEW n, n \in Nat, NEW p, p \in Nat, NEW r, r = n + p
    PROVE  Ascending(K, r) =
             Ascending(UpTo(K, n), n) \o Shifted(Ascending(After(K, n, p), p), n)
<1> DEFINE L == UpTo(K, n)
           M == After(K, n, p)
<1>l. \A k \in 1 .. n : k \in K <=> k \in L
  BY DEF UpTo
<1>m. \A k \in 1 .. p : n + k \in K <=> k \in M
  BY DEF After
<1> HIDE DEF L, M
<1>0. r \in Nat
  OBVIOUS
<1>a. PICK u : IsListing(u, K, r) /\ Ascending(K, r) = u[r]
  BY <1>0, AscendingUpto
<1>b. PICK v : IsListing(v, L, n) /\ Ascending(L, n) = v[n]
  BY AscendingUpto
<1>c. PICK w : IsListing(w, M, p) /\ Ascending(M, p) = w[p]
  BY AscendingUpto
<1>1. /\ u[0] = << >>
      /\ \A k \in 1 .. n + p : u[k] = IF k \in K THEN Append(u[k - 1], k) ELSE u[k - 1]
      /\ Ascending(K, r) = u[n + p]
  BY <1>a DEF IsListing
<1>2. /\ v[0] = << >>
      /\ \A k \in 1 .. n : v[k] = IF k \in L THEN Append(v[k - 1], k) ELSE v[k - 1]
      /\ Ascending(L, n) = v[n]
  BY <1>b DEF IsListing
<1>3. /\ w[0] = << >>
      /\ \A k \in 1 .. p : w[k] = IF k \in M THEN Append(w[k - 1], k) ELSE w[k - 1]
      /\ Ascending(M, p) = w[p]
  BY <1>c DEF IsListing
<1> DEFINE S == {m \in Nat : u[m] = v[m]}
<1>4. 0 \in S
  BY <1>1, <1>2
<1>5. ASSUME NEW m \in Nat, m < n, m \in S PROVE m + 1 \in S
  <2>1. m + 1 \in 1 .. n /\ m + 1 \in 1 .. n + p /\ m + 1 - 1 = m
    BY <1>5
  <2> QED BY <1>1, <1>2, <1>5, <1>l, <2>1
<1>6. u[n] = v[n]
  <2>1. \A m \in 0 .. n : m \in S
    BY <1>4, <1>5, InductionUpto
  <2> QED BY <2>1
<1>7. v[n] \in Seq(Int)
  <2>1. v[n] \in Seq({k \in 1 .. n : k \in L})
    BY <1>2, AscendingMembers
  <2> QED BY <2>1, SeqMonotonic
<1> DEFINE T == {m \in Nat : w[m] \in Seq(Int) /\ u[n + m] = v[n] \o Shifted(w[m], n)}
<1>8. 0 \in T
  <2>1. Shifted(<< >>, n) = << >> /\ << >> \in Seq(Int)
    BY DEF Shifted
  <2>2. v[n] \o << >> = v[n]
    BY <1>7, ConcatEmptySeq
  <2>3. n + 0 = n
    OBVIOUS
  <2> QED BY <1>3, <1>6, <2>1, <2>2, <2>3
<1>9. ASSUME NEW m \in Nat, m < p, m \in T PROVE m + 1 \in T
  <2>1. /\ m + 1 \in 1 .. p /\ n + (m + 1) \in 1 .. n + p
        /\ m + 1 - 1 = m /\ n + (m + 1) - 1 = n + m /\ m + 1 \in Nat /\ m + 1 \in Int
    BY <1>9
  <2>2. w[m] \in Seq(Int) /\ u[n + m] = v[n] \o Shifted(w[m], n)
    BY <1>9
  <2>3. w[m + 1] = IF m + 1 \in M THEN Append(w[m], m + 1) ELSE w[m]
    BY <1>3, <2>1
  <2>4. u[n + (m + 1)] = IF n + (m + 1) \in K THEN Append(u[n + m], n + (m + 1)) ELSE u[n + m]
    BY <1>1, <2>1
  <2>5. n + (m + 1) \in K <=> m + 1 \in M
    BY <1>m, <2>1
  <2>6. w[m + 1] \in Seq(Int)
    BY <2>2, <2>3
  <2>7. u[n + (m + 1)] = v[n] \o Shifted(w[m + 1], n)
    <3>1. v[n] \o Shifted(Append(w[m], m + 1), n) = Append(v[n] \o Shifted(w[m], n), n + (m + 1))
      BY <1>7, <2>1, <2>2, AppendShifted
    <3> QED BY <2>2, <2>3, <2>4, <2>5, <3>1
  <2> QED BY <2>1, <2>6, <2>7
<1> HIDE DEF T
<1>10. p \in T
  <2>1. \A m \in 0 .. p : m \in T
    BY <1>8, <1>9, InductionUpto
  <2> QED BY <2>1
<1> QED BY <1>1, <1>2, <1>3, <1>10 DEF T, L, M

\* A sequence in the sense of WireItems is one over the set of its members,
LEMMA SequenceIsSeq ==
    ASSUME NEW s, IsSequence(s)
    PROVE  /\ s \in Seq({s[k] : k \in 1 .. Len(s)})
           /\ Len(s) \in Nat /\ DOMAIN s = 1 .. Len(s)
  BY DEF IsSequence

\* and the other way round.
LEMMA SeqIsSequence ==
    ASSUME NEW S, NEW s \in Seq(S)
    PROVE  IsSequence(s)
  BY SeqEqual, LenProperties DEF IsSequence

\* The members of two joined sequences.
LEMMA SequenceJoin ==
    ASSUME NEW s, IsSequence(s), NEW t, IsSequence(t)
    PROVE  /\ Len(s \o t) = Len(s) + Len(t)
           /\ \A k \in 1 .. Len(s) : (s \o t)[k] = s[k]
           /\ \A k \in 1 .. Len(t) : (s \o t)[Len(s) + k] = t[k]
           /\ IsSequence(s \o t)
<1>0. Len(s) \in Nat /\ Len(t) \in Nat
  BY SequenceIsSeq
<1> DEFINE U == {s[k] : k \in 1 .. Len(s)} \cup {t[k] : k \in 1 .. Len(t)}
<1>1. s \in Seq(U) /\ t \in Seq(U)
  <2>1. s \in Seq({s[k] : k \in 1 .. Len(s)}) /\ t \in Seq({t[k] : k \in 1 .. Len(t)})
    BY SequenceIsSeq
  <2>2. {s[k] : k \in 1 .. Len(s)} \subseteq U /\ {t[k] : k \in 1 .. Len(t)} \subseteq U
    OBVIOUS
  <2> HIDE DEF U
  <2> QED BY <2>1, <2>2, SeqMonotonic
<1> HIDE DEF U
<1>2. \A k \in 1 .. Len(t) : Len(s) + k \in 1 .. Len(s) + Len(t) /\ ~(Len(s) + k <= Len(s))
                            /\ Len(s) + k - Len(s) = k
  BY <1>0
<1>3. \A k \in 1 .. Len(s) : k \in 1 .. Len(s) + Len(t) /\ k <= Len(s)
  BY <1>0
<1>4. /\ s \o t \in Seq(U)
      /\ Len(s \o t) = Len(s) + Len(t)
      /\ \A k \in 1 .. Len(s) + Len(t) :
           (s \o t)[k] = IF k <= Len(s) THEN s[k] ELSE t[k - Len(s)]
  BY <1>1, ConcatProperties
<1>5. IsSequence(s \o t)
  BY <1>4, SeqIsSequence
<1>6. \A k \in 1 .. Len(s) : (s \o t)[k] = s[k]
  BY <1>3, <1>4
<1>7. \A k \in 1 .. Len(t) : (s \o t)[Len(s) + k] = t[k]
  BY <1>2, <1>4
<1> QED BY <1>4, <1>5, <1>6, <1>7

\* The values of a field, by the positions of its items.
LEMMA ValuesByPosition ==
    ASSUME NEW items, IsSequence(items), NEW number
    PROVE  LET o == Ascending({k \in 1 .. Len(items) : items[k].number = number}, Len(items))
           IN  /\ o \in Seq(1 .. Len(items))
               /\ Values(items, number) = [j \in 1 .. Len(o) |-> items[o[j]].value]
               /\ \A j \in 1 .. Len(o) : items[o[j]].number = number
<1> DEFINE K == {k \in 1 .. Len(items) : items[k].number = number}
           o == Ascending(K, Len(items))
<1>1. o \in Seq({k \in 1 .. Len(items) : k \in K})
  BY SequenceIsSeq, AscendingMembers
<1>2. {k \in 1 .. Len(items) : k \in K} = K /\ K \subseteq 1 .. Len(items)
  OBVIOUS
<1>3. o \in Seq(K)
  BY <1>1, <1>2
<1> HIDE DEF o
<1>4. o \in Seq(1 .. Len(items)) /\ \A j \in 1 .. Len(o) : o[j] \in K
  BY <1>2, <1>3, SeqMonotonic, ElementOfSeq
<1>5. Len(o) \in Nat
  BY <1>3
<1>6. Chosen(items, K) = [j \in 1 .. Len(o) |-> items[o[j]]]
  BY DEF Chosen, o
<1>7. Len(Chosen(items, K)) = Len(o)
  BY <1>5, <1>6
<1>8. Values(items, number) = [j \in 1 .. Len(o) |-> Chosen(items, K)[j].value]
  BY <1>7 DEF Values
<1>9. Values(items, number) = [j \in 1 .. Len(o) |-> items[o[j]].value]
  BY <1>6, <1>8
<1> QED BY <1>4, <1>9 DEF o

\* Each value is that of an item with the number; one item is enough for one value.
LEMMA ValuesMembers ==
    ASSUME NEW items, IsSequence(items), NEW number
    PROVE  /\ Values(items, number) \in Seq({items[k].value :
                k \in {j \in 1 .. Len(items) : items[j].number = number}})
           /\ (\E k \in 1 .. Len(items) : items[k].number = number)
                <=> Values(items, number) # << >>
<1> DEFINE K == {k \in 1 .. Len(items) : items[k].number = number}
           o == Ascending(K, Len(items))
<1>1. /\ o \in Seq(1 .. Len(items))
      /\ Values(items, number) = [j \in 1 .. Len(o) |-> items[o[j]].value]
      /\ \A j \in 1 .. Len(o) : items[o[j]].number = number
  BY ValuesByPosition
<1>2. (\E k \in 1 .. Len(items) : items[k].number = number) => o # << >>
  BY SequenceIsSeq, AscendingMembers
<1> HIDE DEF o
<1>3. Len(o) \in Nat /\ \A j \in 1 .. Len(o) : o[j] \in K
  BY <1>1, ElementOfSeq
<1>4. Values(items, number) \in Seq({items[k].value : k \in K})
  BY <1>1, <1>3
<1>5. Len(Values(items, number)) = Len(o)
  BY <1>1, <1>3
<1>6. o # << >> => Len(o) > 0
  BY <1>1, EmptySeq
<1>7. Values(items, number) # << >> => Len(Values(items, number)) > 0
  BY <1>4, EmptySeq
<1>8. Len(o) > 0 => 1 \in 1 .. Len(o)
  BY <1>3
<1> QED BY <1>2, <1>3, <1>4, <1>5, <1>6, <1>7, <1>8

\* The items of one message after those of another.
LEMMA ValuesJoin ==
    ASSUME NEW s, IsSequence(s), NEW t, IsSequence(t), NEW number
    PROVE  Values(s \o t, number) = Values(s, number) \o Values(t, number)
<1> DEFINE KS == {k \in 1 .. Len(s) : s[k].number = number}
           KT == {k \in 1 .. Len(t) : t[k].number = number}
           K == {k \in 1 .. Len(s \o t) : (s \o t)[k].number = number}
           a == Ascending(KS, Len(s))
           b == Ascending(KT, Len(t))
           o == Ascending(K, Len(s \o t))
<1>1. Len(s) \in Nat /\ Len(t) \in Nat
  BY SequenceIsSeq
<1>2. /\ Len(s \o t) = Len(s) + Len(t)
      /\ \A k \in 1 .. Len(s) : (s \o t)[k] = s[k]
      /\ \A k \in 1 .. Len(t) : (s \o t)[Len(s) + k] = t[k]
      /\ IsSequence(s \o t)
  BY SequenceJoin
<1>3. /\ \A k \in 1 .. Len(s) : k \in K <=> k \in KS
      /\ \A k \in 1 .. Len(t) : Len(s) + k \in K <=> k \in KT
  BY <1>1, <1>2
<1>4. o = a \o Shifted(b, Len(s))
  <2>1. Len(s \o t) = Len(s) + Len(t)
    BY <1>2
  <2> DEFINE n == Len(s)
             p == Len(t)
             r == Len(s \o t)
  <2>2. n \in Nat
    BY <1>1
  <2>3. p \in Nat
    BY <1>1
  <2>4. r = n + p
    BY <2>1
  <2>5. KS = UpTo(K, n)
    BY <1>3 DEF UpTo
  <2>6. KT = After(K, n, p)
    BY <1>3 DEF After
  <2> HIDE DEF K, KS, KT, n, p, r
  <2>7. Ascending(K, r) = Ascending(UpTo(K, n), n) \o Shifted(Ascending(After(K, n, p), p), n)
    BY <2>2, <2>3, <2>4, AscendingJoin
  <2> QED BY <2>5, <2>6, <2>7 DEF n, p, r
<1>5. /\ a \in Seq(1 .. Len(s)) /\ Values(s, number) = [j \in 1 .. Len(a) |-> s[a[j]].value]
      /\ b \in Seq(1 .. Len(t)) /\ Values(t, number) = [j \in 1 .. Len(b) |-> t[b[j]].value]
      /\ Values(s \o t, number) = [j \in 1 .. Len(o) |-> (s \o t)[o[j]].value]
  <2>1. /\ a \in Seq(1 .. Len(s)) /\ Values(s, number) = [j \in 1 .. Len(a) |-> s[a[j]].value]
    BY ValuesByPosition
  <2>2. b \in Seq(1 .. Len(t)) /\ Values(t, number) = [j \in 1 .. Len(b) |-> t[b[j]].value]
    BY ValuesByPosition
  <2>3. Values(s \o t, number) = [j \in 1 .. Len(o) |-> (s \o t)[o[j]].value]
    BY <1>2, ValuesByPosition
  <2> QED BY <2>1, <2>2, <2>3
<1> HIDE DEF a, b, o
<1>6. /\ Len(a) \in Nat /\ Len(b) \in Nat
      /\ \A j \in 1 .. Len(a) : a[j] \in 1 .. Len(s)
      /\ \A j \in 1 .. Len(b) : b[j] \in 1 .. Len(t)
  BY <1>5, ElementOfSeq
<1>7. /\ Len(o) = Len(a) + Len(b)
      /\ \A j \in 1 .. Len(a) + Len(b) :
           o[j] = IF j <= Len(a) THEN a[j] ELSE Len(s) + b[j - Len(a)]
  <2>1. a \in Seq(Int) /\ Shifted(b, Len(s)) \in Seq(Int) /\ Len(Shifted(b, Len(s))) = Len(b)
    <3>1. a \in Seq(Int)
      BY <1>1, <1>5, SeqMonotonic
    <3>2. \A j \in 1 .. Len(b) : Len(s) + b[j] \in Int
      BY <1>1, <1>6
    <3> QED BY <1>6, <3>1, <3>2 DEF Shifted
  <2>2. \A j \in 1 .. Len(b) : Shifted(b, Len(s))[j] = Len(s) + b[j]
    BY DEF Shifted
  <2>3. \A j \in 1 .. Len(a) + Len(b) : ~(j <= Len(a)) => j - Len(a) \in 1 .. Len(b)
    BY <1>6
  <2> DEFINE c == Shifted(b, Len(s))
  <2> HIDE DEF c
  <2>4. /\ Len(a \o c) = Len(a) + Len(c)
        /\ \A j \in 1 .. Len(a) + Len(c) :
             (a \o c)[j] = IF j <= Len(a) THEN a[j] ELSE c[j - Len(a)]
    BY <2>1, ConcatProperties DEF c
  <2> QED BY <1>4, <2>1, <2>2, <2>3, <2>4 DEF c
<1> DEFINE V == {s[k].value : k \in 1 .. Len(s)} \cup {t[k].value : k \in 1 .. Len(t)}
<1>8. /\ Values(s, number) \in Seq(V) /\ Len(Values(s, number)) = Len(a)
      /\ Values(t, number) \in Seq(V) /\ Len(Values(t, number)) = Len(b)
  BY <1>5, <1>6
<1> HIDE DEF V
<1> DEFINE vs == Values(s, number)
           vt == Values(t, number)
           joined == vs \o vt
<1> HIDE DEF vs, vt
<1>9. /\ joined \in Seq(V)
      /\ Len(joined) = Len(a) + Len(b)
      /\ \A j \in 1 .. Len(a) + Len(b) :
           joined[j] = IF j <= Len(a) THEN vs[j] ELSE vt[j - Len(a)]
  <2>1. vs \in Seq(V) /\ vt \in Seq(V) /\ Len(vs) = Len(a) /\ Len(vt) = Len(b)
    BY <1>8 DEF vs, vt
  <2>2. /\ vs \o vt \in Seq(V)
        /\ Len(vs \o vt) = Len(vs) + Len(vt)
        /\ \A j \in 1 .. Len(vs) + Len(vt) :
             (vs \o vt)[j] = IF j <= Len(vs) THEN vs[j] ELSE vt[j - Len(vs)]
    BY <2>1, ConcatProperties
  <2> QED BY <2>1, <2>2
<1>10. ASSUME NEW j \in 1 .. Len(a) + Len(b)
       PROVE  (s \o t)[o[j]].value = joined[j]
  <2>1. CASE j <= Len(a)
    <3>1. j \in 1 .. Len(a)
      BY <1>6, <2>1
    <3> QED BY <1>2, <1>5, <1>6, <1>7, <1>9, <2>1, <3>1 DEF vs
  <2>2. CASE ~(j <= Len(a))
    <3>1. j - Len(a) \in 1 .. Len(b)
      BY <1>6, <2>2
    <3>2. o[j] = Len(s) + b[j - Len(a)] /\ b[j - Len(a)] \in 1 .. Len(t)
      BY <1>6, <1>7, <2>2, <3>1
    <3>3. (s \o t)[o[j]] = t[b[j - Len(a)]]
      BY <1>2, <3>2
    <3> QED BY <1>5, <1>9, <2>2, <3>1, <3>3 DEF vt
  <2> QED BY <2>1, <2>2
<1>11. joined = [j \in 1 .. Len(a) + Len(b) |-> joined[j]]
  BY <1>9, LenProperties
<1> HIDE DEF joined
<1>12. Values(s \o t, number) = joined
  BY <1>5, <1>7, <1>10, <1>11
<1> QED BY <1>12 DEF joined, vs, vt

-----------------------------------------------------------------------------
(* Messages in parts. *)

LEMMA ConcatenatedIn ==
    ASSUME NEW W, IsMonoid(W),
           NEW p, Len(p) \in Nat, \A k \in 1 .. Len(p) : p[k] \in W
    PROVE  /\ Concatenated(p) \in W
           /\ Len(p) > 0 => \E s \in W : Concatenated(p) = Joined(s, p[Len(p)])
<1>1. Len(p) \in Nat /\ \A k \in 1 .. Len(p) : p[k] \in W
  OBVIOUS
<1>2. PICK v : IsConcatenation(v, p) /\ Concatenated(p) = v[Len(p)]
  BY <1>1, ConcatenatedUpto
<1>3. /\ v[0] = << >>
      /\ \A k \in 1 .. Len(p) : v[k] = Joined(v[k - 1], p[k])
  BY <1>2 DEF IsConcatenation
<1> DEFINE S == {m \in Nat : v[m] \in W}
<1>4. 0 \in S
  BY <1>3 DEF IsMonoid
<1>5. ASSUME NEW m \in Nat, m < Len(p), m \in S PROVE m + 1 \in S
  <2>1. m + 1 \in 1 .. Len(p) /\ m + 1 - 1 = m /\ m + 1 \in Nat
    BY <1>1, <1>5
  <2>2. v[m + 1] = Joined(v[m], p[m + 1])
    BY <1>3, <2>1
  <2>3. v[m] \in W /\ p[m + 1] \in W
    BY <1>1, <1>5, <2>1
  <2>4. v[m + 1] \in W
    BY <2>2, <2>3 DEF IsMonoid
  <2> QED BY <2>1, <2>4
<1> HIDE DEF S
<1>6. \A m \in 0 .. Len(p) : m \in S
  BY <1>1, <1>4, <1>5, InductionUpto
<1>7. Len(p) \in S
  BY <1>1, <1>6
<1>8. ASSUME Len(p) > 0 PROVE \E s \in W : Concatenated(p) = Joined(s, p[Len(p)])
  <2>1. Len(p) \in 1 .. Len(p) /\ Len(p) - 1 \in 0 .. Len(p)
    BY <1>1, <1>8
  <2>2. v[Len(p)] = Joined(v[Len(p) - 1], p[Len(p)])
    BY <1>3, <2>1
  <2>3. v[Len(p) - 1] \in W
    BY <1>6, <2>1 DEF S
  <2> QED BY <1>2, <2>2, <2>3
<1> QED BY <1>2, <1>7, <1>8 DEF S

\* One part is itself,
LEMMA ConcatenatedOne ==
    ASSUME NEW W, IsMonoid(W), NEW s \in W
    PROVE  Concatenated(<<s>>) = s
<1> DEFINE p == <<s>>
<1>1. Len(p) = 1 /\ p[1] = s
  OBVIOUS
<1> HIDE DEF p
<1>2. Len(p) \in Nat
  BY <1>1
<1>3. PICK v : IsConcatenation(v, p) /\ Concatenated(p) = v[Len(p)]
  BY <1>2, ConcatenatedUpto
<1>4. 1 \in 1 .. Len(p) /\ 1 - 1 = 0
  BY <1>1
<1>5. v[1] = Joined(v[1 - 1], p[1]) /\ v[0] = << >>
  BY <1>3, <1>4 DEF IsConcatenation
<1>6. Concatenated(p) = Joined(<< >>, s)
  BY <1>1, <1>3, <1>4, <1>5
<1> QED BY <1>6 DEF p, IsMonoid

\* and the parts of two messages, one after the other, are joined part by part.
LEMMA ConcatenatedJoin ==
    ASSUME NEW W, IsMonoid(W),
           NEW p, Len(p) \in Nat, \A k \in 1 .. Len(p) : p[k] \in W,
           NEW q, Len(q) \in Nat, \A k \in 1 .. Len(q) : q[k] \in W,
           NEW r, Len(r) = Len(p) + Len(q),
           \A k \in 1 .. Len(p) : r[k] = p[k],
           \A k \in 1 .. Len(q) : r[Len(p) + k] = q[k]
    PROVE  Concatenated(r) = Joined(Concatenated(p), Concatenated(q))
<1> DEFINE n == Len(p)
           l == Len(q)
<1>1. /\ n \in Nat /\ l \in Nat /\ Len(r) = n + l
      /\ \A k \in 1 .. n : r[k] = p[k]
      /\ \A k \in 1 .. l : r[n + k] = q[k]
  OBVIOUS
<1>2. \A k \in 1 .. n : p[k] \in W
  OBVIOUS
<1>3. \A k \in 1 .. l : q[k] \in W
  OBVIOUS
<1>4. Len(r) \in Nat
  BY <1>1
<1>5. PICK u : IsConcatenation(u, r) /\ Concatenated(r) = u[Len(r)]
  BY <1>4, ConcatenatedUpto
<1>6. PICK v : IsConcatenation(v, p) /\ Concatenated(p) = v[Len(p)]
  BY <1>1, ConcatenatedUpto
<1>7. PICK w : IsConcatenation(w, q) /\ Concatenated(q) = w[Len(q)]
  BY <1>1, ConcatenatedUpto
<1>8. u[0] = << >> /\ \A k \in 1 .. n + l : u[k] = Joined(u[k - 1], r[k])
  BY <1>1, <1>5 DEF IsConcatenation
<1>9. v[0] = << >> /\ \A k \in 1 .. n : v[k] = Joined(v[k - 1], p[k])
  BY <1>6 DEF IsConcatenation
<1>10. w[0] = << >> /\ \A k \in 1 .. l : w[k] = Joined(w[k - 1], q[k])
  BY <1>7 DEF IsConcatenation
<1> HIDE DEF n, l
<1> DEFINE S == {m \in Nat : u[m] = v[m] /\ v[m] \in W}
<1>11. 0 \in S
  <2>1. u[0] = << >> /\ v[0] = << >> /\ << >> \in W
    BY <1>8, <1>9 DEF IsMonoid
  <2> QED BY <2>1
<1>12. ASSUME NEW m \in Nat, m < n, m \in S PROVE m + 1 \in S
  <2>1. m + 1 \in 1 .. n /\ m + 1 \in 1 .. n + l /\ m + 1 - 1 = m /\ m + 1 \in Nat
    BY <1>1, <1>12
  <2>2. u[m] = v[m] /\ v[m] \in W
    BY <1>12
  <2>3. p[m + 1] \in W /\ r[m + 1] = p[m + 1]
    BY <1>1, <1>2, <2>1
  <2>4. u[m + 1] = Joined(u[m + 1 - 1], r[m + 1])
    BY <1>8, <2>1
  <2>5. v[m + 1] = Joined(v[m + 1 - 1], p[m + 1])
    BY <1>9, <2>1
  <2>6. u[m + 1] = v[m + 1]
    BY <2>1, <2>2, <2>3, <2>4, <2>5
  <2>7. v[m + 1] \in W
    <3>1. Joined(v[m], p[m + 1]) \in W
      BY <2>2, <2>3 DEF IsMonoid
    <3> QED BY <2>1, <2>5, <3>1
  <2> QED BY <2>1, <2>6, <2>7
<1> HIDE DEF S
<1>13. u[n] = v[n] /\ v[n] \in W
  <2>1. \A m \in 0 .. n : m \in S
    BY <1>1, <1>11, <1>12, InductionUpto
  <2>2. n \in S
    BY <1>1, <2>1
  <2> QED BY <2>2 DEF S
<1> DEFINE T == {m \in Nat : w[m] \in W /\ u[n + m] = Joined(v[n], w[m])}
<1>14. 0 \in T
  <2>1. Joined(v[n], << >>) = v[n]
    BY <1>13 DEF IsMonoid
  <2>2. n + 0 = n
    BY <1>1
  <2>3. w[0] = << >> /\ << >> \in W
    BY <1>10 DEF IsMonoid
  <2> QED BY <1>13, <2>1, <2>2, <2>3
<1>15. ASSUME NEW m \in Nat, m < l, m \in T PROVE m + 1 \in T
  <2>1. /\ m + 1 \in 1 .. l /\ m + 1 - 1 = m /\ m + 1 \in Nat
        /\ n + (m + 1) \in 1 .. n + l /\ n + (m + 1) - 1 = n + m
    BY <1>1, <1>15
  <2>2. w[m] \in W /\ u[n + m] = Joined(v[n], w[m])
    BY <1>15
  <2>3. q[m + 1] \in W /\ r[n + (m + 1)] = q[m + 1]
    BY <1>1, <1>3, <2>1
  <2>a. PICK k : k = n + (m + 1)
    OBVIOUS
  <2>4. u[k] = Joined(u[k - 1], r[k]) /\ k - 1 = n + m /\ r[k] = q[m + 1]
    <3>a. n \in Nat /\ l \in Nat
      BY <1>1
    <3>1. k \in 1 .. n + l /\ k - 1 = n + m
      BY <2>1, <2>a, <3>a
    <3>2. u[k] = Joined(u[k - 1], r[k])
      BY <1>8, <3>1
    <3> QED BY <2>3, <2>a, <3>1, <3>2
  <2>5. w[m + 1] = Joined(w[m + 1 - 1], q[m + 1])
    BY <1>10, <2>1
  <2>6. Joined(Joined(v[n], w[m]), q[m + 1]) = Joined(v[n], Joined(w[m], q[m + 1]))
    BY <1>13, <2>2, <2>3 DEF IsMonoid
  <2>7. w[m + 1] \in W
    BY <2>1, <2>2, <2>3, <2>5 DEF IsMonoid
  <2>8. u[k] = Joined(v[n], w[m + 1])
    BY <2>1, <2>2, <2>4, <2>5, <2>6
  <2> QED BY <2>1, <2>7, <2>8, <2>a
<1> HIDE DEF T
<1>16. u[n + l] = Joined(v[n], w[l])
  <2>1. \A m \in 0 .. l : m \in T
    BY <1>1, <1>14, <1>15, InductionUpto
  <2>2. l \in T
    BY <1>1, <2>1
  <2> QED BY <2>2 DEF T
<1> QED BY <1>1, <1>5, <1>6, <1>7, <1>16 DEF n, l

IsParts(parts) ==
    /\ IsSequence(parts) /\ Len(parts) > 0
    /\ \A k \in 1 .. Len(parts) : IsSequence(parts[k])

\* The items of the parts of two messages are sequences over one set.
LEMMA PartsOverOneSet ==
    ASSUME NEW p, IsParts(p), NEW q, IsParts(q)
    PROVE  \E W : /\ IsMonoid(W) /\ \A s \in W : IsSequence(s)
                  /\ \A k \in 1 .. Len(p) : p[k] \in W
                  /\ \A k \in 1 .. Len(q) : q[k] \in W
<1> DEFINE R(s) == {s[j] : j \in 1 .. Len(s)}
           P == UNION {R(p[k]) : k \in 1 .. Len(p)}
           Q == UNION {R(q[k]) : k \in 1 .. Len(q)}
           U == P \cup Q
<1>1. \A s : IsSequence(s) => s \in Seq(R(s))
  BY SequenceIsSeq
<1> HIDE DEF R
<1>2. /\ \A k \in 1 .. Len(p) : R(p[k]) \subseteq U
      /\ \A k \in 1 .. Len(q) : R(q[k]) \subseteq U
  OBVIOUS
<1> HIDE DEF U
<1>3. \A s : IsSequence(s) /\ R(s) \subseteq U => s \in Seq(U)
  BY <1>1, SeqMonotonic
<1>4. \A k \in 1 .. Len(p) : p[k] \in Seq(U)
  BY <1>2, <1>3 DEF IsParts
<1>5. \A k \in 1 .. Len(q) : q[k] \in Seq(U)
  BY <1>2, <1>3 DEF IsParts
<1>6. \A s \in Seq(U) : IsSequence(s)
  BY SeqIsSequence
<1>7. IsMonoid(Seq(U))
  BY SeqMonoid
<1> HIDE DEF U
<1> QED BY <1>4, <1>5, <1>6, <1>7

\* The parts of two messages, one after the other.
LEMMA PartsJoin ==
    ASSUME NEW p, IsParts(p), NEW q, IsParts(q)
    PROVE  /\ IsParts(p \o q) /\ Last(p \o q) = Last(q)
           /\ IsSequence(Concatenated(p)) /\ IsSequence(Concatenated(q))
           /\ Concatenated(p \o q) = Concatenated(p) \o Concatenated(q)
<1>1. /\ IsSequence(p) /\ IsSequence(q) /\ Len(p) \in Nat /\ Len(q) \in Nat /\ Len(q) > 0
  BY SequenceIsSeq DEF IsParts
<1>2. /\ Len(p \o q) = Len(p) + Len(q)
      /\ \A k \in 1 .. Len(p) : (p \o q)[k] = p[k]
      /\ \A k \in 1 .. Len(q) : (p \o q)[Len(p) + k] = q[k]
      /\ IsSequence(p \o q)
  BY <1>1, SequenceJoin
<1>3. PICK W : /\ IsMonoid(W) /\ \A s \in W : IsSequence(s)
               /\ \A k \in 1 .. Len(p) : p[k] \in W
               /\ \A k \in 1 .. Len(q) : q[k] \in W
  BY PartsOverOneSet
<1> DEFINE r == p \o q
<1>4. /\ IsSequence(r) /\ Len(r) = Len(p) + Len(q)
      /\ \A k \in 1 .. Len(p) : r[k] = p[k]
      /\ \A k \in 1 .. Len(q) : r[Len(p) + k] = q[k]
  BY <1>2
<1> HIDE DEF r
<1>5. ASSUME NEW k \in 1 .. Len(r) PROVE IsSequence(r[k])
  <2>1. CASE k <= Len(p)
    <3>1. k \in 1 .. Len(p)
      BY <1>1, <1>4, <2>1
    <3> QED BY <1>3, <1>4, <3>1
  <2>2. CASE ~(k <= Len(p))
    <3>1. k - Len(p) \in 1 .. Len(q) /\ Len(p) + (k - Len(p)) = k
      BY <1>1, <1>4, <2>2
    <3> QED BY <1>3, <1>4, <3>1
  <2> QED BY <2>1, <2>2
<1>6. Len(r) > 0
  BY <1>1, <1>4
<1>7. Last(r) = Last(q)
  <2>1. Len(q) \in 1 .. Len(q)
    BY <1>1
  <2> QED BY <1>4, <2>1 DEF Last
<1>8. Concatenated(p) \in W /\ Concatenated(q) \in W
  BY <1>1, <1>3, ConcatenatedIn
<1>9. Concatenated(r) = Joined(Concatenated(p), Concatenated(q))
  BY <1>1, <1>3, <1>4, ConcatenatedJoin
<1> QED BY <1>3, <1>4, <1>5, <1>6, <1>7, <1>8, <1>9 DEF IsParts, Joined, r

\* A message in one part.
LEMMA OnePart ==
    ASSUME NEW s, IsSequence(s)
    PROVE  IsParts(<<s>>) /\ Concatenated(<<s>>) = s /\ Last(<<s>>) = s
<1>1. s \in Seq({s[k] : k \in 1 .. Len(s)})
  BY SequenceIsSeq
<1>2. Concatenated(<<s>>) = s
  BY <1>1, SeqMonoid, ConcatenatedOne
<1>3. Last(<<s>>) = s
  BY DEF Last
<1>4. IsSequence(<<s>>) /\ Len(<<s>>) > 0 /\ \A k \in 1 .. Len(<<s>>) : IsSequence(<<s>>[k])
  <2>1. <<s>> \in Seq({s})
    OBVIOUS
  <2>2. IsSequence(<<s>>)
    BY <2>1, SeqIsSequence
  <2> QED BY <2>2
<1> QED BY <1>2, <1>3, <1>4 DEF IsParts

\* Every item of a message in parts is one of a part, and those of the last part
\* are there.
LEMMA ItemsOfParts ==
    ASSUME NEW p, IsParts(p)
    PROVE  /\ IsSequence(Concatenated(p)) /\ IsSequence(Last(p))
           /\ \A P : (\A k \in 1 .. Len(p) : \A j \in 1 .. Len(p[k]) : p[k][j] \in P)
                 => \A k \in 1 .. Len(Concatenated(p)) : Concatenated(p)[k] \in P
           /\ \A j \in 1 .. Len(Last(p)) :
                \E k \in 1 .. Len(Concatenated(p)) : Concatenated(p)[k] = Last(p)[j]
<1>1. /\ Len(p) \in Nat /\ Len(p) > 0 /\ Len(p) \in 1 .. Len(p)
      /\ \A k \in 1 .. Len(p) : IsSequence(p[k])
  BY SequenceIsSeq DEF IsParts
<1>2. PICK W : /\ IsMonoid(W) /\ \A s \in W : IsSequence(s)
               /\ \A k \in 1 .. Len(p) : p[k] \in W
  BY PartsOverOneSet
<1>3. Concatenated(p) \in W /\ \E s \in W : Concatenated(p) = Joined(s, p[Len(p)])
  BY <1>1, <1>2, ConcatenatedIn
<1>4. PICK s \in W : Concatenated(p) = s \o p[Len(p)]
  BY <1>3 DEF Joined
<1>5. Last(p) = p[Len(p)] /\ IsSequence(Last(p))
  BY <1>1 DEF Last
<1>6. ASSUME NEW j \in 1 .. Len(Last(p))
      PROVE  \E k \in 1 .. Len(Concatenated(p)) : Concatenated(p)[k] = Last(p)[j]
  <2> DEFINE l == Last(p)
             c == Concatenated(p)
  <2>0. IsSequence(s)
    BY <1>2
  <2>1. c = s \o l /\ IsSequence(l)
    BY <1>4, <1>5
  <2> HIDE DEF l, c
  <2>2. Len(s) \in Nat /\ Len(l) \in Nat
    BY <2>0, <2>1, SequenceIsSeq
  <2>3. Len(c) = Len(s) + Len(l) /\ \A k \in 1 .. Len(l) : c[Len(s) + k] = l[k]
    BY <2>0, <2>1, SequenceJoin
  <2>4. j \in 1 .. Len(l)
    BY DEF l
  <2>5. Len(s) + j \in 1 .. Len(c)
    BY <2>2, <2>3, <2>4
  <2> QED BY <2>3, <2>4, <2>5 DEF l, c
<1>7. ASSUME NEW P, \A k \in 1 .. Len(p) : \A j \in 1 .. Len(p[k]) : p[k][j] \in P
      PROVE  \A k \in 1 .. Len(Concatenated(p)) : Concatenated(p)[k] \in P
  <2>1. ASSUME NEW k \in 1 .. Len(p) PROVE p[k] \in Seq(P)
    <3> DEFINE x == p[k]
    <3>1. IsSequence(x) /\ \A j \in 1 .. Len(x) : x[j] \in P
      BY <1>1, <1>7
    <3> HIDE DEF x
    <3>2. x \in Seq({x[j] : j \in 1 .. Len(x)}) /\ {x[j] : j \in 1 .. Len(x)} \subseteq P
      BY <3>1, SequenceIsSeq
    <3>3. x \in Seq(P)
      BY <3>2, SeqMonotonic
    <3> QED BY <3>3 DEF x
  <2>2. Concatenated(p) \in Seq(P)
    BY <1>1, <2>1, SeqMonoid, ConcatenatedIn
  <2> QED BY <2>2, ElementOfSeq
<1> QED BY <1>2, <1>3, <1>5, <1>6, <1>7

\* So the values of a field in all parts of two messages.
LEMMA ValuesOfParts ==
    ASSUME NEW p, IsParts(p), NEW q, IsParts(q), NEW number
    PROVE  Values(Concatenated(p \o q), number)
             = Values(Concatenated(p), number) \o Values(Concatenated(q), number)
<1> DEFINE c == Concatenated(p)
           d == Concatenated(q)
           e == Concatenated(p \o q)
<1>1. IsSequence(c) /\ IsSequence(d) /\ e = c \o d
  BY PartsJoin
<1> HIDE DEF c, d, e
<1>2. Values(c \o d, number) = Values(c, number) \o Values(d, number)
  BY <1>1, ValuesJoin
<1> QED BY <1>1, <1>2 DEF c, d, e

\* The values of a single item.
LEMMA ValuesOfOne ==
    ASSUME NEW item, NEW number
    PROVE  Values(<<item>>, number) = IF item.number = number THEN <<item.value>> ELSE << >>
<1> DEFINE s == <<item>>
           K == {k \in 1 .. Len(s) : s[k].number = number}
           o == Ascending(K, Len(s))
<1>1. Len(s) = 1 /\ s[1] = item
  OBVIOUS
<1>2. 1 \in K <=> item.number = number
  BY <1>1
<1> DEFINE c == Chosen(s, K)
<1>a. Values(s, number) = [j \in 1 .. Len(c) |-> c[j].value]
  BY DEF Values
<1> HIDE DEF s, K
<1>b. 1 \in 1 .. 1 /\ 1 - 1 = 0
  OBVIOUS
<1>3. PICK v : IsListing(v, K, 1) /\ Ascending(K, 1) = v[1]
  BY AscendingUpto
<1>4. v[0] = << >> /\ v[1] = IF 1 \in K THEN Append(v[0], 1) ELSE v[0]
  BY <1>3, <1>b DEF IsListing
<1>5. o = IF 1 \in K THEN <<1>> ELSE << >>
  BY <1>1, <1>3, <1>4
<1>6. c = [j \in 1 .. Len(o) |-> s[o[j]]]
  BY DEF Chosen
<1> HIDE DEF o, c
<1>7. CASE 1 \in K
  <2>1. Len(o) = 1 /\ o[1] = 1
    BY <1>5, <1>7
  <2>2. c = <<item>>
    BY <1>1, <1>6, <2>1
  <2>3. Len(c) = 1 /\ c[1] = item
    BY <2>2
  <2>4. Values(s, number) = <<item.value>>
    BY <1>a, <2>3
  <2> QED BY <1>2, <1>7, <2>4 DEF s
<1>8. CASE 1 \notin K
  <2>1. Len(o) = 0
    BY <1>5, <1>8
  <2>2. Len(c) = 0
    BY <1>6, <2>1
  <2>3. Values(s, number) = << >>
    BY <1>a, <2>2
  <2> QED BY <1>2, <1>8, <2>3 DEF s
<1> QED BY <1>7, <1>8

-----------------------------------------------------------------------------
(* What is required of the schema and of the messages inside. *)

SchemaLaws ==
    \A t : IsMessage(t) =>
      /\ \A item : item.number \in Nat => FieldsOf(t, item) = FieldNumbered(t, item.number)
      /\ \A f, g \in Fields(t) : f.id = g.id \/ f.name = g.name => f = g
      /\ \A f \in Fields(t) : f.label \in {"REQUIRED", "OPTIONAL", "REPEATED"}

ValidInside(t, items) == IsWireInside(t, items) /\ WellFormedInside(t, items)
ArePartsInside(t, parts) ==
    /\ IsSequence(parts) /\ Len(parts) > 0
    /\ \A k \in 1 .. Len(parts) : ValidInside(t, parts[k])

\* Malformed items are refused, well-formed ones unpacked to what they stand for,
\* and two messages merged to what their parts stand for together.
InsideLaws ==
    \A t : IsMessage(t) =>
      /\ \A items : IsWireInside(t, items) /\ ~WellFormedInside(t, items)
                      => UnpackedInside(t, items) = {}
      /\ \A items : ValidInside(t, items) =>
           \E m : UnpackedInside(t, items) = {m} /\ DenotesInside(t, m, <<items>>)
      /\ \A m, n, p, q : /\ ArePartsInside(t, p) /\ DenotesInside(t, m, p)
                         /\ ArePartsInside(t, q) /\ DenotesInside(t, n, q)
                         => DenotesInside(t, MergedInside(t, m, n), p \o q)

\* The same of this level.
Valid(t, items) == IsWire(t, items) /\ WellFormed(t, items)
ArePartsOf(t, parts) ==
    /\ IsSequence(parts) /\ Len(parts) > 0
    /\ \A k \in 1 .. Len(parts) : Valid(t, parts[k])

LevelLaws ==
    \A t : IsMessage(t) =>
      /\ \A items : IsWire(t, items) /\ ~WellFormed(t, items) => Unpacked(t, items) = {}
      /\ \A items : Valid(t, items) =>
           \E m : Unpacked(t, items) = {m} /\ Denotes(t, m, <<items>>)
      /\ \A m, n, p, q : /\ ArePartsOf(t, p) /\ Denotes(t, m, p)
                         /\ ArePartsOf(t, q) /\ Denotes(t, n, q)
                         => Denotes(t, merge_messages(t, m, n), p \o q)

-----------------------------------------------------------------------------
(* The values of a field in the parts of a message. *)

\* Items of known fields hold what can be unpacked inside.
ItemsHold(t, items) ==
    /\ IsSequence(items)
    /\ \A k \in 1 .. Len(items) : \A f \in FieldNumbered(t, items[k].number) :
         IsMessage(f.type) => ValidInside(f.type, items[k].value)

\* So do the values of a submessage, which are again the parts of one.
LEMMA ValuesHold ==
    ASSUME NEW t, NEW items, ItemsHold(t, items), NEW f \in Fields(t)
    PROVE  LET values == Values(items, f.id)
           IN  /\ IsSequence(values)
               /\ values # << >> => Len(values) > 0
               /\ \A k \in 1 .. Len(values) :
                    IsMessage(f.type) => ValidInside(f.type, values[k])
               /\ IsMessage(f.type) /\ values # << >> => ArePartsInside(f.type, values)
<1> DEFINE values == Values(items, f.id)
           K == {j \in 1 .. Len(items) : items[j].number = f.id}
           R == {items[k].value : k \in K}
<1>1. IsSequence(items)
  BY DEF ItemsHold
<1>2. values \in Seq(R)
  BY <1>1, ValuesMembers
<1>3. \A x \in R : IsMessage(f.type) => ValidInside(f.type, x)
  BY DEF ItemsHold, FieldNumbered
<1> HIDE DEF values, R
<1>4. IsSequence(values) /\ (values # << >> => Len(values) > 0)
  BY <1>2, SeqIsSequence, EmptySeq
<1>5. \A k \in 1 .. Len(values) : values[k] \in R
  BY <1>2, ElementOfSeq
<1> QED BY <1>3, <1>4, <1>5 DEF values, ArePartsInside

\* The items of a well-formed message are such items.
LEMMA ValidItemsHold ==
    ASSUME NEW t, NEW items, Valid(t, items)
    PROVE  ItemsHold(t, items)
<1>1. IsSequence(items) /\ DOMAIN items = 1 .. Len(items)
  BY SequenceIsSeq DEF Valid, IsWire
<1> QED BY <1>1 DEF Valid, IsWire, WellFormed, ItemsHold, ValidInside

\* And so are those of all its parts, in the last of which, as in each, every
\* required field is found.
LEMMA PartsHold ==
    ASSUME NEW t, NEW p, ArePartsOf(t, p)
    PROVE  /\ IsParts(p)
           /\ ItemsHold(t, Concatenated(p)) /\ ItemsHold(t, Last(p))
           /\ \A f \in Fields(t) : f.label = "REQUIRED" =>
                Values(Last(p), f.id) # << >> /\ Values(Concatenated(p), f.id) # << >>
<1>1. \A k \in 1 .. Len(p) : ItemsHold(t, p[k])
  BY ValidItemsHold DEF ArePartsOf
<1>2. IsParts(p)
  BY <1>1 DEF IsParts, ArePartsOf, ItemsHold
<1>3. Len(p) \in 1 .. Len(p) /\ Last(p) = p[Len(p)]
  BY <1>2, SequenceIsSeq DEF IsParts, Last
<1> DEFINE P == {x \in UNION {{p[k][j] : j \in 1 .. Len(p[k])} : k \in 1 .. Len(p)} :
                   \A f \in FieldNumbered(t, x.number) :
                     IsMessage(f.type) => ValidInside(f.type, x.value)}
<1>4. \A k \in 1 .. Len(p) : \A j \in 1 .. Len(p[k]) : p[k][j] \in P
  BY <1>1 DEF ItemsHold
<1>5. \A x \in P : \A f \in FieldNumbered(t, x.number) :
        IsMessage(f.type) => ValidInside(f.type, x.value)
  OBVIOUS
<1> HIDE DEF P
<1>6. \A k \in 1 .. Len(Concatenated(p)) : Concatenated(p)[k] \in P
  BY <1>2, <1>4, ItemsOfParts
<1>7. ItemsHold(t, Concatenated(p)) /\ ItemsHold(t, Last(p))
  BY <1>1, <1>2, <1>3, <1>5, <1>6, ItemsOfParts DEF ItemsHold
<1>8. ASSUME NEW f \in Fields(t), f.label = "REQUIRED"
      PROVE  Values(Last(p), f.id) # << >> /\ Values(Concatenated(p), f.id) # << >>
  <2> DEFINE l == Last(p)
             c == Concatenated(p)
  <2>1. IsSequence(l) /\ IsSequence(c)
    BY <1>7 DEF ItemsHold
  <2>2. Valid(t, l)
    BY <1>3 DEF ArePartsOf
  <2>3. \A j \in 1 .. Len(l) : \E k \in 1 .. Len(c) : c[k] = l[j]
    BY <1>2, ItemsOfParts
  <2> HIDE DEF l, c
  <2>4. PICK j \in 1 .. Len(l) : l[j].number = f.id
    BY <1>8, <2>1, <2>2, SequenceIsSeq DEF Valid, WellFormed
  <2>5. PICK k \in 1 .. Len(c) : c[k].number = f.id
    BY <2>3, <2>4
  <2> QED BY <2>1, <2>4, <2>5, ValuesMembers DEF l, c
<1> QED BY <1>2, <1>7, <1>8

-----------------------------------------------------------------------------
(* One field. *)

LEMMA LastOfJoin ==
    ASSUME NEW a, IsSequence(a), NEW b, IsSequence(b), Len(b) > 0
    PROVE  Last(a \o b) = Last(b)
<1>1. Len(a) \in Nat /\ Len(b) \in Nat /\ Len(b) \in 1 .. Len(b)
  BY SequenceIsSeq
<1>2. /\ Len(a \o b) = Len(a) + Len(b)
      /\ \A k \in 1 .. Len(b) : (a \o b)[Len(a) + k] = b[k]
  BY SequenceJoin
<1>3. (a \o b)[Len(a) + Len(b)] = b[Len(b)]
  BY <1>1, <1>2
<1> QED BY <1>2, <1>3 DEF Last

\* A repeated field has the values of both.
LEMMA RepeatedJoin ==
    ASSUME NEW f, f.label = "REPEATED",
           NEW v, NEW a, IsSequence(a), NEW x, Means(f, v, a, x),
           NEW w, NEW b, IsSequence(b), NEW y, Means(f, w, b, y), NEW z
    PROVE  Means(f, v \o w, a \o b, z)
<1>1. CASE ~IsMessage(f.type)
  BY <1>1 DEF Means
<1>2. CASE IsMessage(f.type)
  <2>1. /\ IsSequence(v) /\ Len(v) = Len(a)
        /\ \A k \in 1 .. Len(a) : DenotesInside(f.type, v[k], <<a[k]>>)
    BY <1>2 DEF Means
  <2>2. /\ IsSequence(w) /\ Len(w) = Len(b)
        /\ \A k \in 1 .. Len(b) : DenotesInside(f.type, w[k], <<b[k]>>)
    BY <1>2 DEF Means
  <2> DEFINE c == a \o b
             u == v \o w
  <2>3. /\ Len(c) = Len(a) + Len(b)
        /\ \A k \in 1 .. Len(a) : c[k] = a[k]
        /\ \A k \in 1 .. Len(b) : c[Len(a) + k] = b[k]
    BY SequenceJoin
  <2>4. /\ Len(u) = Len(a) + Len(b) /\ IsSequence(u)
        /\ \A k \in 1 .. Len(a) : u[k] = v[k]
        /\ \A k \in 1 .. Len(b) : u[Len(a) + k] = w[k]
    <3>1. /\ Len(u) = Len(v) + Len(w) /\ IsSequence(u)
          /\ \A k \in 1 .. Len(v) : u[k] = v[k]
          /\ \A k \in 1 .. Len(w) : u[Len(v) + k] = w[k]
      BY <2>1, <2>2, SequenceJoin
    <3> QED BY <2>1, <2>2, <3>1
  <2>5. Len(a) \in Nat /\ Len(b) \in Nat
    BY SequenceIsSeq
  <2> HIDE DEF c, u
  <2>6. ASSUME NEW k \in 1 .. Len(c)
        PROVE  DenotesInside(f.type, u[k], <<c[k]>>)
    <3>1. CASE k <= Len(a)
      <4>1. k \in 1 .. Len(a)
        BY <2>3, <2>5, <3>1
      <4> QED BY <2>1, <2>3, <2>4, <4>1
    <3>2. CASE ~(k <= Len(a))
      <4>1. PICK j : j = k - Len(a)
        OBVIOUS
      <4>2. j \in 1 .. Len(b) /\ Len(a) + j = k
        BY <2>3, <2>5, <3>2, <4>1
      <4>3. u[k] = w[j] /\ c[k] = b[j]
        BY <2>3, <2>4, <4>2
      <4> QED BY <2>2, <4>2, <4>3
    <3> QED BY <3>1, <3>2
  <2>7. Means(f, u, c, z)
    BY <1>2, <2>3, <2>4, <2>6 DEF Means
  <2> QED BY <2>7 DEF c, u
<1> QED BY <1>1, <1>2

\* Of another one that is no message the last value counts.
LEMMA ScalarJoin ==
    ASSUME NEW f, f.label # "REPEATED", ~IsMessage(f.type),
           NEW a, IsSequence(a), NEW b, IsSequence(b), Len(b) > 0,
           NEW w, NEW y, Means(f, w, b, y), NEW z
    PROVE  Means(f, w, a \o b, z)
<1>1. w = Last(b)
  BY DEF Means
<1>2. w = Last(a \o b)
  BY <1>1, LastOfJoin
<1> QED BY <1>2 DEF Means

-----------------------------------------------------------------------------
(* merge_messages. *)

LEMMA MergeField ==
    ASSUME SchemaLaws, InsideLaws, NEW t, IsMessage(t), NEW f \in Fields(t),
           NEW m, NEW n, f.name \in DOMAIN m \cup DOMAIN n
    PROVE  /\ f.name \in DOMAIN merge_messages(t, m, n)
           /\ merge_messages(t, m, n)[f.name] =
                IF f.name \notin DOMAIN n THEN m[f.name]
                ELSE IF f.name \notin DOMAIN m THEN n[f.name]
                ELSE IF f.label = "REPEATED" THEN m[f.name] \o n[f.name]
                ELSE IF f.label = "OPTIONAL" /\ IsMessage(f.type)
                THEN MergedInside(f.type, m[f.name], n[f.name])
                ELSE n[f.name]
<1>1. (CHOOSE g \in Fields(t) : g.name = f.name) = f
  <2>1. \A g \in Fields(t) : g.name = f.name => g = f
    BY DEF SchemaLaws
  <2> QED BY <2>1
<1> QED BY <1>1 DEF merge_messages

\* merge_messages yields what the parts of both messages say together.
LEMMA MergeLaw ==
    ASSUME SchemaLaws, InsideLaws, NEW t, IsMessage(t),
           NEW m, NEW p, ArePartsOf(t, p), Denotes(t, m, p),
           NEW n, NEW q, ArePartsOf(t, q), Denotes(t, n, q)
    PROVE  Denotes(t, merge_messages(t, m, n), p \o q)
<1> DEFINE M == merge_messages(t, m, n)
           A(f) == Values(Concatenated(p), f.id)
           B(f) == Values(Concatenated(q), f.id)
           C(f) == Values(Concatenated(p \o q), f.id)
           X(f) == Values(Last(p), f.id)
           Y(f) == Values(Last(q), f.id)
           Z(f) == Values(Last(p \o q), f.id)
<1>1. \A f \in Fields(t) : C(f) = A(f) \o B(f) /\ Z(f) = Y(f)
  <2>1. IsParts(p) /\ IsParts(q)
    BY PartsHold
  <2>2. \A i : Values(Concatenated(p \o q), i)
                 = Values(Concatenated(p), i) \o Values(Concatenated(q), i)
    BY <2>1, ValuesOfParts
  <2>3. Last(p \o q) = Last(q)
    BY <2>1, PartsJoin
  <2> QED BY <2>2, <2>3
<1>2. \A f \in Fields(t) :
        /\ IsSequence(A(f)) /\ (A(f) # << >> => Len(A(f)) > 0)
        /\ IsSequence(B(f)) /\ (B(f) # << >> => Len(B(f)) > 0)
        /\ IsMessage(f.type) /\ A(f) # << >> => ArePartsInside(f.type, A(f))
        /\ IsMessage(f.type) /\ B(f) # << >> => ArePartsInside(f.type, B(f))
  <2>1. ItemsHold(t, Concatenated(p)) /\ ItemsHold(t, Concatenated(q))
    BY PartsHold
  <2> QED BY <2>1, ValuesHold
<1>3. \A f \in Fields(t) : f.label = "REQUIRED" => B(f) # << >>
  BY PartsHold
<1>4. /\ DOMAIN m = {f.name : f \in {g \in Fields(t) : A(g) # << >>}}
      /\ \A f \in Fields(t) : A(f) # << >> => Means(f, m[f.name], A(f), X(f))
  BY DEF Denotes
<1>5. /\ DOMAIN n = {f.name : f \in {g \in Fields(t) : B(g) # << >>}}
      /\ \A f \in Fields(t) : B(f) # << >> => Means(f, n[f.name], B(f), Y(f))
  BY DEF Denotes
<1> HIDE DEF A, B, C, X, Y, Z
<1>6. \A f \in Fields(t) : /\ f.name \in DOMAIN m <=> A(f) # << >>
                           /\ f.name \in DOMAIN n <=> B(f) # << >>
  BY <1>4, <1>5 DEF SchemaLaws
<1>7. \A f \in Fields(t) : /\ A(f) = << >> => C(f) = B(f)
                           /\ B(f) = << >> => C(f) = A(f)
                           /\ C(f) # << >> <=> A(f) # << >> \/ B(f) # << >>
  <2> TAKE f \in Fields(t)
  <2> DEFINE a == A(f)
             b == B(f)
  <2>1. IsSequence(a) /\ IsSequence(b) /\ C(f) = a \o b
    BY <1>1, <1>2
  <2>2. a # << >> => Len(a) > 0
    BY <1>2
  <2>3. b # << >> => Len(b) > 0
    BY <1>2
  <2> HIDE DEF a, b
  <2>4. Len(a \o b) = Len(a) + Len(b) /\ Len(a) \in Nat /\ Len(b) \in Nat
    BY <2>1, SequenceJoin, SequenceIsSeq
  <2>5. a \in Seq({a[k] : k \in 1 .. Len(a)}) /\ b \in Seq({b[k] : k \in 1 .. Len(b)})
    BY <2>1, SequenceIsSeq
  <2>6. << >> \o b = b /\ a \o << >> = a
    BY <2>5, ConcatEmptySeq
  <2>7. a \o b = << >> => Len(a \o b) = 0
    OBVIOUS
  <2>8. a = << >> => C(f) = b
    BY <2>1, <2>6
  <2>9. b = << >> => C(f) = a
    BY <2>1, <2>6
  <2>10. C(f) # << >> <=> a # << >> \/ b # << >>
    <3>1. C(f) = << >> => Len(a) = 0 /\ Len(b) = 0
      BY <2>1, <2>4, <2>7
    <3> QED BY <2>2, <2>3, <2>8, <3>1
  <2> QED BY <2>8, <2>9, <2>10 DEF a, b
<1>8. DOMAIN M = {f.name : f \in {g \in Fields(t) : C(g) # << >>}}
  <2>1. DOMAIN M = DOMAIN m \cup DOMAIN n
    BY DEF merge_messages
  <2> HIDE DEF M
  <2> QED BY <1>4, <1>5, <1>7, <2>1
<1>9. ASSUME NEW f \in Fields(t), C(f) # << >>
      PROVE  Means(f, M[f.name], C(f), Z(f))
  <2>1. f.name \in DOMAIN m \cup DOMAIN n
    BY <1>6, <1>7, <1>9
  <2>2. M[f.name] = IF f.name \notin DOMAIN n THEN m[f.name]
                    ELSE IF f.name \notin DOMAIN m THEN n[f.name]
                    ELSE IF f.label = "REPEATED" THEN m[f.name] \o n[f.name]
                    ELSE IF f.label = "OPTIONAL" /\ IsMessage(f.type)
                    THEN MergedInside(f.type, m[f.name], n[f.name])
                    ELSE n[f.name]
    BY <2>1, MergeField
  <2> HIDE DEF M
  <2>3. f.label \in {"REQUIRED", "OPTIONAL", "REPEATED"}
    BY DEF SchemaLaws
  <2>4. CASE B(f) = << >>
    <3>1. M[f.name] = m[f.name] /\ C(f) = A(f) /\ A(f) # << >> /\ f.label # "REQUIRED"
      BY <1>3, <1>6, <1>7, <1>9, <2>2, <2>4
    <3>2. Means(f, m[f.name], A(f), X(f))
      BY <1>4, <3>1
    <3> QED BY <3>1, <3>2 DEF Means
  <2>5. CASE B(f) # << >> /\ A(f) = << >>
    <3>1. M[f.name] = n[f.name] /\ C(f) = B(f) /\ Z(f) = Y(f)
      BY <1>1, <1>6, <1>7, <2>2, <2>5
    <3> QED BY <1>5, <2>5, <3>1
  <2>6. CASE B(f) # << >> /\ A(f) # << >>
    <3>1. /\ f.name \in DOMAIN m /\ f.name \in DOMAIN n
          /\ Means(f, m[f.name], A(f), X(f)) /\ Means(f, n[f.name], B(f), Y(f))
          /\ C(f) = A(f) \o B(f) /\ Z(f) = Y(f)
          /\ IsSequence(A(f)) /\ IsSequence(B(f)) /\ Len(B(f)) > 0
      BY <1>1, <1>2, <1>4, <1>5, <1>6, <2>6
    <3>2. CASE f.label = "REPEATED"
      <4>1. M[f.name] = m[f.name] \o n[f.name]
        BY <2>2, <3>1, <3>2
      <4>2. Means(f, m[f.name] \o n[f.name], A(f) \o B(f), Z(f))
        BY <3>1, <3>2, RepeatedJoin
      <4> QED BY <3>1, <4>1, <4>2
    <3>3. CASE f.label # "REPEATED" /\ ~IsMessage(f.type)
      <4>1. M[f.name] = n[f.name]
        BY <2>2, <3>1, <3>3
      <4>2. Means(f, n[f.name], A(f) \o B(f), Z(f))
        BY <3>1, <3>3, ScalarJoin
      <4> QED BY <3>1, <4>1, <4>2
    <3>4. CASE f.label = "OPTIONAL" /\ IsMessage(f.type)
      <4>1. M[f.name] = MergedInside(f.type, m[f.name], n[f.name])
        BY <2>2, <3>1, <3>4
      <4>2. DenotesInside(f.type, m[f.name], A(f)) /\ DenotesInside(f.type, n[f.name], B(f))
        BY <3>1, <3>4 DEF Means
      <4>3. ArePartsInside(f.type, A(f)) /\ ArePartsInside(f.type, B(f))
        BY <1>2, <2>6, <3>4
      <4>4. DenotesInside(f.type, M[f.name], A(f) \o B(f))
        BY <3>4, <4>1, <4>2, <4>3 DEF InsideLaws
      <4> QED BY <3>1, <3>4, <4>4 DEF Means
    <3>5. CASE f.label = "REQUIRED" /\ IsMessage(f.type)
      <4>1. M[f.name] = n[f.name]
        BY <2>2, <3>1, <3>5
      <4>2. DenotesInside(f.type, n[f.name], Y(f))
        BY <3>1, <3>5 DEF Means
      <4> QED BY <3>1, <3>5, <4>1, <4>2 DEF Means
    <3> QED BY <2>3, <3>2, <3>3, <3>4, <3>5
  <2> QED BY <2>4, <2>5, <2>6
<1> QED BY <1>8, <1>9 DEF Denotes, C, Z

-----------------------------------------------------------------------------
(* protobuf_c_message_unpack. *)

\* What the items of one part say.
Says(t, m, items) ==
    /\ DOMAIN m = {f.name : f \in {g \in Fields(t) : Values(items, g.id) # << >>}}
    /\ \A f \in Fields(t) : Values(items, f.id) # << >> =>
         Means(f, m[f.name], Values(items, f.id), Values(items, f.id))

\* A message of one part.
LEMMA SaysDenotes ==
    ASSUME NEW t, NEW m, NEW items, IsSequence(items)
    PROVE  Says(t, m, items) <=> Denotes(t, m, <<items>>)
<1> DEFINE parts == <<items>>
<1>1. Concatenated(parts) = items /\ Last(parts) = items
  BY OnePart
<1> HIDE DEF parts
<1>2. Says(t, m, items) <=> Denotes(t, m, parts)
  BY <1>1 DEF Says, Denotes
<1> QED BY <1>2 DEF parts

\* parse_member keeps a message true to the items.
LEMMA StoredSays ==
    ASSUME SchemaLaws, InsideLaws, NEW t, IsMessage(t),
           NEW items, ItemsHold(t, items), NEW m, Says(t, m, items),
           NEW f \in Fields(t), NEW item, item.number = f.id,
           NEW value, IF IsMessage(f.type)
                      THEN /\ ValidInside(f.type, item.value)
                           /\ DenotesInside(f.type, value, <<item.value>>)
                      ELSE value = item.value
    PROVE  Says(t, Stored(m, f, value), items \o <<item>>)
<1> DEFINE M == Stored(m, f, value)
           A(g) == Values(items, g.id)
           C(g) == Values(items \o <<item>>, g.id)
           x == <<item.value>>
<1>1. \A g \in Fields(t) : C(g) = IF g = f THEN A(g) \o x ELSE A(g)
  <2> TAKE g \in Fields(t)
  <2>1. IsSequence(items) /\ IsSequence(<<item>>)
    <3>1. <<item>> \in Seq({item})
      OBVIOUS
    <3> QED BY <3>1, SeqIsSequence DEF ItemsHold
  <2>2. C(g) = A(g) \o Values(<<item>>, g.id)
    BY <2>1, ValuesJoin
  <2>3. Values(<<item>>, g.id) = IF g = f THEN x ELSE << >>
    <3>1. g.id = f.id <=> g = f
      BY DEF SchemaLaws
    <3> QED BY <3>1, ValuesOfOne
  <2>4. IsSequence(A(g))
    BY ValuesHold
  <2> HIDE DEF A, C, x
  <2>5. A(g) \o << >> = A(g)
    BY <2>4, SequenceIsSeq, ConcatEmptySeq
  <2> QED BY <2>2, <2>3, <2>5
<1>2. \A g \in Fields(t) :
        /\ IsSequence(A(g))
        /\ IsMessage(g.type) /\ A(g) # << >> => ArePartsInside(g.type, A(g))
  BY ValuesHold
<1>3. /\ IsSequence(x) /\ Len(x) = 1 /\ x[1] = item.value /\ Last(x) = item.value
      /\ IsMessage(f.type) => ArePartsInside(f.type, x)
  <2>1. x \in Seq({item.value}) /\ Len(x) = 1 /\ x[1] = item.value /\ Last(x) = item.value
    BY DEF Last
  <2> HIDE DEF x
  <2> QED BY <2>1, SeqIsSequence DEF ArePartsInside
<1>4. /\ DOMAIN m = {g.name : g \in {h \in Fields(t) : A(h) # << >>}}
      /\ \A g \in Fields(t) : A(g) # << >> => Means(g, m[g.name], A(g), A(g))
  BY DEF Says
<1> DEFINE a == A(f)
           earlier == f.name \in DOMAIN m
           new == IF f.label = "REPEATED"
                  THEN (IF earlier THEN m[f.name] ELSE << >>) \o <<value>>
                  ELSE IF earlier /\ IsMessage(f.type)
                  THEN MergedInside(f.type, m[f.name], value)
                  ELSE value
<1>5. /\ DOMAIN M = DOMAIN m \cup {f.name} /\ M[f.name] = new
      /\ \A i \in DOMAIN m : i # f.name => M[i] = m[i]
  BY DEF Stored
<1> HIDE DEF A, C, x, M
<1>6. earlier <=> a # << >>
  BY <1>4 DEF SchemaLaws
<1>7. Len(a \o x) = Len(a) + 1 /\ Len(a) \in Nat /\ a \o x # << >>
  <2>1. IsSequence(a) /\ IsSequence(x) /\ Len(x) = 1
    BY <1>2, <1>3
  <2> HIDE DEF a
  <2>2. Len(a \o x) = Len(a) + Len(x) /\ Len(a) \in Nat
    BY <2>1, SequenceJoin, SequenceIsSeq
  <2> DEFINE c == a \o x
  <2>3. Len(c) = Len(a) + 1
    BY <2>1, <2>2
  <2> HIDE DEF c
  <2>4. c # << >>
    BY <2>2, <2>3
  <2> QED BY <2>2, <2>3, <2>4 DEF c
<1>8. DOMAIN M = {g.name : g \in {h \in Fields(t) : C(h) # << >>}}
  BY <1>1, <1>4, <1>5, <1>7
<1>9. ASSUME NEW g \in Fields(t), C(g) # << >>, g # f
      PROVE  Means(g, M[g.name], C(g), C(g))
  <2>1. g.name # f.name
    BY <1>9 DEF SchemaLaws
  <2>2. C(g) = A(g) /\ g.name \in DOMAIN m
    BY <1>1, <1>4, <1>9
  <2> QED BY <1>4, <1>5, <1>9, <2>1, <2>2
<1>10. Means(f, new, a \o x, a \o x)
  <2>1. earlier => Means(f, m[f.name], a, a)
    BY <1>4, <1>6
  <2>2. IsSequence(a) /\ IsSequence(x) /\ Len(x) > 0
    BY <1>2, <1>3
  <2>3. CASE f.label = "REPEATED"
    <3> DEFINE before == IF earlier THEN m[f.name] ELSE << >>
    <3>1. Means(f, before, a, a)
      <4>1. ~earlier => before = << >> /\ a = << >>
        BY <1>6
      <4>2. << >> \in Seq({}) /\ Len(<< >>) = 0
        OBVIOUS
      <4>3. IsSequence(<< >>)
        BY <4>2, SeqIsSequence
      <4>4. Means(f, << >>, << >>, << >>)
        BY <2>3, <4>2, <4>3 DEF Means
      <4> QED BY <2>1, <4>1, <4>4
    <3>2. Means(f, <<value>>, x, x)
      <4>1. CASE IsMessage(f.type)
        <5>1. <<value>> \in Seq({value}) /\ Len(<<value>>) = 1 /\ <<value>>[1] = value
          OBVIOUS
        <5>2. IsSequence(<<value>>)
          BY <5>1, SeqIsSequence
        <5>3. \A k \in 1 .. Len(x) : DenotesInside(f.type, <<value>>[k], <<x[k]>>)
          BY <1>3, <4>1, <5>1
        <5> QED BY <1>3, <2>3, <4>1, <5>1, <5>2, <5>3 DEF Means
      <4>2. CASE ~IsMessage(f.type)
        BY <2>3, <4>2 DEF Means, x
      <4> QED BY <4>1, <4>2
    <3>3. new = before \o <<value>>
      BY <2>3
    <3> HIDE DEF before, new, a
    <3>4. Means(f, before \o <<value>>, a \o x, a \o x)
      BY <2>2, <2>3, <3>1, <3>2, RepeatedJoin
    <3> QED BY <3>3, <3>4
  <2>4. CASE f.label # "REPEATED" /\ ~IsMessage(f.type)
    <3>1. new = item.value
      BY <2>4
    <3>2. Means(f, item.value, x, x)
      BY <1>3, <2>4 DEF Means
    <3> HIDE DEF new, a
    <3> QED BY <2>2, <2>4, <3>1, <3>2, ScalarJoin
  <2>5. CASE f.label # "REPEATED" /\ IsMessage(f.type)
    <3>1. DenotesInside(f.type, value, x) /\ ArePartsInside(f.type, x)
      BY <1>3, <2>5 DEF x
    <3>2. CASE ~earlier
      <4>1. a = << >> /\ new = value
        BY <1>6, <2>5, <3>2
      <4>2. a \o x = x
        BY <2>2, <4>1, SequenceIsSeq, ConcatEmptySeq
      <4> HIDE DEF new, a
      <4> QED BY <2>5, <3>1, <4>1, <4>2 DEF Means
    <3>3. CASE earlier
      <4>1. DenotesInside(f.type, m[f.name], a) /\ ArePartsInside(f.type, a)
        BY <1>2, <1>6, <2>1, <2>5, <3>3 DEF Means
      <4>2. new = MergedInside(f.type, m[f.name], value)
        BY <2>5, <3>3
      <4> HIDE DEF new, a
      <4>3. DenotesInside(f.type, new, a \o x)
        BY <2>5, <3>1, <4>1, <4>2 DEF InsideLaws
      <4> QED BY <2>5, <4>3 DEF Means
    <3> QED BY <3>2, <3>3
  <2> QED BY <2>3, <2>4, <2>5
<1>11. C(f) = a \o x
  BY <1>1
<1>12. \A g \in Fields(t) : C(g) # << >> => Means(g, M[g.name], C(g), C(g))
  BY <1>5, <1>9, <1>10, <1>11
<1> QED BY <1>8, <1>12 DEF Says, C, M

\* The message after each item.
KnownItems(t, items) == {k \in DOMAIN items : FieldsOf(t, items[k]) # {}}
IsDecoding(v, t, items) ==
    /\ v[0] = NoMessage
    /\ \A k \in 1 .. Len(items) :
         v[k] = IF k \in KnownItems(t, items)
                THEN Stored(v[k - 1], TheField(t, items[k]),
                            CHOOSE x \in Parsed(t, items[k]) : TRUE)
                ELSE v[k - 1]

\* When there is none.
IsRefused(t, items) ==
    LET found == UNION {FieldsOf(t, items[k]) : k \in KnownItems(t, items)}
    IN  \/ \E k \in DOMAIN items : items[k].wt \notin {0, 1, 2, 5}
        \/ \E f \in Fields(t) \ found : f.label = "REQUIRED"
        \/ \E k \in KnownItems(t, items) : Parsed(t, items[k]) = {}

\* The message after each item exists, and the last one is what unpack returns.
LEMMA UnpackedUpto ==
    ASSUME NEW t, NEW items, Len(items) \in Nat
    PROVE  \E v : /\ IsDecoding(v, t, items)
                  /\ Unpacked(t, items) =
                       IF IsRefused(t, items) THEN {} ELSE {v[Len(items)]}
<1> DEFINE known == KnownItems(t, items)
           body(v, k) == IF k = 0 THEN NoMessage
                         ELSE IF k \in known
                         THEN Stored(v[k - 1], TheField(t, items[k]),
                                     CHOOSE x \in Parsed(t, items[k]) : TRUE)
                         ELSE v[k - 1]
           S == {n \in Nat : \E v : v = [k \in 0 .. n |-> body(v, k)]}
<1>1. \A v : body(v, 0) = NoMessage
  OBVIOUS
<1>2. \A v, k : k # 0 => body(v, k) = IF k \in known
                                      THEN Stored(v[k - 1], TheField(t, items[k]),
                                                  CHOOSE x \in Parsed(t, items[k]) : TRUE)
                                      ELSE v[k - 1]
  OBVIOUS
<1>3. \A v, w, k : k # 0 /\ v[k - 1] = w[k - 1] => body(v, k) = body(w, k)
  OBVIOUS
<1> HIDE DEF body
<1>4. 0 \in S
  <2> DEFINE w == [k \in 0 .. 0 |-> NoMessage]
  <2>1. \A k \in 0 .. 0 : body(w, k) = NoMessage
    BY <1>1
  <2>2. w = [k \in 0 .. 0 |-> body(w, k)]
    BY <2>1
  <2> QED BY <2>2
<1>5. ASSUME NEW n \in Nat, n \in S PROVE n + 1 \in S
  <2>1. PICK v : v = [k \in 0 .. n |-> body(v, k)]
    BY <1>5
  <2> DEFINE w == [k \in 0 .. n + 1 |-> body(v, k)]
  <2>2. \A k \in 0 .. n : w[k] = v[k]
    BY <2>1
  <2>3. \A k \in 0 .. n + 1 : k = 0 \/ k - 1 \in 0 .. n
    OBVIOUS
  <2> HIDE DEF w
  <2>4. ASSUME NEW k \in 0 .. n + 1 PROVE body(v, k) = body(w, k)
    <3>1. CASE k = 0
      BY <1>1, <3>1
    <3>2. CASE k # 0
      <4>1. v[k - 1] = w[k - 1]
        BY <2>2, <2>3, <3>2
      <4> QED BY <1>3, <3>2, <4>1
    <3> QED BY <3>1, <3>2
  <2>5. w = [k \in 0 .. n + 1 |-> body(w, k)]
    BY <2>4 DEF w
  <2>6. \E x : x = [k \in 0 .. n + 1 |-> body(x, k)]
    BY <2>5
  <2> QED BY <2>6
<1>6. \E v : v = [k \in 0 .. Len(items) |-> body(v, k)]
  <2>1. Len(items) \in S
    BY <1>4, <1>5, Induction
  <2> QED BY <2>1
<1> DEFINE u == CHOOSE v : v = [k \in 0 .. Len(items) |-> body(v, k)]
<1>7. u = [k \in 0 .. Len(items) |-> body(u, k)]
  BY <1>6
<1>8. Unpacked(t, items) = IF IsRefused(t, items) THEN {} ELSE {u[Len(items)]}
  BY DEF Unpacked, IsRefused, KnownItems, body
<1> HIDE DEF u
<1>9. u[0] = NoMessage
  BY <1>1, <1>7
<1>10. ASSUME NEW k \in 1 .. Len(items)
       PROVE  u[k] = IF k \in known
                     THEN Stored(u[k - 1], TheField(t, items[k]),
                                 CHOOSE x \in Parsed(t, items[k]) : TRUE)
                     ELSE u[k - 1]
  <2>1. k \in 0 .. Len(items) /\ k # 0
    OBVIOUS
  <2>2. u[k] = body(u, k)
    BY <1>7, <2>1
  <2> QED BY <1>2, <2>1, <2>2
<1>11. IsDecoding(u, t, items)
  BY <1>9, <1>10 DEF IsDecoding
<1> QED BY <1>8, <1>11

\* The field of an item, and what is parsed of it.
LEMMA FieldOfItem ==
    ASSUME SchemaLaws, InsideLaws, NEW t, IsMessage(t),
           NEW item, item.number \in Nat, NEW f \in FieldNumbered(t, item.number)
    PROVE  /\ FieldsOf(t, item) = {f} /\ FieldNumbered(t, item.number) = {f}
           /\ TheField(t, item) = f
           /\ Parsed(t, item) = IF ~Accepts(f, item) THEN {}
                                ELSE IF IsMessage(f.type) THEN UnpackedInside(f.type, item.value)
                                ELSE {item.value}
<1>1. FieldNumbered(t, item.number) = {f}
  BY DEF SchemaLaws, FieldNumbered
<1>2. FieldsOf(t, item) = {f}
  BY <1>1 DEF SchemaLaws
<1>3. TheField(t, item) = f
  BY <1>2 DEF TheField
<1> QED BY <1>1, <1>2, <1>3 DEF Parsed

\* Items on the wire are of the fields that their numbers name.
LEMMA KnownField ==
    ASSUME SchemaLaws, NEW t, IsMessage(t), NEW items, IsWire(t, items)
    PROVE  /\ IsSequence(items) /\ Len(items) \in Nat /\ DOMAIN items = 1 .. Len(items)
           /\ \A k \in 1 .. Len(items) :
                /\ items[k].number \in Nat
                /\ FieldsOf(t, items[k]) = FieldNumbered(t, items[k].number)
                /\ k \in KnownItems(t, items) <=>
                     \E f \in Fields(t) : f.id = items[k].number
<1>1. IsSequence(items) /\ Len(items) \in Nat /\ DOMAIN items = 1 .. Len(items)
  BY SequenceIsSeq DEF IsWire
<1>2. \A k \in 1 .. Len(items) : items[k].number \in Nat
  BY <1>1 DEF IsWire
<1>3. \A k \in 1 .. Len(items) : FieldsOf(t, items[k]) = FieldNumbered(t, items[k].number)
  BY <1>2 DEF SchemaLaws
<1> QED BY <1>1, <1>2, <1>3 DEF KnownItems, FieldNumbered

\* unpack gives NULL for what is malformed.
LEMMA RefusesLaw ==
    ASSUME SchemaLaws, InsideLaws, NEW t, IsMessage(t),
           NEW items, IsWire(t, items), ~WellFormed(t, items)
    PROVE  Unpacked(t, items) = {}
<1>1. /\ IsSequence(items) /\ Len(items) \in Nat /\ DOMAIN items = 1 .. Len(items)
      /\ \A k \in 1 .. Len(items) :
           /\ items[k].number \in Nat
           /\ FieldsOf(t, items[k]) = FieldNumbered(t, items[k].number)
           /\ k \in KnownItems(t, items) <=> \E f \in Fields(t) : f.id = items[k].number
  BY KnownField
<1>2. PICK v : Unpacked(t, items) = IF IsRefused(t, items) THEN {} ELSE {v[Len(items)]}
  BY <1>1, UnpackedUpto
<1>3. CASE \E k \in DOMAIN items : items[k].wt \notin {0, 1, 2, 5}
  BY <1>2, <1>3 DEF IsRefused
<1>4. CASE \E k \in DOMAIN items : \E f \in FieldNumbered(t, items[k].number) :
             ~(Accepts(f, items[k]) /\ (IsMessage(f.type) => WellFormedInside(f.type, items[k].value)))
  <2>0. PICK k \in DOMAIN items : \E f \in FieldNumbered(t, items[k].number) :
          ~(Accepts(f, items[k]) /\ (IsMessage(f.type) => WellFormedInside(f.type, items[k].value)))
    BY <1>4
  <2>1. PICK f \in FieldNumbered(t, items[k].number) :
          ~(Accepts(f, items[k]) /\ (IsMessage(f.type) => WellFormedInside(f.type, items[k].value)))
    BY <2>0
  <2>2. Accepts(f, items[k]) /\ IsMessage(f.type) => IsWireInside(f.type, items[k].value)
    BY DEF IsWire
  <2>3. Accepts(f, items[k]) => IsMessage(f.type) /\ UnpackedInside(f.type, items[k].value) = {}
    BY <2>1, <2>2 DEF InsideLaws
  <2>4. Parsed(t, items[k]) = IF ~Accepts(f, items[k]) THEN {}
                              ELSE IF IsMessage(f.type)
                              THEN UnpackedInside(f.type, items[k].value)
                              ELSE {items[k].value}
    BY <1>1, FieldOfItem
  <2>5. Parsed(t, items[k]) = {} /\ k \in KnownItems(t, items)
    BY <1>1, <2>3, <2>4 DEF FieldNumbered
  <2> QED BY <1>2, <2>5 DEF IsRefused
<1>5. CASE \E f \in Fields(t) : f.label = "REQUIRED" /\ ~\E k \in DOMAIN items : items[k].number = f.id
  <2>1. PICK f \in Fields(t) : f.label = "REQUIRED" /\ ~\E k \in DOMAIN items : items[k].number = f.id
    BY <1>5
  <2>2. f \notin UNION {FieldsOf(t, items[k]) : k \in KnownItems(t, items)}
    BY <1>1, <2>1 DEF KnownItems, FieldNumbered
  <2> QED BY <1>2, <2>1, <2>2 DEF IsRefused
<1> QED BY <1>3, <1>4, <1>5 DEF WellFormed

\* The first items of a message.
Before(items, k) == [j \in 1 .. k |-> items[j]]

\* The items before each position.
LEMMA BeforeGrows ==
    ASSUME NEW items, IsSequence(items)
    PROVE  /\ Before(items, 0) = << >> /\ Before(items, Len(items)) = items
           /\ \A k \in 0 .. Len(items) : IsSequence(Before(items, k)) /\ Len(Before(items, k)) = k
           /\ \A k \in 1 .. Len(items) : Before(items, k) = Before(items, k - 1) \o <<items[k]>>
<1>1. Len(items) \in Nat /\ items = [k \in 1 .. Len(items) |-> items[k]]
  BY DEF IsSequence
<1>2. Before(items, 0) = << >>
  BY DEF Before
<1>3. Before(items, Len(items)) = items
  BY <1>1 DEF Before
<1>4. ASSUME NEW k \in 0 .. Len(items)
      PROVE  IsSequence(Before(items, k)) /\ Len(Before(items, k)) = k
  <2>1. k \in Nat
    BY <1>1
  <2>2. Before(items, k) = [j \in 1 .. k |-> items[j]]
    BY DEF Before
  <2>3. Len(Before(items, k)) = k
    BY <2>1, <2>2
  <2>4. \A j \in 1 .. k : Before(items, k)[j] = items[j]
    BY <2>2
  <2> QED BY <2>1, <2>2, <2>3, <2>4 DEF IsSequence
<1>5. ASSUME NEW k \in 1 .. Len(items)
      PROVE  Before(items, k) = Before(items, k - 1) \o <<items[k]>>
  <2> DEFINE a == Before(items, k - 1)
             b == Before(items, k)
             c == a \o <<items[k]>>
  <2>1. k \in 0 .. Len(items) /\ k - 1 \in 0 .. Len(items) /\ k \in Nat /\ k - 1 \in Nat
    BY <1>1
  <2>2. IsSequence(a) /\ Len(a) = k - 1 /\ IsSequence(b) /\ Len(b) = k
    BY <1>4, <2>1
  <2>3. /\ \A j \in 1 .. k - 1 : a[j] = items[j]
        /\ \A j \in 1 .. k : b[j] = items[j]
    BY DEF Before
  <2>4. IsSequence(<<items[k]>>) /\ Len(<<items[k]>>) = 1 /\ <<items[k]>>[1] = items[k]
    <3>1. <<items[k]>> \in Seq({items[k]})
      OBVIOUS
    <3> QED BY <3>1, SeqIsSequence
  <2> DEFINE x == <<items[k]>>
  <2> HIDE DEF x, a, b
  <2>5. /\ Len(c) = Len(a) + Len(x) /\ IsSequence(c)
        /\ \A j \in 1 .. Len(a) : c[j] = a[j]
        /\ \A j \in 1 .. Len(x) : c[Len(a) + j] = x[j]
    BY <2>2, <2>4, SequenceJoin DEF x
  <2> HIDE DEF c
  <2>6. Len(c) = k /\ c[k] = items[k]
    <3>1. Len(x) = 1 /\ x[1] = items[k]
      BY <2>4 DEF x
    <3>2. 1 \in 1 .. Len(x) /\ Len(a) + 1 = k
      BY <2>1, <2>2, <3>1
    <3> QED BY <2>5, <3>1, <3>2
  <2>7. ASSUME NEW j \in 1 .. k PROVE c[j] = b[j]
    <3>1. CASE j = k
      BY <2>3, <2>6, <3>1
    <3>2. CASE j # k
      <4>1. j \in 1 .. k - 1
        BY <2>1, <3>2
      <4> QED BY <2>2, <2>3, <2>5, <4>1
    <3> QED BY <3>1, <3>2
  <2>8. c = [j \in 1 .. k |-> c[j]] /\ b = [j \in 1 .. k |-> b[j]]
    BY <2>2, <2>5, <2>6 DEF IsSequence
  <2>9. c = b
    BY <2>7, <2>8
  <2> QED BY <2>9 DEF a, b, c, x
<1> QED BY <1>2, <1>3, <1>4, <1>5

\* unpack gives what well-formed items stand for.
LEMMA UnpacksLaw ==
    ASSUME SchemaLaws, InsideLaws, NEW t, IsMessage(t), NEW items, Valid(t, items)
    PROVE  \E m : Unpacked(t, items) = {m} /\ Denotes(t, m, <<items>>)
<1>0. IsWire(t, items) /\ WellFormed(t, items)
  BY DEF Valid
<1>1. /\ IsSequence(items) /\ Len(items) \in Nat /\ DOMAIN items = 1 .. Len(items)
      /\ \A k \in 1 .. Len(items) :
           /\ items[k].number \in Nat
           /\ FieldsOf(t, items[k]) = FieldNumbered(t, items[k].number)
           /\ k \in KnownItems(t, items) <=> \E f \in Fields(t) : f.id = items[k].number
  BY <1>0, KnownField
<1>2. PICK v : /\ IsDecoding(v, t, items)
               /\ Unpacked(t, items) = IF IsRefused(t, items) THEN {} ELSE {v[Len(items)]}
  BY <1>1, UnpackedUpto
<1>3. ASSUME NEW k \in 1 .. Len(items), NEW f \in FieldNumbered(t, items[k].number)
      PROVE  /\ TheField(t, items[k]) = f
             /\ \E x : /\ Parsed(t, items[k]) = {x}
                       /\ IF IsMessage(f.type)
                          THEN /\ ValidInside(f.type, items[k].value)
                               /\ DenotesInside(f.type, x, <<items[k].value>>)
                          ELSE x = items[k].value
  <2>1. Accepts(f, items[k])
    BY <1>0, <1>1 DEF WellFormed
  <2>2. /\ TheField(t, items[k]) = f
        /\ Parsed(t, items[k]) = IF ~Accepts(f, items[k]) THEN {}
                                 ELSE IF IsMessage(f.type)
                                 THEN UnpackedInside(f.type, items[k].value)
                                 ELSE {items[k].value}
    BY <1>1, FieldOfItem
  <2>3. CASE IsMessage(f.type)
    <3>1. ValidInside(f.type, items[k].value)
      BY <1>0, <1>1, <2>1, <2>3 DEF IsWire, WellFormed, ValidInside
    <3>2. PICK x : /\ UnpackedInside(f.type, items[k].value) = {x}
                   /\ DenotesInside(f.type, x, <<items[k].value>>)
      BY <2>3, <3>1 DEF InsideLaws
    <3> QED BY <2>1, <2>2, <2>3, <3>1, <3>2
  <2>4. CASE ~IsMessage(f.type)
    BY <2>1, <2>2, <2>4
  <2> QED BY <2>3, <2>4
<1>4. ~IsRefused(t, items)
  <2>1. \A k \in DOMAIN items : items[k].wt \in {0, 1, 2, 5}
    BY <1>0 DEF WellFormed
  <2>2. ASSUME NEW f \in Fields(t), f.label = "REQUIRED"
        PROVE  f \in UNION {FieldsOf(t, items[k]) : k \in KnownItems(t, items)}
    <3>1. PICK k \in DOMAIN items : items[k].number = f.id
      BY <1>0, <2>2 DEF WellFormed
    <3>2. f \in FieldsOf(t, items[k]) /\ k \in KnownItems(t, items)
      BY <1>1, <3>1 DEF FieldNumbered
    <3> QED BY <3>2
  <2>3. ASSUME NEW k \in KnownItems(t, items) PROVE Parsed(t, items[k]) # {}
    <3>1. k \in 1 .. Len(items)
      BY <1>1 DEF KnownItems
    <3>2. PICK f \in FieldNumbered(t, items[k].number) : TRUE
      BY <1>1, <3>1 DEF KnownItems
    <3> QED BY <1>3, <3>1, <3>2
  <2> QED BY <2>1, <2>2, <2>3 DEF IsRefused
<1>5. ItemsHold(t, items)
  BY ValidItemsHold
<1>6. \A k \in 0 .. Len(items) : ItemsHold(t, Before(items, k))
  <2> TAKE k \in 0 .. Len(items)
  <2>1. IsSequence(Before(items, k)) /\ Len(Before(items, k)) = k
    BY <1>1, BeforeGrows
  <2>2. \A j \in 1 .. k : j \in 1 .. Len(items) /\ Before(items, k)[j] = items[j]
    BY <1>1 DEF Before
  <2> QED BY <1>5, <2>1, <2>2 DEF ItemsHold
<1> DEFINE S == {k \in Nat : Says(t, v[k], Before(items, k))}
<1>7. 0 \in S
  <2>1. Before(items, 0) = << >> /\ v[0] = << >>
    BY <1>1, <1>2, BeforeGrows DEF IsDecoding, NoMessage
  <2>2. IsSequence(<< >>) /\ Len(<< >>) = 0
    <3>1. << >> \in Seq({}) /\ Len(<< >>) = 0
      OBVIOUS
    <3> QED BY <3>1, SeqIsSequence
  <2>3. \A i : Values(<< >>, i) = << >>
    <3> TAKE i
    <3>1. ~\E k \in 1 .. Len(<< >>) : << >>[k].number = i
      BY <2>2
    <3> QED BY <2>2, <3>1, ValuesMembers
  <2>4. Says(t, << >>, << >>)
    <3>1. DOMAIN << >> = {}
      OBVIOUS
    <3> QED BY <2>3, <3>1 DEF Says
  <2> QED BY <2>1, <2>4
<1>8. ASSUME NEW k \in Nat, k < Len(items), k \in S PROVE k + 1 \in S
  <2> DEFINE n == k + 1
             s == Before(items, k)
             item == items[n]
  <2>1. n \in 1 .. Len(items) /\ n - 1 = k /\ n \in Nat /\ k \in 0 .. Len(items)
    BY <1>1, <1>8
  <2>2. Says(t, v[k], s) /\ ItemsHold(t, s)
    BY <1>6, <1>8, <2>1
  <2> HIDE DEF S, n
  <2>3. Before(items, n) = s \o <<item>>
    <3>1. Before(items, n) = Before(items, n - 1) \o <<items[n]>>
      BY <1>1, <2>1, BeforeGrows
    <3> QED BY <2>1, <3>1
  <2>4. v[n] = IF n \in KnownItems(t, items)
               THEN Stored(v[k], TheField(t, item), CHOOSE x \in Parsed(t, item) : TRUE)
               ELSE v[k]
    <3>1. v[n] = IF n \in KnownItems(t, items)
                 THEN Stored(v[n - 1], TheField(t, items[n]),
                             CHOOSE x \in Parsed(t, items[n]) : TRUE)
                 ELSE v[n - 1]
      BY <1>2, <2>1 DEF IsDecoding
    <3> QED BY <2>1, <3>1
  <2>5. Says(t, v[n], s \o <<item>>)
    <3>1. CASE n \in KnownItems(t, items)
      <4>1. PICK f \in Fields(t) : f.id = item.number
        BY <1>1, <2>1, <3>1
      <4>2. f \in FieldNumbered(t, item.number)
        BY <4>1 DEF FieldNumbered
      <4>3. TheField(t, item) = f
        BY <1>3, <2>1, <4>2
      <4>4. PICK x : /\ Parsed(t, item) = {x}
                     /\ IF IsMessage(f.type)
                        THEN /\ ValidInside(f.type, item.value)
                             /\ DenotesInside(f.type, x, <<item.value>>)
                        ELSE x = item.value
        BY <1>3, <2>1, <4>2
      <4>5. (CHOOSE y \in Parsed(t, item) : TRUE) = x
        BY <4>4
      <4>6. v[n] = Stored(v[k], f, x)
        BY <2>4, <3>1, <4>3, <4>5
      <4> HIDE DEF item, s
      <4>7. Says(t, Stored(v[k], f, x), s \o <<item>>)
        BY <2>2, <4>1, <4>4, StoredSays
      <4> QED BY <4>6, <4>7
    <3>2. CASE n \notin KnownItems(t, items)
      <4>1. \A f \in Fields(t) : f.id # item.number
        BY <1>1, <2>1, <3>2
      <4>2. v[n] = v[k]
        BY <2>4, <3>2
      <4> HIDE DEF item, s
      <4>3. IsSequence(s) /\ IsSequence(<<item>>)
        <5>1. <<item>> \in Seq({item})
          OBVIOUS
        <5> QED BY <2>2, <5>1, SeqIsSequence DEF ItemsHold
      <4>4. ASSUME NEW f \in Fields(t)
            PROVE  Values(s \o <<item>>, f.id) = Values(s, f.id)
        <5>1. Values(<<item>>, f.id) = << >>
          BY <4>1, ValuesOfOne
        <5>a. Values(s \o <<item>>, f.id) = Values(s, f.id) \o Values(<<item>>, f.id)
          BY <4>3, ValuesJoin
        <5>2. Values(s \o <<item>>, f.id) = Values(s, f.id) \o << >>
          BY <5>1, <5>a
        <5>3. IsSequence(Values(s, f.id))
          BY <2>2, ValuesHold
        <5> QED BY <5>2, <5>3, SequenceIsSeq, ConcatEmptySeq
      <4> QED BY <2>2, <4>2, <4>4 DEF Says
    <3> QED BY <3>1, <3>2
  <2> QED BY <2>1, <2>3, <2>5 DEF S, n
<1> HIDE DEF S
<1>9. Len(items) \in S
  <2>1. \A k \in 0 .. Len(items) : k \in S
    BY <1>1, <1>7, <1>8, InductionUpto
  <2> QED BY <1>1, <2>1
<1>10. Says(t, v[Len(items)], items)
  BY <1>1, <1>9, BeforeGrows DEF S
<1>11. Denotes(t, v[Len(items)], <<items>>)
  BY <1>1, <1>10, SaysDenotes
<1> QED BY <1>2, <1>4, <1>11

-----------------------------------------------------------------------------
\* If what is inside messages is unpacked and merged as it should be, so are the
\* messages that contain it: parse_member, merge_messages and the scan for
\* required fields are right for every schema that obeys SchemaLaws.
THEOREM Lift ==
    ASSUME SchemaLaws, InsideLaws
    PROVE  LevelLaws
<1> SUFFICES ASSUME NEW t, IsMessage(t)
             PROVE  /\ \A items : IsWire(t, items) /\ ~WellFormed(t, items) =>
                         Unpacked(t, items) = {}
                    /\ \A items : Valid(t, items) =>
                         \E m : Unpacked(t, items) = {m} /\ Denotes(t, m, <<items>>)
                    /\ \A m, n, p, q : /\ ArePartsOf(t, p) /\ Denotes(t, m, p)
                                       /\ ArePartsOf(t, q) /\ Denotes(t, n, q)
                                       => Denotes(t, merge_messages(t, m, n), p \o q)
  BY DEF LevelLaws
<1>1. \A items : IsWire(t, items) /\ ~WellFormed(t, items) => Unpacked(t, items) = {}
  BY RefusesLaw
<1>2. \A items : Valid(t, items) =>
        \E m : Unpacked(t, items) = {m} /\ Denotes(t, m, <<items>>)
  BY UnpacksLaw
<1>3. \A m, n, p, q : /\ ArePartsOf(t, p) /\ Denotes(t, m, p)
                      /\ ArePartsOf(t, q) /\ Denotes(t, n, q)
                      => Denotes(t, merge_messages(t, m, n), p \o q)
  BY MergeLaw
<1> QED BY <1>1, <1>2, <1>3

-----------------------------------------------------------------------------
(* Reading a message. *)

\* A message that has come has come in at least one part.
LEMMA EmptyParts == \A t : ~ArePartsOf(t, << >>)
  BY DEF ArePartsOf

\* A text is a sequence and a name of an enumeration a number.
IsOfType(f, value) ==
    /\ f.type = "STRING" => IsSequence(value)
    /\ IsEnum(f.type) => value \in Int

\* The value that counts of a field is of the field's type.
LEMMA LastOfType ==
    ASSUME NEW t, NEW p, ArePartsOf(t, p), NEW f, f \in Fields(t)
    PROVE  Values(Concatenated(p), f.id) # << >>
             => IsOfType(f, Last(Values(Concatenated(p), f.id)))
<1> DEFINE P == {x \in UNION {{p[k][j] : j \in 1 .. Len(p[k])} : k \in 1 .. Len(p)} :
                   \A g \in FieldNumbered(t, x.number) : IsOfType(g, x.value)}
           c == Concatenated(p)
           K == {j \in 1 .. Len(c) : c[j].number = f.id}
           R == {c[k].value : k \in K}
           all == Values(c, f.id)
<1>1. IsParts(p) /\ IsSequence(c)
  BY PartsHold DEF ItemsHold
<1>2. \A k \in 1 .. Len(p) : IsWire(t, p[k]) /\ WellFormed(t, p[k]) /\ IsSequence(p[k])
  BY DEF ArePartsOf, Valid, IsWire
<1>3. ASSUME NEW k \in 1 .. Len(p), NEW j \in 1 .. Len(p[k]) PROVE p[k][j] \in P
  <2>1. j \in DOMAIN p[k]
    BY <1>2, SequenceIsSeq
  <2>2. \A g \in FieldNumbered(t, p[k][j].number) : IsOfType(g, p[k][j].value)
    BY <1>2, <2>1 DEF IsWire, WellFormed, IsOfType
  <2> QED BY <2>2
<1>4. \A x \in P : f.id = x.number => IsOfType(f, x.value)
  BY DEF FieldNumbered
<1> HIDE DEF P
<1>5. \A k \in 1 .. Len(c) : c[k] \in P
  BY <1>1, <1>3, ItemsOfParts
<1>6. \A x \in R : IsOfType(f, x)
  BY <1>4, <1>5
<1>7. all \in Seq(R)
  BY <1>1, ValuesMembers
<1> HIDE DEF c, R, K, all
<1>8. all # << >> => Last(all) \in R
  BY <1>7, EmptySeq, ElementOfSeq DEF Last
<1> QED BY <1>6, <1>8 DEF all, c

\* What a field of a message says that came in parts.
LEMMA FieldRead ==
    ASSUME SchemaLaws, NEW t, IsMessage(t), NEW p, ArePartsOf(t, p),
           NEW m, Denotes(t, m, p), NEW f, f \in Fields(t)
    PROVE  LET all == Values(Concatenated(p), f.id)
           IN  /\ f.name \in DOMAIN m <=> all # << >>
               /\ f.label = "REQUIRED" => all # << >>
               /\ all # << >> => /\ Means(f, m[f.name], all, Values(Last(p), f.id))
                                 /\ IsMessage(f.type) => ArePartsInside(f.type, all)
                                 /\ IsOfType(f, Last(all))
<1> DEFINE all(g) == Values(Concatenated(p), g.id)
           sent == {g \in Fields(t) : all(g) # << >>}
<1>1. /\ DOMAIN m = {g.name : g \in sent}
      /\ \A g \in sent : Means(g, m[g.name], all(g), Values(Last(p), g.id))
  BY DEF Denotes
<1>2. \A g \in Fields(t) : g.name = f.name => g = f
  BY DEF SchemaLaws
<1>3. f.label = "REQUIRED" => all(f) # << >>
  BY PartsHold
<1>4. ItemsHold(t, Concatenated(p))
  BY PartsHold
<1>5. IsMessage(f.type) /\ all(f) # << >> => ArePartsInside(f.type, all(f))
  BY <1>4, ValuesHold
<1>6. all(f) # << >> => IsOfType(f, Last(all(f)))
  BY LastOfType
<1> HIDE DEF all
<1> QED BY <1>1, <1>2, <1>3, <1>5, <1>6 DEF all

==============================================================================
