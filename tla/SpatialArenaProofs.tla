------------------------- MODULE SpatialArenaProofs -------------------------
(***************************************************************************)
(* The safety of SpatialArena::update for every number of writers and      *)
(* buckets, every window size and timestamp width.  The inductive          *)
(* invariant adds to the properties what a writer inside update knows      *)
(* (LocalOf): that nobody moved the head it read or changed the slot it    *)
(* wrote.                                                                  *)
(***************************************************************************)
EXTENDS SpatialArena, TLAPS

Called == {"geocode", "spin"} \cup Inside

\* What a writer knows while it is inside update.
LocalOf(w) ==
    /\ pc[w] \in Called => arg[w] \in Args
    /\ pc[w] \in {"spin"} \cup Inside => arg[w].cell # 0
    /\ pc[w] \in {"speed", "stamp", "advance", "clear"}
         => h3_index[arena_idx(w)] = arg[w].cell
    /\ pc[w] \in {"speed", "stamp", "advance"} => local[w] = head[arena_idx(w)]
    /\ pc[w] \in {"stamp", "advance"}
         => speeds[arena_idx(w)][local[w]] = arg[w].speed
    /\ pc[w] = "advance"
         => timestamps[arena_idx(w)][local[w]] = Stamp(arg[w].timestamp)

LocalInv == \A w \in Writers : LocalOf(w)

IInv == TypeOK /\ BucketExclusion /\ LocalInv

\* hex_id & (BUCKET_COUNT - 1) is an index of the arena.
LEMMA Routing ==
  ASSUME TypeOK, NEW w \in Writers
  PROVE  arena_idx(w) \in Buckets
<1>1. arg[w] \in Args \/ arg[w] = NoArgs
  BY DEF TypeOK
<1>2. arg[w].cell \in Cells \cup {0}
  BY <1>1 DEF Args, NoArgs
<1>3. \A c \in Cells \cup {0} : c \in Nat
  BY InputsAssumption
<1>4. arg[w].cell \in Nat
  BY <1>2, <1>3
<1> QED
  BY <1>4, SizesAssumption DEF arena_idx, BucketOf, Buckets

\* The cast of a timestamp to uint32_t yields a 32-bit value.
LEMMA StampFits ==
  ASSUME NEW t \in Timestamps
  PROVE  Stamp(t) \in 0 .. StampModulus - 1
BY SizesAssumption, InputsAssumption DEF Stamp

\* (head + 1) % 60 is a slot of the window; it wraps at the last one.
LEMMA NextSlot ==
  ASSUME NEW h \in Slots
  PROVE  /\ (h + 1) % WindowSize \in Slots
         /\ (h + 1) % WindowSize = IF h + 1 = WindowSize THEN 0 ELSE h + 1
BY SizesAssumption DEF Slots

\* The slot in which the j-th most recent sample is found.
LEMMA SlotOfAge ==
  ASSUME NEW h \in Slots, NEW j \in Ages
  PROVE  /\ (h + WindowSize - j) % WindowSize \in Slots
         /\ (h + WindowSize - j) % WindowSize =
               IF j <= h THEN h - j ELSE h + WindowSize - j
BY SizesAssumption DEF Slots, Ages

\* The arena the constructor sets up satisfies the inductive invariant.
LEMMA InitIInv == Init => IInv
<1> SUFFICES ASSUME Init PROVE IInv
  OBVIOUS
<1>1. 0 \in Slots /\ 0 \in 0 .. StampModulus - 1
  BY SizesAssumption DEF Slots
<1>2. TypeOK
  BY <1>1 DEF Init, TypeOK, ZeroSlots
<1> QED
  BY <1>2 DEF Init, IInv, BucketExclusion, WritersOf, LocalInv, LocalOf, Called, Inside, Writing

\* Every step of update preserves the type invariant.
LEMMA StepType ==
  ASSUME IInv, Next
  PROVE  TypeOK'
<1> USE DEF IInv
<1>0. PICK w \in Writers : (\E a \in Args : update(w, a)) \/ Step(w)
  BY DEF Next
<1>b. arena_idx(w) \in Buckets
  BY <1>0, Routing
<1>z. 0 \in Slots /\ 0 \in 0 .. StampModulus - 1
  BY SizesAssumption DEF Slots
<1>1. ASSUME NEW a \in Args, update(w, a) PROVE TypeOK'
  BY <1>1 DEF update, TypeOK, arena, Goto
<1>2. CASE latLngToCellFails(w)
  BY <1>2, <1>z DEF latLngToCellFails, Return, TypeOK, arena, Goto
<1>3. CASE latLngToCell(w)
  BY <1>3 DEF latLngToCell, TypeOK, arena, Goto
<1>4. CASE TestAndSet(w)
  BY <1>4, <1>b DEF TestAndSet, TypeOK, arena, Goto, Inside
<1>5. CASE ResetIfAliased(w)
  <2>1. ZeroSlots \in [Slots -> Speeds \cup {0}] /\ ZeroSlots \in [Slots -> 0 .. StampModulus - 1]
    BY <1>z DEF ZeroSlots
  <2>2. speeds' \in [Buckets -> [Slots -> Speeds \cup {0}]]
    BY <1>5, <1>b, <2>1 DEF ResetIfAliased, TypeOK
  <2>3. timestamps' \in [Buckets -> [Slots -> 0 .. StampModulus - 1]]
    BY <1>5, <1>b, <2>1 DEF ResetIfAliased, TypeOK
  <2>4. head' \in [Buckets -> Slots]
    BY <1>5, <1>b, <1>z DEF ResetIfAliased, TypeOK
  <2> QED
    BY <1>5, <2>2, <2>3, <2>4 DEF ResetIfAliased, TypeOK, Goto, Inside, Writing
<1>6. CASE Claim(w)
  <2>1. arg[w].cell \in Cells \cup {0}
    BY DEF TypeOK, Args, NoArgs
  <2> QED
    BY <1>6, <1>b, <2>1 DEF Claim, TypeOK, Goto, Inside, Writing
<1>7. CASE WriteSpeed(w)
  <2>1. arg[w].speed \in Speeds
    BY <1>7, <1>0 DEF WriteSpeed, LocalInv, LocalOf, Called, Inside, Writing, Args
  <2>2. speeds' \in [Buckets -> [Slots -> Speeds \cup {0}]]
    BY <1>7, <1>b, <2>1 DEF WriteSpeed, TypeOK
  <2> QED
    BY <1>7, <2>2 DEF WriteSpeed, TypeOK, Goto, Inside, Writing
<1>8. CASE WriteStamp(w)
  <2>1. arg[w].timestamp \in Timestamps
    BY <1>8, <1>0 DEF WriteStamp, LocalInv, LocalOf, Called, Inside, Writing, Args
  <2>2. timestamps' \in [Buckets -> [Slots -> 0 .. StampModulus - 1]]
    BY <1>8, <1>b, <2>1, StampFits DEF WriteStamp, TypeOK
  <2> QED
    BY <1>8, <2>2 DEF WriteStamp, TypeOK, Goto, Inside, Writing
<1>9. CASE Advance(w)
  <2>1. (local[w] + 1) % WindowSize \in Slots
    BY NextSlot DEF TypeOK
  <2> QED
    BY <1>9, <1>b, <2>1 DEF Advance, TypeOK, Goto, Inside, Writing
<1>10. CASE Clear(w)
  BY <1>10, <1>b, <1>z DEF Clear, Return, TypeOK, arena, Goto
<1> QED
  BY <1>0, <1>1, <1>2, <1>3, <1>4, <1>5, <1>6, <1>7, <1>8, <1>9, <1>10 DEF Step

\* The writers that hold a bucket's lock change only when a writer gets or
\* gives up a lock: a step inside the critical section changes nothing, ...
LEMMA SameWriters ==
  ASSUME TypeOK, NEW w \in Writers, pc' = [pc EXCEPT ![w] = pc'[w]], arg' = arg,
         pc[w] \in Inside <=> pc'[w] \in Inside
  PROVE  \A b : WritersOf(b)' = WritersOf(b)
BY DEF TypeOK, WritersOf, arena_idx

\* ... nor does the call, or the return after latLngToCell failed, ...
LEMMA OutsideWriters ==
  ASSUME TypeOK, NEW w \in Writers,
         (\E a \in Args : update(w, a)) \/ latLngToCellFails(w)
  PROVE  \A b : WritersOf(b)' = WritersOf(b)
<1>1. pc[w] \notin Inside /\ pc'[w] \notin Inside
  BY DEF update, latLngToCellFails, Return, Goto, TypeOK, Inside, Writing
<1>2. \A v \in Writers : v # w => pc'[v] = pc[v] /\ arg'[v] = arg[v]
  BY DEF update, latLngToCellFails, Return, Goto, TypeOK
<1> QED
  BY <1>1, <1>2 DEF WritersOf, arena_idx

\* ... test_and_set adds the writer to the empty set of its bucket, ...
LEMMA EnterWriters ==
  ASSUME IInv, NEW w \in Writers, TestAndSet(w)
  PROVE  /\ WritersOf(arena_idx(w)) = {}
         /\ \A b : b = arena_idx(w) => WritersOf(b)' = {w}
         /\ \A b : b # arena_idx(w) => WritersOf(b)' = WritersOf(b)
<1> USE DEF IInv
<1>b. arena_idx(w) \in Buckets
  BY Routing
<1>1. pc' = [pc EXCEPT ![w] = "reset"] /\ arg' = arg
  BY DEF TestAndSet, Goto
<1>2. WritersOf(arena_idx(w)) = {}
  BY <1>b DEF TestAndSet, BucketExclusion
<1>3. \A b : b = arena_idx(w) => WritersOf(b)' = {w}
  BY <1>1, <1>2 DEF WritersOf, arena_idx, TypeOK, Inside
<1>4. \A b : b # arena_idx(w) => WritersOf(b)' = WritersOf(b)
  BY <1>1 DEF WritersOf, arena_idx, TypeOK, TestAndSet, Inside, Writing
<1> QED
  BY <1>2, <1>3, <1>4

\* ... and clear takes it out again.
LEMMA LeaveWriters ==
  ASSUME IInv, NEW w \in Writers, Clear(w)
  PROVE  /\ \A b : b = arena_idx(w) => WritersOf(b)' = {}
         /\ \A b : b # arena_idx(w) => WritersOf(b)' = WritersOf(b)
<1> USE DEF IInv
<1>b. arena_idx(w) \in Buckets
  BY Routing
<1>1. pc' = [pc EXCEPT ![w] = "idle"] /\ pc[w] \in Inside
  BY DEF Clear, Return, Goto, Inside
<1>2. \A v \in Writers : v # w => arg'[v] = arg[v]
  BY DEF Clear, Return, TypeOK
<1>3. w \in WritersOf(arena_idx(w))
  BY <1>1 DEF WritersOf
<1>4. \A v \in WritersOf(arena_idx(w)) : v = w
  BY <1>3, <1>b DEF BucketExclusion
<1>5. \A b : b # arena_idx(w) => WritersOf(b)' = WritersOf(b)
  BY <1>1, <1>2 DEF WritersOf, arena_idx, TypeOK, Inside, Writing
<1>6. \A b : b = arena_idx(w) => WritersOf(b)' = {}
  BY <1>1, <1>2, <1>4 DEF WritersOf, arena_idx, TypeOK, Inside, Writing
<1> QED
  BY <1>5, <1>6

\* The steps of a writer that holds a lock and keeps it.
Work(w) == ResetIfAliased(w) \/ Claim(w) \/ WriteSpeed(w) \/ WriteStamp(w) \/ Advance(w)

\* None of the steps in the critical section takes or frees a lock.
LEMMA WorkWriters ==
  ASSUME TypeOK, NEW w \in Writers, Work(w) \/ latLngToCell(w)
  PROVE  \A b : WritersOf(b)' = WritersOf(b)
BY SameWriters DEF Work, ResetIfAliased, Claim, WriteSpeed, WriteStamp, Advance,
                   latLngToCell, Goto, TypeOK, Inside, Writing

\* Every step of update preserves the exclusion of the writers of a bucket.
LEMMA StepExclusion ==
  ASSUME IInv, Next
  PROVE  BucketExclusion'
<1> USE DEF IInv
<1>0. PICK w \in Writers : (\E a \in Args : update(w, a)) \/ Step(w)
  BY DEF Next
<1>1. ASSUME lock' = lock, \A b : WritersOf(b)' = WritersOf(b)
      PROVE  BucketExclusion'
  BY <1>1 DEF BucketExclusion
<1>2. ASSUME NEW value \in BOOLEAN,
             lock' = [lock EXCEPT ![arena_idx(w)] = value],
             \A b : b # arena_idx(w) => WritersOf(b)' = WritersOf(b),
             \A b : b = arena_idx(w) => /\ value <=> WritersOf(b)' # {}
                                        /\ WritersOf(b)' \subseteq {w}
      PROVE  BucketExclusion'
  <2>1. SUFFICES ASSUME NEW b \in Buckets
                 PROVE  /\ lock'[b] <=> WritersOf(b)' # {}
                        /\ \A u, v \in WritersOf(b)' : u = v
    BY DEF BucketExclusion
  <2>2. CASE b = arena_idx(w)
    BY <1>2, <2>2 DEF TypeOK
  <2>3. CASE b # arena_idx(w)
    <3>1. lock'[b] = lock[b]
      BY <1>2, <2>3 DEF TypeOK
    <3>2. WritersOf(b)' = WritersOf(b)
      BY <1>2, <2>3
    <3> QED
      BY <3>1, <3>2 DEF BucketExclusion
  <2> QED
    BY <2>2, <2>3
<1>3. CASE (\E a \in Args : update(w, a)) \/ latLngToCellFails(w)
  BY <1>1, <1>3, OutsideWriters DEF update, latLngToCellFails
<1>4. CASE TestAndSet(w)
  BY <1>2, <1>4, EnterWriters DEF TestAndSet
<1>5. CASE Clear(w)
  BY <1>2, <1>5, LeaveWriters DEF Clear
<1>6. CASE Work(w) \/ latLngToCell(w)
  BY <1>1, <1>6, WorkWriters
     DEF Work, ResetIfAliased, Claim, WriteSpeed, WriteStamp, Advance, latLngToCell
<1> QED
  BY <1>0, <1>3, <1>4, <1>5, <1>6 DEF Step, Work

\* Two writers that hold locks hold those of different buckets.
LEMMA Apart ==
  ASSUME IInv, NEW v \in Writers, NEW w \in Writers, v # w,
         pc[v] \in Inside, pc[w] \in Inside
  PROVE  arena_idx(v) # arena_idx(w)
<1>1. arena_idx(w) \in Buckets
  BY Routing DEF IInv
<1> QED
  BY <1>1 DEF IInv, BucketExclusion, WritersOf

\* The fields of every bucket but b keep their values.
OnlyBucket(b) ==
    \A c \in Buckets : c # b => /\ h3_index'[c] = h3_index[c]
                                /\ speeds'[c] = speeds[c]
                                /\ timestamps'[c] = timestamps[c]
                                /\ head'[c] = head[c]

\* A step of w leaves what v knows true.
LEMMA OthersKeep ==
  ASSUME IInv, NEW v \in Writers, NEW w \in Writers, v # w,
         pc'[v] = pc[v], arg'[v] = arg[v], local'[v] = local[v],
         \/ UNCHANGED arena
         \/ pc[w] \in Inside /\ OnlyBucket(arena_idx(w))
  PROVE  LocalOf(v)'
<1>1. LocalOf(v)
  BY DEF IInv, LocalInv
<1>2. arena_idx(v)' = arena_idx(v) /\ arena_idx(v) \in Buckets
  BY Routing DEF arena_idx, IInv
<1>3. CASE UNCHANGED arena
  BY <1>1, <1>2, <1>3 DEF LocalOf, arena
<1>4. CASE pc[v] \notin Inside
  BY <1>1, <1>4 DEF LocalOf, Inside, Writing, Called
<1>5. CASE pc[v] \in Inside /\ pc[w] \in Inside /\ OnlyBucket(arena_idx(w))
  <2>1. arena_idx(v) # arena_idx(w)
    BY <1>5, Apart
  <2>2. /\ h3_index'[arena_idx(v)] = h3_index[arena_idx(v)]
        /\ speeds'[arena_idx(v)] = speeds[arena_idx(v)]
        /\ timestamps'[arena_idx(v)] = timestamps[arena_idx(v)]
        /\ head'[arena_idx(v)] = head[arena_idx(v)]
    BY <1>2, <1>5, <2>1 DEF OnlyBucket
  <2> QED
    BY <1>1, <1>2, <2>2 DEF LocalOf
<1> QED
  BY <1>3, <1>4, <1>5

\* What a step of w does to the state that v depends on.
Frame(w) ==
    /\ \A v \in Writers : v # w => pc'[v] = pc[v] /\ arg'[v] = arg[v] /\ local'[v] = local[v]
    /\ \/ UNCHANGED arena
       \/ pc[w] \in Inside /\ OnlyBucket(arena_idx(w))

\* A writer changes only its own variables and, while it holds a lock, the
\* bucket that the lock belongs to.
LEMMA StepFrame ==
  ASSUME TypeOK, NEW w \in Writers, (\E a \in Args : update(w, a)) \/ Step(w)
  PROVE  Frame(w)
<1> USE DEF TypeOK, Goto, Frame, OnlyBucket, Inside, Writing
<1>b. arena_idx(w) \in Buckets
  BY Routing
<1>1. ASSUME NEW a \in Args, update(w, a) PROVE Frame(w)
  BY <1>1 DEF update
<1>2. CASE latLngToCellFails(w)
  BY <1>2 DEF latLngToCellFails, Return
<1>4. CASE TestAndSet(w)
  BY <1>4 DEF TestAndSet
<1>5. CASE Clear(w)
  BY <1>5 DEF Clear, Return, arena
<1>6. CASE latLngToCell(w)
  BY <1>6, <1>b DEF latLngToCell, arena
<1>7. CASE ResetIfAliased(w)
  BY <1>7, <1>b DEF ResetIfAliased, arena
<1>8. CASE Claim(w)
  BY <1>8, <1>b DEF Claim, arena
<1>9. CASE WriteSpeed(w)
  BY <1>9, <1>b DEF WriteSpeed, arena
<1>10. CASE WriteStamp(w)
  BY <1>10, <1>b DEF WriteStamp, arena
<1>11. CASE Advance(w)
  BY <1>11, <1>b DEF Advance, arena
<1> QED
  BY <1>1, <1>2, <1>4, <1>5, <1>6, <1>7, <1>8, <1>9, <1>10, <1>11 DEF Step

\* Every step of update preserves what each writer knows.
LEMMA StepLocal ==
  ASSUME IInv, Next
  PROVE  LocalInv'
<1> USE DEF IInv
<1>0. PICK w \in Writers : (\E a \in Args : update(w, a)) \/ Step(w)
  BY DEF Next
<1>b. arena_idx(w) \in Buckets
  BY <1>0, Routing
<1>l. LocalOf(w)
  BY DEF LocalInv
<1>f. Frame(w)
  BY <1>0, StepFrame
<1>o. \A v \in Writers : v # w => LocalOf(v)'
  BY <1>f, OthersKeep DEF Frame
<1> SUFFICES LocalOf(w)'
  BY <1>o DEF LocalInv
<1> USE DEF Called, Inside, Writing, Goto
<1>1. ASSUME NEW a \in Args, update(w, a) PROVE LocalOf(w)'
  BY <1>1 DEF update, LocalOf, TypeOK
<1>2. CASE latLngToCellFails(w)
  <2>1. pc'[w] = "idle"
    BY <1>2 DEF latLngToCellFails, Return, TypeOK
  <2> QED
    BY <2>1 DEF LocalOf
<1>3. CASE latLngToCell(w)
  <2>1. pc[w] = "geocode" /\ pc'[w] = "spin" /\ arg' = arg /\ arg[w].cell # 0
    BY <1>3 DEF latLngToCell, TypeOK
  <2> QED
    BY <2>1, <1>l DEF LocalOf
<1>4. CASE TestAndSet(w)
  <2>1. pc[w] = "spin" /\ pc'[w] = "reset" /\ arg' = arg
    BY <1>4 DEF TestAndSet, TypeOK
  <2> QED
    BY <2>1, <1>l DEF LocalOf
<1>5. CASE ResetIfAliased(w)
  <2>1. pc[w] = "reset" /\ pc'[w] = "claim" /\ arg' = arg
    BY <1>5 DEF ResetIfAliased, TypeOK
  <2> QED
    BY <2>1, <1>l DEF LocalOf
<1>6. CASE Claim(w)
  <2>1. /\ pc[w] = "claim" /\ pc'[w] = "speed" /\ arg' = arg /\ head' = head
        /\ h3_index'[arena_idx(w)] = arg[w].cell
        /\ local'[w] = head[arena_idx(w)]
    BY <1>6, <1>b DEF Claim, TypeOK
  <2>2. arena_idx(w)' = arena_idx(w)
    BY <2>1 DEF arena_idx
  <2> QED
    BY <2>1, <2>2, <1>l DEF LocalOf
<1>7. CASE WriteSpeed(w)
  <2>1. /\ pc[w] = "speed" /\ pc'[w] = "stamp" /\ arg' = arg /\ head' = head
        /\ local' = local /\ h3_index' = h3_index
    BY <1>7 DEF WriteSpeed, TypeOK
  <2>2. arena_idx(w)' = arena_idx(w)
    BY <2>1 DEF arena_idx
  <2>3. speeds'[arena_idx(w)][local[w]] = arg[w].speed
    BY <1>7, <1>b DEF WriteSpeed, TypeOK
  <2> QED
    BY <2>1, <2>2, <2>3, <1>l DEF LocalOf
<1>8. CASE WriteStamp(w)
  <2>1. /\ pc[w] = "stamp" /\ pc'[w] = "advance" /\ arg' = arg /\ head' = head
        /\ local' = local /\ h3_index' = h3_index /\ speeds' = speeds
    BY <1>8 DEF WriteStamp, TypeOK
  <2>2. arena_idx(w)' = arena_idx(w)
    BY <2>1 DEF arena_idx
  <2>3. timestamps'[arena_idx(w)][local[w]] = Stamp(arg[w].timestamp)
    BY <1>8, <1>b DEF WriteStamp, TypeOK
  <2> QED
    BY <2>1, <2>2, <2>3, <1>l DEF LocalOf
<1>9. CASE Advance(w)
  <2>1. /\ pc[w] = "advance" /\ pc'[w] = "clear" /\ arg' = arg /\ h3_index' = h3_index
    BY <1>9 DEF Advance, TypeOK
  <2>2. arena_idx(w)' = arena_idx(w)
    BY <2>1 DEF arena_idx
  <2> QED
    BY <2>1, <2>2, <1>l DEF LocalOf
<1>10. CASE Clear(w)
  <2>1. pc'[w] = "idle"
    BY <1>10 DEF Clear, Return, TypeOK
  <2> QED
    BY <2>1 DEF LocalOf
<1> QED
  BY <1>0, <1>1, <1>2, <1>3, <1>4, <1>5, <1>6, <1>7, <1>8, <1>9, <1>10 DEF Step

\* A step that changes nothing preserves the inductive invariant.
LEMMA Stutter == IInv /\ UNCHANGED vars => IInv'
BY DEF IInv, TypeOK, BucketExclusion, LocalInv, LocalOf, WritersOf, arena_idx, vars

\* IInv holds in every state.
LEMMA Inductive == Spec => []IInv
<1>1. IInv /\ [Next]_vars => IInv'
  BY StepType, StepExclusion, StepLocal, Stutter DEF IInv
<1> QED
  BY InitIInv, <1>1, PTL DEF Spec

\* update never indexes outside the arena or a window and never stores a
\* timestamp of more than 32 bits, for all sizes and all sets of writers.
THEOREM ArenaTypeCorrect == Spec => []TypeOK
<1>1. IInv => TypeOK
  BY DEF IInv
<1> QED
  BY Inductive, <1>1, PTL

\* The atomic_flag of a bucket lets one writer at a time into the bucket and is
\* set exactly while one is in there, for any number of writers and buckets.
THEOREM ArenaExclusive == Spec => []BucketExclusion
<1>1. IInv => BucketExclusion
  BY DEF IInv
<1> QED
  BY Inductive, <1>1, PTL

-----------------------------------------------------------------------------
\* The remainder of one less than a multiple of the number of buckets.
LEMMA LastRemainder ==
  ASSUME NEW q \in Nat
  PROVE  (q * BucketCount + (BucketCount - 1)) % BucketCount = BucketCount - 1
BY SizesAssumption

\* The mask of storage.cpp:37 sends every cell to the last bucket as soon as an
\* index has as many unused low bits as the mask is wide: 18 against 17 in the
\* code.  One lock serves all updates, and one window all cells.
THEOREM OneBucketForAll ==
  ASSUME NEW unused, NEW Places, Places \subseteq Nat,
         Cells = {H3Cell(p, unused) : p \in Places},
         NEW k \in Nat \ {0}, 2 ^ unused = k * BucketCount
  PROVE  \A c \in Cells : BucketOf(c) = BucketCount - 1
<1> SUFFICES ASSUME NEW p \in Places PROVE BucketOf(H3Cell(p, unused)) = BucketCount - 1
  OBVIOUS
<1> DEFINE q == p * k + (k - 1)
<1>1. p \in Nat /\ q \in Nat
  OBVIOUS
<1>2. H3Cell(p, unused) = q * BucketCount + (BucketCount - 1)
  BY <1>1, SizesAssumption DEF H3Cell
<1> QED
  BY <1>1, <1>2, LastRemainder DEF BucketOf

-----------------------------------------------------------------------------
(***************************************************************************)
(* SpatialArena implements RecentWindow: a call of update takes effect in  *)
(* one step, when it obtains its bucket's lock, and everything it does     *)
(* until it clears the lock is invisible.                                  *)
(***************************************************************************)

\* The abstract bucket of a writer that holds a lock, and of a free bucket.
HeldFacts ==
    \A w \in Writers : pc[w] \in Inside =>
       /\ Owner[arena_idx(w)] = arg[w].cell
       /\ Recent[arena_idx(w)] = Completed(arena_idx(w), w)
FreeFacts ==
    \A b \in Buckets : WritersOf(b) = {} => /\ Owner[b] = h3_index[b]
                                           /\ Recent[b] = Window(b)

\* A locked bucket counts as holding what the writer inside will leave in it, a
\* free bucket as holding what it holds.
LEMMA Views == IInv => HeldFacts /\ FreeFacts
<1> SUFFICES ASSUME IInv PROVE HeldFacts /\ FreeFacts
  OBVIOUS
<1>1. FreeFacts
  BY DEF FreeFacts, Owner, Recent
<1>2. ASSUME NEW w \in Writers, pc[w] \in Inside
      PROVE  /\ Owner[arena_idx(w)] = arg[w].cell
             /\ Recent[arena_idx(w)] = Completed(arena_idx(w), w)
  <2> DEFINE b == arena_idx(w)
  <2>1. b \in Buckets
    BY Routing DEF IInv
  <2>2. w \in WritersOf(b)
    BY <1>2 DEF WritersOf
  <2>3. \A v \in WritersOf(b) : v = w
    BY <2>1, <2>2 DEF IInv, BucketExclusion
  <2>4. (CHOOSE v \in WritersOf(b) : TRUE) = w
    BY <2>2, <2>3
  <2>5. WritersOf(b) # {}
    BY <2>2
  <2> HIDE DEF b
  <2>6. Owner[b] = arg[w].cell
    BY <2>1, <2>4, <2>5 DEF Owner
  <2>7. Recent[b] = Completed(b, w)
    BY <2>1, <2>4, <2>5 DEF Recent
  <2> QED
    BY <2>6, <2>7 DEF b
<1> QED
  BY <1>1, <1>2 DEF HeldFacts

\* The same after a step.
LEMMA ViewsPrimed == IInv' => HeldFacts' /\ FreeFacts'
BY Views, PTL

\* A bucket whose fields and whose writer a step leaves alone keeps its
\* abstract state.
LEMMA BucketKept ==
  ASSUME IInv, IInv', NEW w \in Writers, Frame(w), NEW b \in Buckets,
         w \notin WritersOf(b), WritersOf(b)' = WritersOf(b),
         h3_index'[b] = h3_index[b], speeds'[b] = speeds[b],
         timestamps'[b] = timestamps[b], head'[b] = head[b]
  PROVE  Owner'[b] = Owner[b] /\ Recent'[b] = Recent[b]
<1>1. Window(b)' = Window(b)
  BY DEF Window
<1>2. CASE WritersOf(b) = {}
  BY <1>1, <1>2, Views, ViewsPrimed DEF FreeFacts
<1>3. ASSUME NEW v \in WritersOf(b)
      PROVE  Owner'[b] = Owner[b] /\ Recent'[b] = Recent[b]
  <2>1. v \in Writers /\ pc[v] \in Inside /\ arena_idx(v) = b /\ v # w
    BY DEF WritersOf
  <2>2. pc'[v] = pc[v] /\ arg'[v] = arg[v]
    BY <2>1 DEF Frame
  <2>3. arena_idx(v)' = b
    BY <2>1, <2>2 DEF arena_idx
  <2>4. Aliased(v)' <=> Aliased(v)
    BY <2>1, <2>2, <2>3 DEF Aliased
  <2>5. Completed(b, v)' = Completed(b, v)
    BY <1>1, <2>2, <2>4 DEF Completed
  <2>6. Owner[b] = arg[v].cell /\ Recent[b] = Completed(b, v)
    BY <2>1, Views DEF HeldFacts
  <2>7. Owner'[b] = arg'[v].cell /\ Recent'[b] = Completed(b, v)'
    BY <2>1, <2>2, <2>3, ViewsPrimed DEF HeldFacts
  <2> QED
    BY <2>2, <2>5, <2>6, <2>7
<1> QED
  BY <1>2, <1>3

\* A step that neither takes nor holds a lock changes no abstract bucket.
LEMMA OutsideStep ==
  ASSUME IInv, IInv', NEW w \in Writers,
         (\E a \in Args : update(w, a)) \/ latLngToCellFails(w) \/ latLngToCell(w)
  PROVE  Owner' = Owner /\ Recent' = Recent
<1>1. Frame(w)
  BY StepFrame DEF IInv, Step
<1>2. \A b : WritersOf(b)' = WritersOf(b)
  BY OutsideWriters, WorkWriters DEF IInv
<1>3. \A b : w \notin WritersOf(b)
  BY DEF WritersOf, update, latLngToCellFails, latLngToCell, Inside, Writing
<1>4. UNCHANGED arena
  BY DEF update, latLngToCellFails, latLngToCell
<1>5. \A b \in Buckets : Owner'[b] = Owner[b] /\ Recent'[b] = Recent[b]
  BY <1>1, <1>2, <1>3, <1>4, BucketKept DEF arena
<1> QED
  BY <1>5 DEF Owner, Recent

\* A step of a writer that takes or holds a lock changes no other bucket.
LEMMA ElsewhereKept ==
  ASSUME IInv, IInv', NEW w \in Writers, TestAndSet(w) \/ Work(w) \/ Clear(w),
         NEW b \in Buckets, b # arena_idx(w)
  PROVE  Owner'[b] = Owner[b] /\ Recent'[b] = Recent[b]
<1>1. Frame(w)
  BY StepFrame DEF IInv, Step, Work
<1>2. WritersOf(b)' = WritersOf(b)
  BY EnterWriters, WorkWriters, LeaveWriters DEF IInv
<1>3. w \notin WritersOf(b)
  BY DEF WritersOf
<1>4. /\ h3_index'[b] = h3_index[b]
      /\ speeds'[b] = speeds[b]
      /\ timestamps'[b] = timestamps[b]
      /\ head'[b] = head[b]
  BY <1>1 DEF Frame, OnlyBucket, arena
<1> QED
  BY <1>1, <1>2, <1>3, <1>4, BucketKept

\* The slot written last is the first one behind the new head, and every other
\* sample is one age older after head moved on.
LEMMA AgesShift ==
  ASSUME NEW h \in Slots, NEW g \in Slots, g = (h + 1) % WindowSize
  PROVE  /\ (g + WindowSize - 1) % WindowSize = h
         /\ \A j \in Ages : j # 1 =>
              /\ j - 1 \in Ages
              /\ (h + WindowSize - (j - 1)) % WindowSize \in Slots \ {h}
              /\ (g + WindowSize - j) % WindowSize = (h + WindowSize - (j - 1)) % WindowSize
<1>0. WindowSize \in Nat /\ WindowSize > 0 /\ h \in Nat /\ g \in Nat /\ h < WindowSize
  BY SizesAssumption DEF Slots
<1>1. g = IF h + 1 = WindowSize THEN 0 ELSE h + 1
  BY NextSlot
<1>2. 1 \in Ages
  BY <1>0 DEF Ages
<1>3. (g + WindowSize - 1) % WindowSize = IF 1 <= g THEN g - 1 ELSE g + WindowSize - 1
  BY <1>2, SlotOfAge
<1>4. (g + WindowSize - 1) % WindowSize = h
  BY <1>0, <1>1, <1>3
<1>5. ASSUME NEW j \in Ages, j # 1
      PROVE  /\ j - 1 \in Ages
             /\ (h + WindowSize - (j - 1)) % WindowSize \in Slots \ {h}
             /\ (g + WindowSize - j) % WindowSize = (h + WindowSize - (j - 1)) % WindowSize
  <2>1. j \in Nat /\ j > 1 /\ j <= WindowSize
    BY <1>0, <1>5 DEF Ages
  <2>2. j - 1 \in Ages
    BY <1>0, <2>1 DEF Ages
  <2>3. /\ (h + WindowSize - (j - 1)) % WindowSize \in Slots
        /\ (h + WindowSize - (j - 1)) % WindowSize =
              IF j - 1 <= h THEN h - (j - 1) ELSE h + WindowSize - (j - 1)
    BY <2>2, SlotOfAge
  <2>4. (g + WindowSize - j) % WindowSize = IF j <= g THEN g - j ELSE g + WindowSize - j
    BY SlotOfAge
  <2>5. (h + WindowSize - (j - 1)) % WindowSize # h
    BY <1>0, <2>1, <2>3
  <2>6. (g + WindowSize - j) % WindowSize = (h + WindowSize - (j - 1)) % WindowSize
    BY <1>0, <1>1, <2>1, <2>3, <2>4
  <2> QED
    BY <2>2, <2>3, <2>5, <2>6
<1> QED
  BY <1>4, <1>5

\* Writing the slot at head disturbs only the oldest sample, which the arrival
\* of the new one drops anyway.
LEMMA OverwriteOldest ==
  ASSUME IInv, NEW b \in Buckets, head'[b] = head[b],
         \A i \in Slots : i # head[b] => /\ speeds'[b][i] = speeds[b][i]
                                         /\ timestamps'[b][i] = timestamps[b][i],
         NEW s
  PROVE  Pushed(Window(b)', s) = Pushed(Window(b), s)
<1>1. head[b] \in Slots /\ (head[b] + 1) % WindowSize \in Slots
  BY NextSlot DEF IInv, TypeOK
<1>2. ASSUME NEW j \in Ages, j # 1
      PROVE  Window(b)'[j - 1] = Window(b)[j - 1]
  <2> DEFINE i == (head[b] + WindowSize - (j - 1)) % WindowSize
  <2>1. j - 1 \in Ages /\ i \in Slots /\ i # head[b]
    BY <1>1, <1>2, AgesShift
  <2>2. speeds'[b][i] = speeds[b][i] /\ timestamps'[b][i] = timestamps[b][i]
    BY <2>1
  <2> QED
    BY <2>1, <2>2 DEF Window
<1> QED
  BY <1>2 DEF Pushed

\* Moving head past the slot just written makes it the newest sample.
LEMMA AdvanceShifts ==
  ASSUME IInv, NEW b \in Buckets, NEW s,
         head'[b] = (head[b] + 1) % WindowSize,
         speeds' = speeds, timestamps' = timestamps,
         s = [speed |-> speeds[b][head[b]], stamp |-> timestamps[b][head[b]]]
  PROVE  Window(b)' = Pushed(Window(b), s)
<1>1. head[b] \in Slots /\ head'[b] \in Slots
  BY NextSlot DEF IInv, TypeOK
<1>2. ASSUME NEW j \in Ages
      PROVE  Window(b)'[j] = Pushed(Window(b), s)[j]
  <2>1. Window(b)'[j] = LET i == (head'[b] + WindowSize - j) % WindowSize
                        IN  [speed |-> speeds[b][i], stamp |-> timestamps[b][i]]
    BY DEF Window
  <2>2. CASE j = 1
    <3>1. (head'[b] + WindowSize - j) % WindowSize = head[b]
      BY <1>1, <2>2, AgesShift
    <3> QED
      BY <2>1, <2>2, <3>1 DEF Pushed
  <2>3. CASE j # 1
    <3>1. j - 1 \in Ages
      BY <1>1, <2>3, AgesShift
    <3>2. (head'[b] + WindowSize - j) % WindowSize
             = (head[b] + WindowSize - (j - 1)) % WindowSize
      BY <1>1, <2>3, AgesShift
    <3>3. Window(b)[j - 1] = LET i == (head[b] + WindowSize - (j - 1)) % WindowSize
                             IN  [speed |-> speeds[b][i], stamp |-> timestamps[b][i]]
      BY <3>1 DEF Window
    <3> QED
      BY <2>1, <2>3, <3>2, <3>3 DEF Pushed
  <2> QED
    BY <2>2, <2>3
<1> QED
  BY <1>2 DEF Window, Pushed

\* What a writer is about to leave in its bucket does not depend on how far it
\* has come.
LEMMA WorkStep ==
  ASSUME IInv, IInv', NEW w \in Writers, Work(w)
  PROVE  Owner' = Owner /\ Recent' = Recent
<1> USE DEF IInv, Goto
<1>b. PICK b \in Buckets : b = arena_idx(w)
  BY Routing
<1>l. LocalOf(w)
  BY DEF LocalInv
<1>1. arg' = arg /\ arena_idx(w)' = b /\ pc[w] \in Inside /\ pc'[w] \in Inside
  BY <1>b DEF Work, ResetIfAliased, Claim, WriteSpeed, WriteStamp, Advance, TypeOK,
         arena_idx, Inside, Writing
<1>2. Completed(b, w)' = Completed(b, w)
  <2>1. CASE ResetIfAliased(w)
    <3>1. pc[w] = "reset" /\ pc'[w] = "claim" /\ pc'[w] \in Writing
      BY <2>1 DEF ResetIfAliased, TypeOK, Writing
    <3>2. CASE Aliased(w)
      <4>1. speeds'[b] = ZeroSlots /\ timestamps'[b] = ZeroSlots /\ head'[b] = 0
        BY <1>b, <2>1, <3>2 DEF ResetIfAliased, TypeOK
      <4>2. \A j \in Ages : (0 + WindowSize - j) % WindowSize \in Slots
        BY SlotOfAge, SizesAssumption DEF Slots
      <4>3. Window(b)' = EmptyWindow
        BY <4>1, <4>2 DEF Window, EmptyWindow, ZeroSlots
      <4> QED
        BY <1>1, <3>1, <3>2, <4>3 DEF Completed, Writing
    <3>3. CASE ~Aliased(w)
      <4>1. Window(b)' = Window(b)
        BY <2>1, <3>3 DEF ResetIfAliased, Window
      <4> QED
        BY <1>1, <3>1, <3>3, <4>1 DEF Completed, Writing
    <3> QED
      BY <3>2, <3>3
  <2>2. CASE Claim(w)
    <3>1. pc[w] = "claim" /\ pc'[w] = "speed"
      BY <2>2 DEF Claim, TypeOK
    <3>2. Window(b)' = Window(b)
      BY <2>2 DEF Claim, Window
    <3> QED
      BY <1>1, <3>1, <3>2 DEF Completed, Writing
  <2>3. CASE WriteSpeed(w)
    <3>1. pc[w] = "speed" /\ pc'[w] = "stamp" /\ local[w] = head[b]
      BY <1>b, <2>3, <1>l DEF WriteSpeed, TypeOK, LocalOf
    <3>2. Pushed(Window(b)', Sample(arg[w])) = Pushed(Window(b), Sample(arg[w]))
      BY <1>b, <2>3, <3>1, OverwriteOldest DEF WriteSpeed, TypeOK
    <3> QED
      BY <1>1, <3>1, <3>2 DEF Completed, Writing
  <2>4. CASE WriteStamp(w)
    <3>1. pc[w] = "stamp" /\ pc'[w] = "advance" /\ local[w] = head[b]
      BY <1>b, <2>4, <1>l DEF WriteStamp, TypeOK, LocalOf
    <3>2. Pushed(Window(b)', Sample(arg[w])) = Pushed(Window(b), Sample(arg[w]))
      BY <1>b, <2>4, <3>1, OverwriteOldest DEF WriteStamp, TypeOK
    <3> QED
      BY <1>1, <3>1, <3>2 DEF Completed, Writing
  <2>5. CASE Advance(w)
    <3>1. /\ pc[w] = "advance" /\ pc'[w] = "clear" /\ local[w] = head[b]
          /\ Sample(arg[w]) = [speed |-> speeds[b][head[b]],
                               stamp |-> timestamps[b][head[b]]]
      BY <1>b, <2>5, <1>l DEF Advance, TypeOK, LocalOf, Sample
    <3>2. Window(b)' = Pushed(Window(b), Sample(arg[w]))
      BY <1>b, <2>5, <3>1, AdvanceShifts DEF Advance, TypeOK
    <3> QED
      BY <1>1, <3>1, <3>2 DEF Completed, Writing
  <2> QED
    BY <2>1, <2>2, <2>3, <2>4, <2>5 DEF Work
<1>3. Owner'[b] = Owner[b] /\ Recent'[b] = Recent[b]
  <2>1. Owner[b] = arg[w].cell /\ Recent[b] = Completed(b, w)
    BY <1>b, <1>1, Views DEF HeldFacts
  <2>2. Owner'[b] = arg[w].cell /\ Recent'[b] = Completed(b, w)'
    BY <1>b, <1>1, ViewsPrimed DEF HeldFacts
  <2> QED
    BY <1>2, <2>1, <2>2
<1>4. \A c \in Buckets : Owner'[c] = Owner[c] /\ Recent'[c] = Recent[c]
  BY <1>b, <1>3, ElsewhereKept
<1> QED
  BY <1>4 DEF Owner, Recent

\* The step that obtains the lock records the sample.
LEMMA EnterStep ==
  ASSUME IInv, IInv', NEW w \in Writers, TestAndSet(w)
  PROVE  LET b == arena_idx(w)
             c == arg[w].cell
             found == IF Owner[b] \in {0, c} THEN Recent[b] ELSE EmptyWindow
         IN  /\ Owner' = [Owner EXCEPT ![b] = c]
             /\ Recent' = [Recent EXCEPT ![b] = Pushed(found, Sample(arg[w]))]
<1> USE DEF IInv, Goto
<1>b. PICK b \in Buckets : b = arena_idx(w)
  BY Routing
<1>1. /\ arg' = arg /\ arena_idx(w)' = b /\ pc'[w] = "reset" /\ pc'[w] \in Inside
      /\ UNCHANGED arena
  BY <1>b DEF TestAndSet, TypeOK, arena_idx, Inside
<1>2. WritersOf(b) = {}
  BY <1>b, EnterWriters
<1>3. Owner[b] = h3_index[b] /\ Recent[b] = Window(b)
  BY <1>2, Views DEF FreeFacts
<1>4. Window(b)' = Window(b) /\ (Aliased(w)' <=> h3_index[b] \notin {0, arg[w].cell})
  BY <1>1 DEF arena, Window, Aliased
<1>5. Owner'[b] = arg[w].cell /\ Recent'[b] = Completed(b, w)'
  BY <1>1, ViewsPrimed DEF HeldFacts
<1>6. Completed(b, w)' =
        Pushed(IF Owner[b] \in {0, arg[w].cell} THEN Recent[b] ELSE EmptyWindow, Sample(arg[w]))
  BY <1>1, <1>3, <1>4 DEF Completed, Writing
<1>7. \A c \in Buckets : c # b => Owner'[c] = Owner[c] /\ Recent'[c] = Recent[c]
  BY <1>b, ElsewhereKept
<1>8. Owner' = [Owner EXCEPT ![b] = arg[w].cell]
  BY <1>5, <1>7 DEF Owner
<1>9. Recent' = [Recent EXCEPT ![b] =
        Pushed(IF Owner[b] \in {0, arg[w].cell} THEN Recent[b] ELSE EmptyWindow, Sample(arg[w]))]
  BY <1>5, <1>6, <1>7 DEF Recent
<1> QED
  BY <1>b, <1>8, <1>9

\* Clearing the lock shows what was recorded.
LEMMA LeaveStep ==
  ASSUME IInv, IInv', NEW w \in Writers, Clear(w)
  PROVE  Owner' = Owner /\ Recent' = Recent
<1> USE DEF IInv
<1>b. PICK b \in Buckets : b = arena_idx(w)
  BY Routing
<1>1. pc[w] = "clear" /\ pc[w] \in Inside /\ UNCHANGED arena
  BY DEF Clear, Inside
<1>2. WritersOf(b)' = {}
  BY <1>b, LeaveWriters
<1>3. Owner'[b] = h3_index'[b] /\ Recent'[b] = Window(b)'
  BY <1>2, ViewsPrimed DEF FreeFacts
<1>4. Owner[b] = arg[w].cell /\ Recent[b] = Completed(b, w)
  BY <1>b, <1>1, Views DEF HeldFacts
<1>5. h3_index[b] = arg[w].cell
  BY <1>b, <1>1 DEF LocalInv, LocalOf
<1>6. Completed(b, w) = Window(b) /\ Window(b)' = Window(b) /\ h3_index' = h3_index
  BY <1>1 DEF Completed, Writing, Window, arena
<1>7. \A c \in Buckets : Owner'[c] = Owner[c] /\ Recent'[c] = Recent[c]
  BY <1>b, <1>3, <1>4, <1>5, <1>6, ElsewhereKept
<1> QED
  BY <1>7 DEF Owner, Recent

\* The arena the constructor sets up holds no cell and no sample.
LEMMA ArenaInitRefines == Init => Abstract!Init
<1> SUFFICES ASSUME Init PROVE Abstract!Init
  OBVIOUS
<1>1. \A b \in Buckets : WritersOf(b) = {}
  BY DEF Init, WritersOf, Inside, Writing
<1>2. Owner = [b \in Buckets |-> 0]
  BY <1>1 DEF Init, Owner
<1>3. ASSUME NEW b \in Buckets PROVE Window(b) = EmptyWindow
  <2>1. \A j \in Ages : (0 + WindowSize - j) % WindowSize \in Slots
    BY SlotOfAge, SizesAssumption DEF Slots
  <2> QED
    BY <2>1 DEF Init, Window, EmptyWindow, ZeroSlots
<1>4. Recent = [b \in Buckets |-> EmptyWindow]
  BY <1>1, <1>3 DEF Recent
<1>5. Phases = [w \in Writers |-> "idle"]
  BY DEF Init, Phases, Inside, Writing
<1> QED
  BY <1>2, <1>4, <1>5 DEF Init, Abstract!Init, Abstract!Buckets, Buckets,
     Abstract!EmptyWindow, EmptyWindow, Abstract!Ages, Ages, Abstract!NoArgs, NoArgs

absvars == <<Owner, Recent, Phases, arg, ret>>

\* Every step of update is a step of RecentWindow or changes nothing in it.
LEMMA ArenaStepRefines == IInv /\ IInv' /\ [Next]_vars => [Abstract!Next]_absvars
<1> SUFFICES ASSUME IInv, IInv', [Next]_vars PROVE Abstract!Next \/ UNCHANGED absvars
  OBVIOUS
<1> USE DEF Goto
<1>0. pc \in [Writers -> {"idle", "geocode", "spin"} \cup Inside]
  BY DEF IInv, TypeOK
<1>1. ASSUME NEW w \in Writers, NEW a \in Args, update(w, a) PROVE Abstract!Invoke(w, a)
  <2>1. Owner' = Owner /\ Recent' = Recent
    BY <1>1, OutsideStep
  <2>2. Phases[w] = "idle" /\ Phases' = [Phases EXCEPT ![w] = "update"]
    BY <1>0, <1>1 DEF update, Phases, Inside, Writing
  <2> QED
    BY <1>1, <2>1, <2>2 DEF update, Abstract!Invoke
<1>2. ASSUME NEW w \in Writers, latLngToCellFails(w) PROVE Abstract!Return(w)
  <2>1. Owner' = Owner /\ Recent' = Recent
    BY <1>2, OutsideStep
  <2>2. Phases[w] = "update" /\ Phases' = [Phases EXCEPT ![w] = "idle"]
    BY <1>0, <1>2 DEF latLngToCellFails, Return, Phases, Inside, Writing
  <2> QED
    BY <1>2, <2>1, <2>2
       DEF latLngToCellFails, Return, Abstract!Return, Abstract!NoArgs, NoArgs
<1>3. ASSUME NEW w \in Writers, latLngToCell(w) PROVE UNCHANGED absvars
  <2>1. Owner' = Owner /\ Recent' = Recent
    BY <1>3, OutsideStep
  <2>2. Phases' = Phases
    BY <1>0, <1>3 DEF latLngToCell, Phases, Inside, Writing
  <2> QED
    BY <1>3, <2>1, <2>2 DEF latLngToCell, absvars
<1>4. ASSUME NEW w \in Writers, TestAndSet(w) PROVE Abstract!Record(w)
  <2>1. Phases[w] = "update" /\ Phases' = [Phases EXCEPT ![w] = "stored"]
    BY <1>0, <1>4 DEF TestAndSet, Phases, Inside, Writing
  <2>2. arg[w].cell # 0
    BY <1>4 DEF TestAndSet, IInv, LocalInv, LocalOf
  <2> QED
    BY <1>4, <2>1, <2>2, EnterStep
       DEF TestAndSet, Abstract!Record, Abstract!WindowFor, Abstract!BucketOf, BucketOf,
           arena_idx, Abstract!EmptyWindow, EmptyWindow, Abstract!Ages, Ages,
           Abstract!Pushed, Pushed, Abstract!Sample, Sample, Abstract!Stamp, Stamp
<1>5. ASSUME NEW w \in Writers, Work(w) PROVE UNCHANGED absvars
  <2>1. Owner' = Owner /\ Recent' = Recent
    BY <1>5, WorkStep
  <2>2. Phases' = Phases
    BY <1>0, <1>5 DEF Work, ResetIfAliased, Claim, WriteSpeed, WriteStamp, Advance,
                      Phases, Inside, Writing
  <2>3. arg' = arg /\ ret' = ret
    BY <1>5 DEF Work, ResetIfAliased, Claim, WriteSpeed, WriteStamp, Advance
  <2> QED
    BY <2>1, <2>2, <2>3 DEF absvars
<1>6. ASSUME NEW w \in Writers, Clear(w) PROVE Abstract!Return(w)
  <2>1. Owner' = Owner /\ Recent' = Recent
    BY <1>6, LeaveStep
  <2>2. Phases[w] = "stored" /\ Phases' = [Phases EXCEPT ![w] = "idle"]
    BY <1>0, <1>6 DEF Clear, Return, Phases, Inside, Writing
  <2> QED
    BY <1>6, <2>1, <2>2 DEF Clear, Return, Abstract!Return, Abstract!NoArgs, NoArgs
<1>7. CASE UNCHANGED vars
  BY <1>7 DEF vars, absvars, Owner, Recent, Phases, WritersOf, arena_idx, Window,
              Completed, Aliased
<1>8. Abstract!Args = Args
  BY DEF Abstract!Args, Args
<1>9. CASE Next
  BY <1>1, <1>2, <1>3, <1>4, <1>5, <1>6, <1>8, <1>9 DEF Next, Step, Work, Abstract!Next
<1> QED
  BY <1>7, <1>9

\* storage.cpp implements RecentWindow for every number of buckets and writers
\* and every window size: concurrent calls of update on a bucket behave as if
\* each had stored its sample in one indivisible step.
THEOREM ArenaRefinement == Spec => ImplementsWindow
<1>1. Init => Abstract!Init
  BY ArenaInitRefines
<1>2. IInv /\ IInv' /\ [Next]_vars => [Abstract!Next]_absvars
  BY ArenaStepRefines
<1>3. Spec => []IInv
  BY Inductive, PTL
<1> QED
  BY <1>1, <1>2, <1>3, PTL DEF Spec, ImplementsWindow, Abstract!Spec, absvars

=============================================================================
