---------------------------- MODULE SpatialArena ----------------------------
(***************************************************************************)
(* The arena of src/storage/storage.cpp: a fixed array of buckets, each    *)
(* with a rolling window of samples and a spinlock, written by any number  *)
(* of threads through SpatialArena::update.                                *)
(*                                                                         *)
(* A writer is at one control point pc[w]:                                 *)
(*   idle      outside update                                              *)
(*   geocode   in latLngToCell                                             *)
(*   spin      in the test_and_set loop of its bucket's lock               *)
(*   reset     lock taken, about to compare the bucket's cell with its own *)
(*   claim     about to write h3_index and read the window's head          *)
(*   speed, stamp, advance   about to write speeds[head], timestamps[head] *)
(*             and window.head                                             *)
(*   clear     about to clear the lock and return true                     *)
(***************************************************************************)
EXTENDS ArenaTypes

VARIABLES
    h3_index, speeds, timestamps, head, lock,  \* the fields of each HexBucket
    pc,     \* the control point of each writer
    arg,    \* the arguments of its call
    local,  \* its variable `head`
    ret     \* what its last call returned

vars == <<h3_index, speeds, timestamps, head, lock, pc, arg, local, ret>>
arena == <<h3_index, speeds, timestamps, head>>

Slots == 0 .. WindowSize - 1

\* The bucket of the writer's cell.
arena_idx(w) == BucketOf(arg[w].cell)

ZeroSlots == [i \in Slots |-> 0]

Goto(w, p) == pc' = [pc EXCEPT ![w] = p]

-----------------------------------------------------------------------------
\* The constructor: every bucket takes its default member initialisers.
Init ==
    /\ h3_index = [b \in Buckets |-> 0]
    /\ speeds = [b \in Buckets |-> ZeroSlots]
    /\ timestamps = [b \in Buckets |-> ZeroSlots]
    /\ head = [b \in Buckets |-> 0]
    /\ lock = [b \in Buckets |-> FALSE]
    /\ pc = [w \in Writers |-> "idle"]
    /\ arg = [w \in Writers |-> NoArgs]
    /\ local = [w \in Writers |-> 0]
    /\ ret = [w \in Writers |-> FALSE]

\* The call returns r and its arguments and variables are gone.
Return(w, r) ==
    /\ ret' = [ret EXCEPT ![w] = r]
    /\ arg' = [arg EXCEPT ![w] = NoArgs]
    /\ local' = [local EXCEPT ![w] = 0]
    /\ Goto(w, "idle")

update(w, a) ==
    /\ pc[w] = "idle"
    /\ arg' = [arg EXCEPT ![w] = a]
    /\ Goto(w, "geocode")
    /\ UNCHANGED <<arena, lock, local, ret>>

latLngToCellFails(w) ==
    /\ pc[w] = "geocode"
    /\ arg[w].cell = 0
    /\ Return(w, FALSE)
    /\ UNCHANGED <<arena, lock>>

latLngToCell(w) ==
    /\ pc[w] = "geocode"
    /\ arg[w].cell # 0
    /\ Goto(w, "spin")
    /\ UNCHANGED <<arena, lock, arg, local, ret>>

\* Mutation: the flag is set without looking at what it was.
TestAndSetBlind(w) ==
    /\ pc[w] = "spin"
    /\ lock' = [lock EXCEPT ![arena_idx(w)] = TRUE]
    /\ Goto(w, "reset")
    /\ UNCHANGED <<arena, arg, local, ret>>

\* A test_and_set that finds the flag set changes nothing and is retried.
TestAndSet(w) ==
    /\ pc[w] = "spin"
    /\ ~lock[arena_idx(w)]
    /\ lock' = [lock EXCEPT ![arena_idx(w)] = TRUE]
    /\ Goto(w, "reset")
    /\ UNCHANGED <<arena, arg, local, ret>>

\* Another cell holds the bucket.
Aliased(w) == h3_index[arena_idx(w)] \notin {0, arg[w].cell}

\* Mutation: the take-over clears the speeds and forgets the timestamps.
ResetSpeedsOnly(w) ==
    /\ pc[w] = "reset"
    /\ speeds' = IF Aliased(w) THEN [speeds EXCEPT ![arena_idx(w)] = ZeroSlots] ELSE speeds
    /\ Goto(w, "claim")
    /\ UNCHANGED <<h3_index, timestamps, head, lock, arg, local, ret>>

ResetIfAliased(w) ==
    LET b == arena_idx(w)
    IN  /\ pc[w] = "reset"
        /\ IF Aliased(w)
             THEN /\ speeds' = [speeds EXCEPT ![b] = ZeroSlots]
                  /\ timestamps' = [timestamps EXCEPT ![b] = ZeroSlots]
                  /\ head' = [head EXCEPT ![b] = 0]
             ELSE UNCHANGED <<speeds, timestamps, head>>
        /\ Goto(w, "claim")
        /\ UNCHANGED <<h3_index, lock, arg, local, ret>>

Claim(w) ==
    /\ pc[w] = "claim"
    /\ h3_index' = [h3_index EXCEPT ![arena_idx(w)] = arg[w].cell]
    /\ local' = [local EXCEPT ![w] = head[arena_idx(w)]]
    /\ Goto(w, "speed")
    /\ UNCHANGED <<speeds, timestamps, head, lock, arg, ret>>

WriteSpeed(w) ==
    /\ pc[w] = "speed"
    /\ speeds' = [speeds EXCEPT ![arena_idx(w)][local[w]] = arg[w].speed]
    /\ Goto(w, "stamp")
    /\ UNCHANGED <<h3_index, timestamps, head, lock, arg, local, ret>>

WriteStamp(w) ==
    /\ pc[w] = "stamp"
    /\ timestamps' = [timestamps EXCEPT ![arena_idx(w)][local[w]] = Stamp(arg[w].timestamp)]
    /\ Goto(w, "advance")
    /\ UNCHANGED <<h3_index, speeds, head, lock, arg, local, ret>>

\* Mutation: head is not wrapped.
AdvanceNoWrap(w) ==
    /\ pc[w] = "advance"
    /\ head' = [head EXCEPT ![arena_idx(w)] = local[w] + 1]
    /\ Goto(w, "clear")
    /\ UNCHANGED <<h3_index, speeds, timestamps, lock, arg, local, ret>>

Advance(w) ==
    /\ pc[w] = "advance"
    /\ head' = [head EXCEPT ![arena_idx(w)] = (local[w] + 1) % WindowSize]
    /\ Goto(w, "clear")
    /\ UNCHANGED <<h3_index, speeds, timestamps, lock, arg, local, ret>>

\* Mutation: update returns with the flag still set.
ClearForgotten(w) ==
    /\ pc[w] = "clear"
    /\ Return(w, TRUE)
    /\ UNCHANGED <<arena, lock>>

Clear(w) ==
    /\ pc[w] = "clear"
    /\ lock' = [lock EXCEPT ![arena_idx(w)] = FALSE]
    /\ Return(w, TRUE)
    /\ UNCHANGED arena

-----------------------------------------------------------------------------
\* The steps of a call that is under way.
Step(w) == \/ latLngToCellFails(w)
           \/ latLngToCell(w)
           \/ TestAndSet(w)
           \/ ResetIfAliased(w)
           \/ Claim(w)
           \/ WriteSpeed(w)
           \/ WriteStamp(w)
           \/ Advance(w)
           \/ Clear(w)

Next == \E w \in Writers : (\E a \in Args : update(w, a)) \/ Step(w)

Spec == Init /\ [][Next]_vars

\* A thread that is inside update is scheduled again and again.
FairSpec == Spec /\ \A w \in Writers : WF_vars(Step(w))

-----------------------------------------------------------------------------
(* Correctness. *)

Writing == {"claim", "speed", "stamp", "advance"}
Inside == {"reset", "clear"} \cup Writing

\* The writers that hold the lock of bucket b.
WritersOf(b) == {w \in Writers : pc[w] \in Inside /\ arena_idx(w) = b}

\* Every field has its type; in particular no index leaves the 60 slots and no
\* stored timestamp exceeds 32 bits.
TypeOK ==
    /\ h3_index \in [Buckets -> Cells \cup {0}]
    /\ speeds \in [Buckets -> [Slots -> Speeds \cup {0}]]
    /\ timestamps \in [Buckets -> [Slots -> 0 .. StampModulus - 1]]
    /\ head \in [Buckets -> Slots]
    /\ lock \in [Buckets -> BOOLEAN]
    /\ pc \in [Writers -> {"idle", "geocode", "spin"} \cup Inside]
    /\ arg \in [Writers -> Args \cup {NoArgs}]
    /\ local \in [Writers -> Slots]
    /\ ret \in [Writers -> BOOLEAN]

\* The spinlock works: the flag of a bucket is set exactly while a writer is
\* between test_and_set and clear on that bucket, and two writers never are,
\* while writers of other buckets are free to be.
BucketExclusion ==
    \A b \in Buckets :
       /\ lock[b] <=> WritersOf(b) # {}
       /\ \A v, w \in WritersOf(b) : v = w

\* The samples of bucket b, most recent first.
Window(b) ==
    [j \in Ages |->
       LET i == (head[b] + WindowSize - j) % WindowSize
       IN  [speed |-> speeds[b][i], stamp |-> timestamps[b][i]]]

\* What the bucket's window is once writer w, which holds its lock, is done.
Completed(b, w) ==
    CASE pc[w] = "reset" ->
             Pushed(IF Aliased(w) THEN EmptyWindow ELSE Window(b), Sample(arg[w]))
      [] pc[w] \in Writing -> Pushed(Window(b), Sample(arg[w]))
      [] OTHER -> Window(b)

\* The abstract bucket.  A call takes effect when it obtains the lock: from
\* there on the bucket counts as holding what the call will leave in it.
Owner == [b \in Buckets |->
            IF WritersOf(b) = {} THEN h3_index[b]
            ELSE LET w == CHOOSE w \in WritersOf(b) : TRUE IN arg[w].cell]
Recent == [b \in Buckets |->
            IF WritersOf(b) = {} THEN Window(b)
            ELSE LET w == CHOOSE w \in WritersOf(b) : TRUE IN Completed(b, w)]
Phases == [w \in Writers |->
            CASE pc[w] = "idle" -> "idle"
              [] pc[w] \in Inside -> "stored"
              [] OTHER -> "update"]

Abstract == INSTANCE RecentWindow WITH owner <- Owner, recent <- Recent, phase <- Phases

\* Every behaviour of update is one in which a call records its sample in a
\* single step: the circular array holds the most recent samples of one cell
\* in order, speed and timestamp of a slot come from the same call, a sample
\* is dropped only when WindowSize newer ones arrived or another cell took the
\* bucket over, and update returns true exactly when it recorded its sample.
ImplementsWindow == Abstract!Spec

\* No writer keeps a bucket for ever: whoever spins gets another chance.
LockReleased == \A b \in Buckets : lock[b] ~> ~lock[b]

\* README.md, "Lock scope is per-bucket - no global storage lock contention."
\* While one bucket is locked, some cell can still be updated.
LockIsLocal == \A b \in Buckets : lock[b] => \E c \in Cells : BucketOf(c) # b

=============================================================================
