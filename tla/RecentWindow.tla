---------------------------- MODULE RecentWindow ----------------------------
(***************************************************************************)
(* What SpatialArena promises its writers, with no lock and no circular    *)
(* array.  A bucket holds one cell and that cell's samples, most recent    *)
(* first.  A call of update either is rejected and leaves no trace, or     *)
(* records its sample in one step: the samples shift by one place and the  *)
(* oldest falls out; a cell that takes the bucket over from another one    *)
(* starts with an empty window.                                            *)
(***************************************************************************)
EXTENDS ArenaTypes

VARIABLES
    owner,   \* the cell each bucket holds, 0 when none did yet
    recent,  \* recent[b][1] is the latest sample of bucket b
    phase,   \* "idle", "update" or "stored" for each writer
    arg,     \* the arguments of the writer's call
    ret      \* what the writer's last call returned

\* The window of bucket b as cell c finds it.
WindowFor(b, c) == IF owner[b] \in {0, c} THEN recent[b] ELSE EmptyWindow

Init ==
    /\ owner = [b \in Buckets |-> 0]
    /\ recent = [b \in Buckets |-> EmptyWindow]
    /\ phase = [w \in Writers |-> "idle"]
    /\ arg = [w \in Writers |-> NoArgs]
    /\ ret = [w \in Writers |-> FALSE]

Invoke(w, a) ==
    /\ phase[w] = "idle"
    /\ phase' = [phase EXCEPT ![w] = "update"]
    /\ arg' = [arg EXCEPT ![w] = a]
    /\ UNCHANGED <<owner, recent, ret>>

Record(w) ==
    LET b == BucketOf(arg[w].cell)
    IN  /\ phase[w] = "update"
        /\ arg[w].cell # 0
        /\ owner' = [owner EXCEPT ![b] = arg[w].cell]
        /\ recent' = [recent EXCEPT ![b] = Pushed(WindowFor(b, arg[w].cell), Sample(arg[w]))]
        /\ phase' = [phase EXCEPT ![w] = "stored"]
        /\ UNCHANGED <<arg, ret>>

\* TRUE for a call that has stored its sample, FALSE for a rejected one.
Return(w) ==
    /\ \/ phase[w] = "stored"
       \/ phase[w] = "update" /\ arg[w].cell = 0
    /\ ret' = [ret EXCEPT ![w] = (phase[w] = "stored")]
    /\ phase' = [phase EXCEPT ![w] = "idle"]
    /\ arg' = [arg EXCEPT ![w] = NoArgs]
    /\ UNCHANGED <<owner, recent>>

Next == \E w \in Writers : \/ \E a \in Args : Invoke(w, a)
                           \/ Record(w)
                           \/ Return(w)

Spec == Init /\ [][Next]_<<owner, recent, phase, arg, ret>>

=============================================================================
