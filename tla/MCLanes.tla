------------------------------ MODULE MCLanes -------------------------------
(***************************************************************************)
(* Two lanes: one with two values of the same setting and a toggle, one    *)
(* with a single job; a barrier and a read.  Two values are enough for one *)
(* to take the other's place, or not to, across the barrier.               *)
(***************************************************************************)
EXTENDS Lanes

CONSTANTS bass1, bass2, toggle, play, split, group, read, kitchen, den, free, barr,
          bass, nothing

AllJobs == {bass1, bass2, toggle, play, split, group, read}

Lane ==
    [j \in AllJobs |-> CASE j \in {bass1, bass2, toggle} -> kitchen
                         [] j = play -> den
                         [] j \in {split, group} -> barr
                         [] OTHER -> free]

Setting == [j \in AllJobs |-> IF j \in {bass1, bass2} THEN bass ELSE nothing]

Alike == [j \in AllJobs |-> CASE j = bass2 -> {bass1}
                             [] j = group -> {split}
                             [] OTHER -> {}]
=============================================================================
