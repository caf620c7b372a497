----------------------------- MODULE CBTWindow -----------------------------
(***************************************************************************)
(* What the circuit build-time history promises its users (update_alpha,   *)
(* get_xm, update_state): the last N recorded samples in the order they    *)
(* were recorded; recording one more forgets the oldest, and a reset       *)
(* forgets them all.  Across a restart the history comes from storage: at  *)
(* most N of the samples stored there, in an order of its own, or none.    *)
(***************************************************************************)
EXTENDS Integers, Sequences, SequencesExt, Bags

CONSTANTS N, Samples

VARIABLES window,   \* the history, oldest first
          stored    \* the samples storage holds, a bag

vars == <<window, stored>>

Init == window = <<>> /\ stored = EmptyBag

\* A sample is recorded (circuit_build_times_add_time).
Record(v) ==
    /\ window' = IF Len(window) < N THEN Append(window, v)
                 ELSE Append(Tail(window), v)
    /\ UNCHANGED stored

\* The history is discarded (circuit_build_times_reset).
Forget == window' = <<>> /\ UNCHANGED stored

\* One call discards the history and records the sample that caused it
\* (handle_completed_hop: count_timeout resets, then add_time).
Restart(v) == window' = <<v>> /\ UNCHANGED stored

\* Storage changes under a running history: a save of it, or a file
\* written elsewhere.
Overwrite == UNCHANGED window

\* The process starts again with a history taken from storage (parse_state
\* shuffles, keeps N, and resets on a file it cannot use).
Reload ==
    /\ Len(window') <= N
    /\ ToBag(window') \sqsubseteq stored
    /\ UNCHANGED stored

Next == Forget \/ Overwrite \/ (\E v \in Samples : Record(v) \/ Restart(v))
        \/ Reload

Spec == Init /\ [][Next]_vars

=============================================================================
