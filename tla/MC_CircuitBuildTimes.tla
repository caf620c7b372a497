------------------------ MODULE MC_CircuitBuildTimes ------------------------
(***************************************************************************)
(* Bounds for CircuitBuildTimes.  A three-slot history, a scaled INT32_MAX *)
(* of 16 so that two network-change resets double the initial timeout 3   *)
(* to 6 and 12 and the third meets the INT32_MAX/2 guard, one fast (1) and *)
(* one slow (9) build time: 9 times out under the initial timeout, is a    *)
(* clock jump while close_ms is 3 and a real sample once it doubled.       *)
(***************************************************************************)
EXTENDS CircuitBuildTimes

\* Two harnesses share the run.  "learn" is the whole running process with
\* the state file left alone.  "restart" adds saves, foreign state files and
\* restarts; its circuits are fast ordinary ones (a circuit has opened
\* before, the path is complete, it was not a measurement circuit, not
\* relaxed, and it beat the timeout) and closes while the network is live.
\* Timeouts and consensus changes only reach the state file through the
\* samples, and the foreign state files bring in the slow time.
VARIABLE mode

MCInit == mode \in {"learn", "restart"} /\ Init

Learning(m) == mode = m /\ mode' = m

MCNext ==
    \/ Learning("learn") /\ \E b \in BuildTimes, ao, wm, fh, rl \in BOOLEAN :
                               HandleCompletedHop(b, ao, wm, fh, rl)
    \/ Learning("learn") /\ \E d \in BOOLEAN : CountTimeout(d)
    \/ Learning("learn") /\ \E s \in BOOLEAN : CountClose(s)
    \/ Learning("learn") /\ NetworkIsLive
    \/ Learning("learn") /\ \E d \in BOOLEAN, num \in {0} \cup RecentCounts :
                               NewConsensusParams(d, num)
    \/ Learning("restart") /\ HandleCompletedHop(Min(BuildTimes), TRUE, FALSE, TRUE, FALSE)
    \/ Learning("restart") /\ CountClose(FALSE)
    \/ Learning("restart") /\ SaveState
    \/ Learning("restart") /\ \E s \in ForeignStates : ReplaceState(s)
    \/ Learning("restart") /\ \E d \in BOOLEAN : Restart(d)

MCSpec == MCInit /\ [][MCNext]_<<vars, mode>>

MC_N == 3
MC_Int32Max == 16
MC_BinWidth == 2
MC_NumModes == 2
MC_MinCircs == 2
MC_MaxTimeouts == 2
MC_MinTimeoutParam == 2
MC_InitialTimeoutParam == 3
MC_CircuitBuildTimeout == 0
MC_DefaultRecent == 3
MC_RecentCounts == {2, 3}
MC_BuildTimes == {1, 9}
MC_JumpSlack == 1
MC_MaxNonlive == 1
MC_Uint32Mod == 32

\* State files of another writer: one of a version that observes four
\* circuits (a random three are kept), one whose counts disagree with its
\* total, one with a bin line of a single word.
MC_ForeignStates ==
    { [total |-> 4, abandoned |-> 1,
       lines |-> << [args |-> 2, ms |-> 1, count |-> 3] >>],
      [total |-> 2, abandoned |-> 0,
       lines |-> << [args |-> 2, ms |-> 9, count |-> 1] >>],
      [total |-> 1, abandoned |-> 0,
       lines |-> << [args |-> 1, ms |-> 9, count |-> 0] >>] }

\* A state file whose second bin count makes the uint32_t bound check wrap
\* (1 + 31 = 32, that is 0): 31 times are written for a total of 2.
MC_ForeignStatesOverrun ==
    { [total |-> 2, abandoned |-> 0,
       lines |-> << [args |-> 2, ms |-> 1, count |-> 1],
                    [args |-> 2, ms |-> 9, count |-> 31] >>] }

=============================================================================
