----------------------------- MODULE RunHistory -----------------------------
(***************************************************************************)
(* What the store promises about a run, whatever processes record, prune   *)
(* and die around it (retention.rs module docs): ids are handed out in     *)
(* order and never reused; a run is closed once, with the baseline it was  *)
(* judged against, and says the same for ever; what can still be read of a *)
(* closed run only shrinks, and its evidence never outlives its stats.     *)
(***************************************************************************)
EXTENDS Integers

CONSTANT MaxRuns

VARIABLES
  life,      \* absent, open, then finished or interrupted
  judged,    \* the runs a closed run was judged against
  readable   \* what reading a closed run gives rather than an error

histVars == <<life, judged, readable>>

Runs   == 1..MaxRuns
Closed == {"finished", "interrupted"}
Tiers  == {{}, {"stats"}, {"stats", "evidence"}}

HInit ==
  /\ life = [r \in Runs |-> "absent"]
  /\ judged = [r \in Runs |-> {}]
  /\ readable = [r \in Runs |-> {}]

HBegin(r) ==
  /\ life[r] = "absent"
  /\ \A s \in Runs : s < r => life[s] # "absent"
  /\ life' = [life EXCEPT ![r] = "unfinished"]
  /\ UNCHANGED <<judged, readable>>

HClose(r) ==
  /\ life[r] = "unfinished"
  /\ \E c \in Closed : life' = [life EXCEPT ![r] = c]
  /\ \E B \in SUBSET {s \in Runs : s < r /\ life[s] = "finished"} :
       judged' = [judged EXCEPT ![r] = B]
  /\ \E t \in Tiers : readable' = [readable EXCEPT ![r] = t]

HLose ==
  /\ readable' \in [Runs -> Tiers]
  /\ \A r \in Runs : readable'[r] \subseteq readable[r]
  /\ UNCHANGED <<life, judged>>

HNext == (\E r \in Runs : HBegin(r) \/ HClose(r)) \/ HLose

HSpec == HInit /\ [][HNext]_histVars

=============================================================================
