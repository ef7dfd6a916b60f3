----------------------------- MODULE JobControl -----------------------------
(***************************************************************************)
(* What the tiny shell promises of its jobs (the table of states and       *)
(* transitions at the head of lab9/tsh.c): a listed job is in the          *)
(* foreground, in the background or stopped; a command changes the state   *)
(* of a job only while no job is in the foreground; and the prompt comes   *)
(* back only when none is.                                                 *)
(***************************************************************************)
EXTENDS Naturals, FiniteSets

CONSTANTS
  Pids,  \* the jobs, by process ID
  Room   \* how many of them the shell can list

VARIABLES
  mode,   \* the state of each job, "none" when it is not listed
  prompt  \* whether the shell is ready for a command

vars == <<mode, prompt>>

InMode(m) == {p \in Pids : mode[p] = m}
Listed == Pids \ InMode("none")

Init == mode = [p \in Pids |-> "none"] /\ prompt = TRUE

TakeCommand == prompt /\ prompt' = FALSE /\ UNCHANGED mode

Ready ==
  /\ ~prompt /\ InMode("FG") = {}
  /\ prompt' = TRUE /\ UNCHANGED mode

Start(p, m) ==
  /\ ~prompt /\ InMode("FG") = {}
  /\ mode[p] = "none" /\ Cardinality(Listed) < Room
  /\ mode' = [mode EXCEPT ![p] = m]
  /\ UNCHANGED prompt

\* The "fg" and "bg" commands; "bg" is done at once.
Resume(p, m) ==
  /\ ~prompt /\ InMode("FG") = {}
  /\ mode[p] \in {"BG", "ST"}
  /\ mode' = [mode EXCEPT ![p] = m]
  /\ prompt' = (m = "BG")

\* ctrl-z, or a stop of the child's own; ctrl-c, or the end of the child.
Stop(p) ==
  /\ mode[p] \in {"FG", "BG"}
  /\ mode' = [mode EXCEPT ![p] = "ST"]
  /\ UNCHANGED prompt

End(p) ==
  /\ mode[p] # "none"
  /\ mode' = [mode EXCEPT ![p] = "none"]
  /\ UNCHANGED prompt

Next ==
  \/ TakeCommand \/ Ready
  \/ \E p \in Pids :
       \/ Stop(p) \/ End(p)
       \/ \E m \in {"FG", "BG"} : Start(p, m) \/ Resume(p, m)

Spec == Init /\ [][Next]_vars
=============================================================================
