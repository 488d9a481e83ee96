---------------------------- MODULE DrainBarrier ----------------------------
(***************************************************************************)
(* What the callback gate promises its users, with nothing of how: work is *)
(* begun and ended once each, business work only begins while the gate is  *)
(* open, and the drain happens once the gate is closed and nothing begun   *)
(* is unfinished. After the drain nothing begins any more.                 *)
(***************************************************************************)
CONSTANTS
  Work,     \* units of work the gate counts
  Business  \* the part of it that needs an open gate

VARIABLES phase, begun, ended

bvars == <<phase, begun, ended>>

Init == phase = "open" /\ begun = {} /\ ended = {}

Begin(w) ==
  /\ w \notin begun
  /\ phase # "drained"
  /\ w \in Business => phase = "open"
  /\ begun' = begun \union {w}
  /\ UNCHANGED <<phase, ended>>

End(w) ==
  /\ w \in begun \ ended
  /\ ended' = ended \union {w}
  /\ UNCHANGED <<phase, begun>>

Close ==
  /\ phase = "open"
  /\ phase' = "closing"
  /\ UNCHANGED <<begun, ended>>

Drain ==
  /\ phase = "closing"
  /\ begun \subseteq ended
  /\ phase' = "drained"
  /\ UNCHANGED <<begun, ended>>

Next == Close \/ Drain \/ \E w \in Work : Begin(w) \/ End(w)

Spec == Init /\ [][Next]_bvars
=============================================================================
