----------------------------- MODULE Positioner -----------------------------
(***************************************************************************)
(* What the engine promises whoever owns it: a machine of several axes     *)
(* that is off, on or running down, stays within its travel, and moves an  *)
(* axis only for an order given since it was switched on.  Engine          *)
(* implements it, atomics, threads and all (Engine!Implements).            *)
(***************************************************************************)
CONSTANTS
  Axis,
  Travel      (* [Axis -> set of places]                                   *)

VARIABLES
  position,   (* [Axis -> place]                                           *)
  power,      (* "off", "on", "stopping", or "dead" for ever               *)
  order       (* [Axis -> the last order given since it was switched on]   *)

vars == <<position, power, order>>

Order == {"position", "speed"}
Moving == power \in {"on", "stopping"}

Init == /\ power = "off"
        /\ position \in [Axis -> UNION {Travel[a] : a \in Axis}]
        /\ \A a \in Axis : position[a] \in Travel[a]
        /\ order = [a \in Axis |-> "none"]

(* Switched on it stands where it stood, and has forgotten its orders.     *)
SwitchOn == /\ power = "off" /\ power' = "on"
            /\ order' = [a \in Axis |-> "none"]
            /\ UNCHANGED position

Give(a, o) == /\ power = "on"
              /\ order' = [order EXCEPT ![a] = o]
              /\ UNCHANGED <<position, power>>

Move(a) == /\ Moving /\ order[a] # "none"
           /\ \E p \in Travel[a] : position' = [position EXCEPT ![a] = p]
           /\ UNCHANGED <<power, order>>

(* Running down, it may end the move it is in, of each axis; then it is    *)
(* still until it is switched on again.                                    *)
SwitchOff == /\ power = "on" /\ power' = "stopping"
             /\ UNCHANGED <<position, order>>
Halt == /\ power = "stopping" /\ power' = "off"
        /\ UNCHANGED <<position, order>>

(* The one way to lose it for good, and it takes an order.                 *)
Die == /\ Moving /\ \E a \in Axis : order[a] # "none"
       /\ power' = "dead" /\ UNCHANGED <<position, order>>

Next == \/ SwitchOn \/ SwitchOff \/ Halt \/ Die
        \/ \E a \in Axis : Move(a) \/ \E o \in Order : Give(a, o)

Safety == Init /\ [][Next]_vars

(* Switched off it comes to a halt.                                        *)
Halts == (power = "stopping") ~> (power \in {"off", "dead"})

Spec == Safety /\ Halts
=============================================================================
