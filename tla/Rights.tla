------------------------------- MODULE Rights -------------------------------
(***************************************************************************)
(* What the servers behind aviso-auth know, and when they knew it: whether *)
(* the credentials of a user are valid (auth-o-tron) and whether a user    *)
(* may read a destination (ECPDS).  Both change at any time.  lastHeld and *)
(* lastLacked remember the last moment at which a right was, or was not,   *)
(* held; of what was before time 0 nothing is known.                       *)
(***************************************************************************)
EXTENDS Naturals

CONSTANTS Users, Destinations,
          MaxTime   \* bound on the clock

ASSUME TimeAssumption == MaxTime \in Nat
ASSUME UsersAssumption == Users \cap (Users \X Destinations) = {}

VARIABLES now, holds, lastHeld, lastLacked

rightsVars == <<now, holds, lastHeld, lastLacked>>

Rights == Users \cup (Users \X Destinations)

RightsInit ==
  /\ now = 0
  /\ holds \in [Rights -> BOOLEAN]
  /\ lastHeld = [r \in Rights |-> 0]
  /\ lastLacked = [r \in Rights |-> 0]

(* A right is granted or revoked; bound: not at the end of time *)
Change(r) ==
  /\ now < MaxTime
  /\ holds' = [holds EXCEPT ![r] = ~ @]
  /\ lastHeld' = [lastHeld EXCEPT ![r] = now]
  /\ lastLacked' = [lastLacked EXCEPT ![r] = now]
  /\ UNCHANGED now

Tick ==
  /\ now < MaxTime
  /\ now' = now + 1
  /\ lastHeld' = [r \in Rights |-> IF holds[r] THEN now + 1 ELSE lastHeld[r]]
  /\ lastLacked' = [r \in Rights |-> IF holds[r] THEN lastLacked[r] ELSE now + 1]
  /\ UNCHANGED holds
=============================================================================
