-------------------------- MODULE RecoverableState --------------------------
(***************************************************************************)
(* What a stellmap node promises of the data that it would rebuild if it   *)
(* were restarted now: the data reflect a prefix of the replicated log,    *)
(* the prefix only grows, and a key only ever changes to a write that is   *)
(* newer than the prefix was.  In particular no applied write is lost and  *)
(* none comes back that a newer one replaced.                              *)
(***************************************************************************)
EXTENDS Integers

CONSTANTS Keys, MaxIndex

VARIABLES
  durable,  \* the length of the prefix
  image     \* key -> index of the entry that wrote it, 0 for none

vars == <<durable, image>>

Init == durable = 0 /\ image = [k \in Keys |-> 0]

\* The prefix grows to n; each key keeps its writer or takes a new one.
Extend(n) ==
  /\ n > durable
  /\ durable' = n
  /\ DOMAIN image' = Keys
  /\ \A k \in Keys : image'[k] = image[k] \/ image'[k] \in durable + 1 .. n

Next == \E n \in 1 .. MaxIndex : Extend(n)

Spec == Init /\ [][Next]_vars

=============================================================================
