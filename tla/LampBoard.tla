------------------------------ MODULE LampBoard ------------------------------
(***************************************************************************)
(* What the two traffic lights of Lab3 promise, without threads, loops or  *)
(* buttons: lamps are written one at a time; when a light is held, it is   *)
(* the only one that is on, and no lamp is written until it is released.   *)
(***************************************************************************)
EXTENDS Integers

CONSTANT Lamp

VARIABLES
  led,   \* what each lamp shows
  held   \* is a light being shown for its time?

vars == <<led, held>>

Only(lamp) == [l \in Lamp |-> IF l = lamp THEN 1 ELSE 0]

\* The lamps show what was left on them before.
Init == led \in [Lamp -> {0, 1}] /\ held = FALSE

\* One lamp is written; that may complete a light, which is then held.
Write ==
  /\ ~ held
  /\ \E lamp \in Lamp, value \in {0, 1} : led' = [led EXCEPT ![lamp] = value]
  /\ held' \in BOOLEAN
  /\ held' => \E lamp \in Lamp : led' = Only(lamp)

Release ==
  /\ held
  /\ held' = FALSE
  /\ UNCHANGED led

Next == Write \/ Release

Spec == Init /\ [][Next]_vars
=============================================================================
