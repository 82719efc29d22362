----------------------------- MODULE RateLimit -----------------------------
(***************************************************************************)
(* What a cooldown promises, whoever asks: of each key at most one thing   *)
(* is let through per Cooldown, by the time at which each asked.  It may   *)
(* be let through late, up to Late after it asked, and so by the clock on  *)
(* the wall sooner after the one before.  A restart may let one through    *)
(* early.                                                                  *)
(***************************************************************************)
EXTENDS Naturals

CONSTANTS Keys, Cooldown, Late

VARIABLES
    age,        \* key -> time since the last one let through had asked, at most LongAgo
    passing     \* key -> those let through and not yet done

vars == <<age, passing>>

LongAgo == Cooldown + Late
Rested  == [k \in Keys |-> LongAgo]

Init == age = Rested /\ passing = [k \in Keys |-> 0]

Pass(k) ==
    /\ \E since \in 0 .. Late :
          /\ age[k] >= Cooldown + since
          /\ age' = [age EXCEPT ![k] = since]
    /\ passing' = [passing EXCEPT ![k] = @ + 1]

Done(k) ==
    /\ passing[k] > 0
    /\ passing' = [passing EXCEPT ![k] = @ - 1]
    /\ UNCHANGED age

Elapse ==
    /\ age' = [k \in Keys |-> IF age[k] < LongAgo THEN age[k] + 1 ELSE LongAgo]
    /\ UNCHANGED passing

Restart == age' = Rested /\ passing' = [k \in Keys |-> 0]

Next == (\E k \in Keys : Pass(k) \/ Done(k)) \/ Elapse \/ Restart

Spec == Init /\ [][Next]_vars

=============================================================================
