---------------------------- MODULE ReplayFilter ----------------------------
(***************************************************************************)
(* What an anti-replay filter promises, with perfect memory: it remembers  *)
(* every number it accepted since the last restart.  A number it accepted  *)
(* is never accepted again; a number above the newest one is always        *)
(* accepted; any other fresh number is accepted exactly when it lies less  *)
(* than Window behind the newest.                                          *)
(***************************************************************************)
EXTENDS Integers

CONSTANTS SeqNumbers,   \* the numbers that can be offered
          Window        \* how far behind the newest one the filter looks

VARIABLES newest,   \* the newest number accepted, or the initial one
          seen,     \* every number accepted since the last restart
          answer    \* what the last offer was answered: [number, verdict]

filterVars == <<newest, seen, answer>>

NoAnswer == [number |-> 0, verdict |-> "none"]

StartAt(n) == newest = n /\ seen = {} /\ answer = NoAnswer

FilterInit == \E n \in SeqNumbers : StartAt(n)

Accept(n) == /\ seen' = seen \cup {n}
             /\ answer' = [number |-> n, verdict |-> "accepted"]

Advance(n) == n > newest /\ newest' = n /\ Accept(n)

FillGap(n) == /\ n <= newest /\ newest - n < Window /\ n \notin seen
              /\ Accept(n)
              /\ UNCHANGED newest

Refuse(n) == /\ n \in seen \/ newest - n >= Window
             /\ answer' = [number |-> n, verdict |-> "refused"]
             /\ UNCHANGED <<newest, seen>>

Restart(n) == newest' = n /\ seen' = {} /\ answer' = NoAnswer

FilterNext == \E n \in SeqNumbers : \/ Advance(n) \/ FillGap(n)
                                    \/ Refuse(n) \/ Restart(n)

FilterSpec == FilterInit /\ [][FilterNext]_filterVars
=============================================================================
