------------------------------ MODULE MCCondVar ------------------------------
(* Model-checking instances of CondVar. *)
EXTENDS CondVar, TLC

CONSTANTS a, b, c

\* Two waiters, and a signaller that does not lock; in the live run it locks,
\* too, and may signal while it holds the mutex.
WaitsPair   == (a :> {"timedwait", "clockwait"}) @@ (b :> {"wait"}) @@ (c :> {})
SignalsPair == (a :> {}) @@ (b :> {}) @@ (c :> {"signal", "broadcast"})

WaitsLive   == (a :> {"timedwait"}) @@ (b :> {"wait"}) @@ (c :> {"wait"})
WaitsClock  == (a :> {"clockwait"}) @@ (b :> {}) @@ (c :> {})
SignalsLive == (a :> {}) @@ (b :> {}) @@ (c :> {"broadcast"})
SignalsOne  == (a :> {}) @@ (b :> {}) @@ (c :> {"signal"})
=============================================================================
