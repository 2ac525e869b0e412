--------------------------- MODULE SerialSession ---------------------------
(***************************************************************************)
(* What an FTPSession promises to the goroutines that share it for control *)
(* commands: calls take turns, a call succeeds only in its own turn, on an *)
(* open session, after every round trip it is made of was answered by the  *)
(* reply to its own command; and once closed the session stays closed and  *)
(* every later call fails.  Sockets, deadlines, queues and the mutex of    *)
(* the implementation (ControlConn) do not appear.                         *)
(***************************************************************************)
EXTENDS Naturals

CONSTANTS Goroutines,   \* the callers
          NoOne,        \* "nobody's turn"
          Ops,          \* the operations they may call
          Trips         \* how many round trips an operation is made of

VARIABLES open,         \* the session accepts commands
          turn,         \* the goroutine whose call is being executed
          st,           \* the state of each goroutine's latest call
          call,         \* the operation it called
          answered      \* how many of its round trips were answered

vars == <<open, turn, st, call, answered>>

Outcomes == {"ok", "refused", "ctx", "failed", "shut"}

Init ==
  /\ open = TRUE
  /\ turn = NoOne
  /\ st = [g \in Goroutines |-> "new"]
  /\ call = [g \in Goroutines |-> "Close"]
  /\ answered = [g \in Goroutines |-> 0]

Invoke(g, o) ==
  /\ st[g] # "pending"
  /\ st' = [st EXCEPT ![g] = "pending"]
  /\ call' = [call EXCEPT ![g] = o]
  /\ answered' = [answered EXCEPT ![g] = 0]
  /\ UNCHANGED <<open, turn>>

Begin(g) ==
  /\ st[g] = "pending"
  /\ turn = NoOne
  /\ turn' = g
  /\ UNCHANGED <<open, st, call, answered>>

Answer(g) ==
  /\ turn = g
  /\ open
  /\ answered[g] < Trips[call[g]]
  /\ answered' = [answered EXCEPT ![g] = @ + 1]
  /\ UNCHANGED <<open, turn, st, call>>

(* The stream became unusable during g's turn. *)
Break(g) ==
  /\ turn = g
  /\ open
  /\ open' = FALSE
  /\ UNCHANGED <<turn, st, call, answered>>

End(g, outcome) ==
  /\ turn = g
  /\ outcome = "ok" => open /\ answered[g] = Trips[call[g]]
  /\ outcome \in {"refused", "ctx"} => open
  /\ outcome = "failed" => ~open
  /\ st' = [st EXCEPT ![g] = outcome]
  /\ turn' = NoOne
  /\ UNCHANGED <<open, call, answered>>

Shut(g) ==
  /\ st[g] = "pending"
  /\ call[g] = "Close"
  /\ turn = NoOne
  /\ open' = FALSE
  /\ st' = [st EXCEPT ![g] = "shut"]
  /\ UNCHANGED <<turn, call, answered>>

Next ==
  \E g \in Goroutines :
    \/ \E o \in Ops \cup {"Close"} : Invoke(g, o)
    \/ Begin(g)
    \/ Answer(g)
    \/ Break(g)
    \/ \E outcome \in Outcomes \ {"shut"} : End(g, outcome)
    \/ Shut(g)

Spec == Init /\ [][Next]_vars
=============================================================================
