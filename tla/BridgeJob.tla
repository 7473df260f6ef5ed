------------------------------ MODULE BridgeJob ------------------------------
(***************************************************************************)
(* What the transaction core promises its clients, without saying how:     *)
(* one job at a time; a job is offered once under its key, may be          *)
(* approved, is then typed stroke by stroke in the order of its plan, and  *)
(* is called completed only when every stroke of the plan was handed out.  *)
(* A job may be withdrawn at any moment (cancel, expiry, abort).           *)
(* BridgeCore implements this specification.                               *)
(***************************************************************************)
EXTENDS Naturals, Sequences

CONSTANTS
  Keys,     \* the (owner, id) pairs under which jobs are offered
  NoKey,    \* "no job is open"
  Stroke    \* the key strokes a plan is made of

VARIABLES
  phase,    \* "idle", "offered", "running" or "completed"
  current,  \* key of the open job, NoKey when there is none
  plan,     \* plan[k]: the strokes offered under k, <<>> before the offer
  typed     \* typed[k]: the strokes handed out so far for k

jobVars == <<phase, current, plan, typed>>

Init ==
  /\ phase = "idle"
  /\ current = NoKey
  /\ plan = [k \in Keys |-> <<>>]
  /\ typed = [k \in Keys |-> <<>>]

Open == phase \in {"offered", "running"}

Offer(k) ==
  /\ ~Open
  /\ plan[k] = <<>>
  /\ phase' = "offered"
  /\ current' = k
  /\ plan'[k] \in Seq(Stroke) \ {<<>>}
  /\ plan' = [plan EXCEPT ![k] = plan'[k]]
  /\ UNCHANGED typed

Approve ==
  /\ phase = "offered"
  /\ phase' = "running"
  /\ UNCHANGED <<current, plan, typed>>

Type ==
  /\ phase = "running"
  /\ Len(typed[current]) < Len(plan[current])
  /\ typed' = [typed EXCEPT ![current] =
                 Append(@, plan[current][Len(@) + 1])]
  /\ UNCHANGED <<phase, current, plan>>

Finish ==
  /\ phase = "running"
  /\ typed[current] = plan[current]
  /\ phase' = "completed"
  /\ current' = NoKey
  /\ UNCHANGED <<plan, typed>>

Withdraw ==
  /\ phase' = "idle"
  /\ current' = NoKey
  /\ UNCHANGED <<plan, typed>>

Next ==
  \/ \E k \in Keys : Offer(k)
  \/ Approve
  \/ Type
  \/ Finish
  \/ Withdraw

Spec == Init /\ [][Next]_jobVars
=============================================================================
