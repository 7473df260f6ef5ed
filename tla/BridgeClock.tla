----------------------------- MODULE BridgeClock -----------------------------
(***************************************************************************)
(* The transaction core under the clock of the main loop (firmware/        *)
(* bridge_main.c): client commands, the drain and the loop's own tick pass *)
(* the loop's millisecond clock, which wraps at ClockMod; only a TICK      *)
(* command passes a time of the client's choice.  The watchdog resets the  *)
(* chip when the loop does not come around, so that at most TickGap        *)
(* milliseconds pass between two ticks of the loop.                        *)
(*                                                                         *)
(* Time here is that of the samples at the top of the loop.  It is exact   *)
(* for the age of a STAGED job, because the drain waits, and samples in    *)
(* between, only while a job is EXECUTING; a job staged right after such a *)
(* wait is older than its stamp says by up to the length of the wait.      *)
(* BridgeOutput has the two samples apart.                                 *)
(***************************************************************************)
EXTENDS BridgeCommands

CONSTANTS
  TickGap,  \* bound on the time between two ticks: below two watchdog periods
            \* of 30000 ms, because main() feeds it behind the tick
  Steps     \* by how much the clock may advance in one step of the model

ASSUME TickGapAssumption ==
  /\ TickGap \in Nat
  /\ MaxTTL + TickGap < ClockMod
  /\ Steps \subseteq 1..TickGap

VARIABLES
  now,        \* usb_now_ms, and ble_now_ms, which main() sets to the same value
  sincePoll,  \* milliseconds since the loop last called bridge_core_tick
  age         \* history: milliseconds since the staged job was staged, unwrapped,
              \* up to AgeBound

clockVars == <<now, sincePoll, age>>
vars == <<state, job, replay, status, plan, typed, now, sincePoll, age>>

Init ==
  /\ CoreInit
  /\ now = 0
  /\ sincePoll = 0
  /\ age = 0

\* The history follows the job: 0 when a job is staged or leaves STAGED.
AgeFollows == age' = IF state = "STAGED" /\ state' = "STAGED" THEN age ELSE 0

\* A call made by a handler of the loop: the clock stands still.
During(call) == call /\ AgeFollows /\ UNCHANGED <<now, sincePoll>>

\* A job of this age is overdue whatever its TTL; older ones are not told apart.
AgeBound == MaxTTL + TickGap

\* Time passes (to_ms_since_boot, sampled at the top of the loop).
Advance(d) ==
  /\ sincePoll + d <= TickGap
  /\ now' = IF now + d < ClockMod THEN now + d ELSE now + d - ClockMod
  /\ sincePoll' = sincePoll + d
  /\ age' = IF state # "STAGED" THEN 0
            ELSE IF age + d < AgeBound THEN age + d ELSE AgeBound
  /\ UNCHANGED coreVars

\* "Process bridge TTL expiry" in main()
Poll ==
  /\ bridge_core_tick(now)
  /\ AgeFollows
  /\ sincePoll' = 0
  /\ UNCHANGED now

\* The loop's clients, its drain and its USB callbacks call the core.
Client == During(Command(now))
Drain == During(bridge_core_next(now))
LocalAbort == During(bridge_core_abort)

Next ==
  \/ \E d \in Steps : Advance(d)
  \/ Poll
  \/ Client
  \/ Drain
  \/ LocalAbort

Spec == Init /\ [][Next]_vars

\* The loop keeps coming around and time keeps passing.
FairSpec == Spec /\ WF_vars(Poll) /\ WF_vars(\E d \in Steps : Advance(d))

-----------------------------------------------------------------------------
(***************************************************************************)
(* Wrap-around never shows: the 32-bit subtraction in bridge_core_tick     *)
(* agrees with real time, so a confirmation is accepted only within the    *)
(* TTL, and the loop, the drain and a late confirmation expire a job only  *)
(* when its TTL is over.                                                   *)
(***************************************************************************)
ExpiryStep ==
  state = "STAGED" =>
    /\ state' = "EXECUTING" => age < job.ttl_ms
    /\ Poll => (state' = "EXPIRED" <=> age >= job.ttl_ms)
    /\ Drain => (state' = "EXPIRED" <=> age >= job.ttl_ms)
    /\ During(ble_handle_confirm(JobKey, now)) => (state' = "EXPIRED" <=> age >= job.ttl_ms)

ExpiryExact == [][ExpiryStep]_vars

\* A staged secret is in memory for at most its TTL and one turn of the loop.
StagedLifetimeBounded == state = "STAGED" => age < job.ttl_ms + TickGap

\* A staged job does not wait for ever for a confirmation that never comes.
StagedEnds == state = "STAGED" ~> state # "STAGED"
=============================================================================
