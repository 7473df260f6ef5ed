---------------------------- MODULE BridgeOutput ----------------------------
(***************************************************************************)
(* firmware/bridge_main.c: the main loop around the transaction core, and  *)
(* usb_hid_drain, which turns the strokes of the executing job into        *)
(* press and release reports for the USB host.                             *)
(*                                                                         *)
(* One loop iteration is: tud_task and the clock sample ("top"), the drain *)
(* when it is due ("drain", "emit", "wait"), the TTL tick ("tick") and     *)
(* the client commands that async_context_poll delivers ("poll").  Time    *)
(* and the host run concurrently with all of it.  TinyUSB, the wire and    *)
(* the host are external: a report is accepted when the endpoint is ready, *)
(* the host fetches it at its own pace, and tud_task notices completions   *)
(* and bus events and runs the callbacks.                                  *)
(***************************************************************************)
EXTENDS BridgeCommands

CONSTANTS
  DrainPeriod,  \* 5 ms: the drain runs at most this often
  ReleaseWait,  \* 100 ms: how long the drain waits for a press to complete
  StallLimit,   \* 2000 ms: the stall guard of usb_hid_drain
  DrainLag,     \* bound: milliseconds between two clock samples in the drain
  MaxLag        \* bound: milliseconds between any two clock samples

ASSUME OutputAssumption ==
  /\ {DrainPeriod, ReleaseWait, StallLimit, DrainLag, MaxLag} \subseteq Nat
  /\ DrainLag <= MaxLag
  /\ StallLimit + MaxLag < ClockMod

VARIABLES
  pc,             \* where the main loop is
  now,            \* the hardware millisecond clock
  usb_now_ms,     \* its last sample
  ble_now_ms,     \* the sample that client commands see
  last_drain_ms,  \* last_usb_drain_ms
  exec_since_ms,  \* the stall guard's static variable, 0 when unset
  deadline,       \* until when the drain waits for the press to complete, 0 when
                  \* it does not wait: a local variable of usb_hid_drain
  usb,            \* "mounted", "suspended" or "detached"
  ep,             \* the IN endpoint: [busy, report, key]
  held,           \* host: the key it considers down, NoStroke if none
  pressed         \* history: pressed[k], the presses of k the host received

clocks == <<usb_now_ms, ble_now_ms, last_drain_ms, exec_since_ms, deadline>>
wire == <<usb, ep, held, pressed>>
vars == <<state, job, replay, status, plan, typed, pc, now, usb_now_ms, ble_now_ms,
          last_drain_ms, exec_since_ms, deadline, usb, ep, held, pressed>>

EpFree == [busy |-> "no", report |-> NoStroke, key |-> NoKey]

Init ==
  /\ CoreInit
  /\ pc = "top"
  /\ now = 0
  /\ usb_now_ms = 0 /\ ble_now_ms = 0 /\ last_drain_ms = 0
  /\ exec_since_ms = 0 /\ deadline = 0
  /\ usb = "detached"
  /\ ep = EpFree
  /\ held = NoStroke
  /\ pressed = [k \in Keys |-> <<>>]

Plus(t, d) == (t + d) % ClockMod

-----------------------------------------------------------------------------
\* External: TinyUSB and the host.

tud_hid_ready == usb = "mounted" /\ ep.busy = "no"

\* tud_hid_keyboard_report on a ready endpoint.
Queue(report, key) ==
  ep' = [busy |-> "queued", report |-> report, key |-> key]

\* The host polls the endpoint: a press replaces the key that is down.
HostPoll ==
  /\ usb = "mounted" /\ ep.busy = "queued"
  /\ held' = ep.report
  /\ pressed' = IF ep.report = NoStroke THEN pressed
                ELSE [pressed EXCEPT ![ep.key] = Append(@, ep.report)]
  /\ ep' = [ep EXCEPT !.busy = "sent"]
  /\ UNCHANGED <<state, job, replay, status, plan, typed, pc, now, clocks, usb>>

\* Client commands may take long, with a flash write; the drain samples all
\* the time.
Lag == IF pc \in {"drain", "emit", "wait"} THEN DrainLag ELSE MaxLag

Time ==
  /\ Elapsed(now, usb_now_ms) < Lag
  /\ now' = Plus(now, 1)
  /\ UNCHANGED <<state, job, replay, status, plan, typed, pc, clocks, wire>>

tud_suspend_cb == bridge_core_abort
tud_umount_cb == bridge_core_abort

\* tud_task: complete the transfer that the host has fetched, handle a bus
\* event if there is one, and run its callback.
Completed == IF ep.busy = "sent" THEN EpFree ELSE ep

tud_task ==
  \/ ep' = Completed /\ UNCHANGED <<coreVars, usb, held, pressed>>
  \/ /\ usb = "mounted" /\ usb' = "suspended"
     /\ ep' = Completed
     /\ tud_suspend_cb
     /\ UNCHANGED <<held, pressed>>
  \/ /\ usb # "detached" /\ usb' = "detached"
     /\ ep' = EpFree
     /\ held' = NoStroke
     /\ tud_umount_cb
     /\ UNCHANGED pressed
  \/ /\ usb # "mounted" /\ usb' = "mounted"
     /\ ep' = Completed
     /\ UNCHANGED <<coreVars, held, pressed>>

-----------------------------------------------------------------------------
\* The top of the loop: USB events, one clock sample for both clocks.
LoopTop ==
  /\ pc = "top"
  /\ tud_task
  /\ usb_now_ms' = now
  /\ ble_now_ms' = now
  /\ pc' = IF Elapsed(now, last_drain_ms) >= DrainPeriod THEN "drain" ELSE "tick"
  /\ UNCHANGED <<now, last_drain_ms, exec_since_ms, deadline>>

\* usb_hid_drain returns: the loop notes the time and goes on.
LeaveDrain ==
  /\ pc' = "tick"
  /\ last_drain_ms' = usb_now_ms

\* Seeded fault: no stall guard.
Stalled_never == FALSE

Stalled ==
  /\ exec_since_ms # 0
  /\ Elapsed(usb_now_ms, exec_since_ms) > StallLimit

\* The stall guard at the head of usb_hid_drain.
StallAbort ==
  /\ pc = "drain"
  /\ state = "EXECUTING" /\ Stalled
  /\ bridge_core_abort
  /\ exec_since_ms' = 0
  /\ LeaveDrain
  /\ UNCHANGED <<now, usb_now_ms, ble_now_ms, deadline, wire>>

StallGuard ==
  /\ pc = "drain"
  /\ ~(state = "EXECUTING" /\ Stalled)
  /\ exec_since_ms' = IF state # "EXECUTING" THEN 0
                      ELSE IF exec_since_ms = 0 THEN usb_now_ms ELSE exec_since_ms
  /\ pc' = "emit"
  /\ UNCHANGED <<coreVars, now, usb_now_ms, ble_now_ms, last_drain_ms, deadline, wire>>

\* Seeded fault: the drain asks only whether a host is there.
DrainMayRun_mounted == usb = "mounted"

\* while (tud_hid_ready())
DrainMayRun == tud_hid_ready

\* The drain's loop ends when the endpoint is busy or there is no stroke.
DrainDone ==
  /\ pc = "emit"
  /\ \/ ~DrainMayRun /\ UNCHANGED coreVars
     \/ DrainMayRun /\ bridge_core_next(usb_now_ms) /\ status' # "OK"
  /\ LeaveDrain
  /\ UNCHANGED <<now, usb_now_ms, ble_now_ms, exec_since_ms, deadline, wire>>

\* A stroke is taken and its press queued; a refused report ends the drain.
Press ==
  /\ pc = "emit"
  /\ DrainMayRun
  /\ bridge_core_next(usb_now_ms)
  /\ status' = "OK"
  /\ IF tud_hid_ready
     THEN /\ Queue(NextStroke, JobKey)
          /\ deadline' = Plus(usb_now_ms, ReleaseWait)
          /\ pc' = "wait"
          /\ UNCHANGED last_drain_ms
     ELSE LeaveDrain /\ UNCHANGED <<ep, deadline>>
  /\ UNCHANGED <<now, usb_now_ms, ble_now_ms, exec_since_ms, usb, held, pressed>>

\* Waiting for the press to complete, with tud_task and fresh samples.  The
\* comparison with the deadline is on absolute values.
AwaitPress ==
  /\ pc = "wait"
  /\ ~tud_hid_ready /\ usb_now_ms < deadline
  /\ tud_task
  /\ usb_now_ms' = now
  /\ UNCHANGED <<pc, now, ble_now_ms, last_drain_ms, exec_since_ms, deadline>>

Release ==
  /\ pc = "wait"
  /\ tud_hid_ready
  /\ Queue(NoStroke, NoKey)
  /\ pc' = "emit"
  /\ deadline' = 0
  /\ UNCHANGED <<coreVars, now, usb_now_ms, ble_now_ms, last_drain_ms, exec_since_ms,
                 usb, held, pressed>>

GiveUpRelease ==
  /\ pc = "wait"
  /\ ~tud_hid_ready /\ usb_now_ms >= deadline
  /\ LeaveDrain
  /\ deadline' = 0
  /\ UNCHANGED <<coreVars, now, usb_now_ms, ble_now_ms, exec_since_ms, wire>>

LoopTick ==
  /\ pc = "tick"
  /\ bridge_core_tick(usb_now_ms)
  /\ pc' = "poll"
  /\ UNCHANGED <<now, clocks, wire>>

-----------------------------------------------------------------------------
\* Client commands, delivered inside async_context_poll.

\* Seeded fault: staging reads the hardware clock itself.
StageTime_fresh == now

StageTime == ble_now_ms

Client ==
  /\ pc = "poll"
  /\ \/ \E r \in Requests : ble_handle_stage(r, StageTime)
     \/ \E k \in Keys : ble_handle_confirm(k, ble_now_ms)
     \/ \E k \in Keys : ble_handle_cancel(k)
     \/ \E c \in Clock : ble_handle_tick(c)
     \/ ShortFrame
  /\ UNCHANGED <<pc, now, clocks, wire>>

PollDone ==
  /\ pc = "poll"
  /\ pc' = "top"
  /\ UNCHANGED <<coreVars, now, clocks, wire>>

LoopStep ==
  \/ LoopTop \/ StallAbort \/ StallGuard \/ DrainDone \/ Press \/ AwaitPress
  \/ Release \/ GiveUpRelease \/ LoopTick \/ PollDone

Next ==
  \/ LoopStep
  \/ Time
  \/ HostPoll
  \/ Client

Spec == Init /\ [][Next]_vars

\* The loop runs and time passes; nothing is assumed of the host.
FairSpec == Spec /\ WF_vars(LoopStep) /\ WF_vars(Time)

-----------------------------------------------------------------------------
\* Types; the three clock samples and the deadlines stay in the clock's range.
OutputTypeOK ==
  /\ TypeOK
  /\ pc \in {"top", "drain", "emit", "wait", "tick", "poll"}
  /\ {now, usb_now_ms, ble_now_ms, last_drain_ms, exec_since_ms, deadline} \subseteq Clock
  /\ usb \in {"mounted", "suspended", "detached"}
  /\ ep \in [busy : {"no", "queued", "sent"}, report : Stroke \cup {NoStroke},
             key : Keys \cup {NoKey}]
  /\ held \in Stroke \cup {NoStroke}
  /\ pressed \in [Keys -> Seq(Stroke)]

(***************************************************************************)
(* What the host has seen of a job is always a beginning of what the core  *)
(* handed out: no press is lost between two others, doubled or reordered   *)
(* by suspends, aborts, missed releases or a job that follows another.     *)
(***************************************************************************)
PressesFollowPlan ==
  \A k \in Keys :
    /\ Len(pressed[k]) <= Len(typed[k])
    /\ Len(typed[k]) <= Len(pressed[k]) + 1 \/ usb # "mounted" \/ state # "EXECUTING"
    /\ \A i \in 1..Len(pressed[k]) : pressed[k][i] = plan[k][i]

\* The core reports COMPLETED only after the host fetched the last press.
DeliveredStep ==
  state # "COMPLETED" /\ state' = "COMPLETED" => pressed[JobKey] = plan[JobKey]

CompletedIsDelivered == [][DeliveredStep]_vars

(***************************************************************************)
(* The two clock samples never make a fresh job look old: the tick of the  *)
(* loop, the drain and a confirmation expire a job only if its TTL has     *)
(* passed on the hardware clock, although usb_now_ms runs ahead of         *)
(* ble_now_ms inside the drain.  Only a client's TICK, whose time is the   *)
(* client's, can end a job sooner.  It holds while the samples of the wait *)
(* do not step over its deadline just below the wrap (DrainLag = 1).       *)
(***************************************************************************)
SpuriousStep ==
  /\ state = "STAGED" /\ state' = "EXPIRED"
  /\ pc = "poll" => Expired(ble_now_ms)
  => Elapsed(now, job.staged_at_ms) >= job.ttl_ms

NoSpuriousExpiry == [][SpuriousStep]_vars

\* A job that executes ends, whatever the host does: "a later stage would
\* fail BUSY forever until power cycle" cannot happen.
ExecutingEnds == state = "EXECUTING" ~> state # "EXECUTING"

\* The stall guard's comment: it aborts when there is "no endpoint progress".
\* A ready endpoint means that the host has taken every report so far.
AbortOnlyWhenStalled == [][StallAbort => ~tud_hid_ready]_vars

\* docs/LIMITATIONS.md: a held key is "fixed".  When no job is active and the
\* endpoint is ready, no key is down on the host.
NoKeyLeftDown == pc = "top" /\ ~Active /\ tud_hid_ready => held = NoStroke
=============================================================================
