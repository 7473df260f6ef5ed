------------------------- MODULE BridgeOutputProofs -------------------------
(***************************************************************************)
(* What the USB host sees of a job, for every set of texts, every clock    *)
(* range and every period: the presses are the first strokes of the plan,  *)
(* each once and in order, and COMPLETED is reported only when the last    *)
(* one was fetched.                                                        *)
(*                                                                         *)
(* The inductive invariant follows the one stroke that may be between the  *)
(* core and the host: it waits in the endpoint, or it was lost with the    *)
(* bus, and then its job was aborted and its pair never comes back.        *)
(***************************************************************************)
EXTENDS BridgeOutput, BridgeCoreProofs

\* The press of this pair that the host has not fetched yet is in the endpoint.
Waiting(k) == ep.busy = "queued" /\ ep.report # NoStroke /\ ep.key = k

\* A press in the endpoint belongs to a pair.
EndpointShape == ep.report # NoStroke => ep.report \in Stroke /\ ep.key \in Keys

\* The open job's strokes are at the host, except for the one in the endpoint.
StrokeAccounted(k) ==
  /\ Len(pressed[k]) <= Len(typed[k]) /\ Len(typed[k]) <= Len(pressed[k]) + 1
  /\ \A i \in 1..Len(pressed[k]) : pressed[k][i] = plan[k][i]
  /\ Waiting(k) => /\ Len(typed[k]) = Len(pressed[k]) + 1
                   /\ ep.report = plan[k][Len(typed[k])]
  /\ Active /\ JobKey = k /\ ~Waiting(k) => Len(typed[k]) = Len(pressed[k])

\* The inductive invariant.
OutputInv ==
  /\ CoreInv
  /\ OutputTypeOK
  /\ EndpointShape
  /\ \A k \in Keys : StrokeAccounted(k)

-----------------------------------------------------------------------------
\* Adding to a clock value wraps into the clock's range.
LEMMA PlusType ==
  ASSUME NEW t \in Clock, NEW d \in Nat
  PROVE  Plus(t, d) \in Clock
<1>1. t + d \in Nat /\ ClockMod \in Nat /\ ClockMod > 0
  BY ConstantsAssumption DEF Clock
<1> QED BY <1>1 DEF Plus, Clock

\* A call that hands nothing out keeps the open job, ends it, or opens one under a
\* pair that was never used.
LEMMA QuietCall ==
  ASSUME CoreInv, CoreNext \/ UNCHANGED coreVars, typed' = typed
  PROVE  \/ plan' = plan /\ (Active' => Active /\ JobKey' = JobKey)
         \/ \E r \in Requests :
              /\ Key(r) \in Keys /\ plan[Key(r)] = <<>> /\ JobKey' = Key(r)
              /\ \A k \in Keys : k # Key(r) => plan'[k] = plan[k]
<1>1. CASE UNCHANGED coreVars
  BY <1>1 DEF coreVars, Active, JobKey
<1>2. CASE CoreNext
  <2>1. Outcome
    BY <1>2, CallOutcome
  <2>2. CASE KeepsCore \/ Confirmed
    BY <2>2 DEF KeepsCore, Confirmed, Active, JobKey
  <2>3. ASSUME NEW x \in Ended, terminate(x)
        PROVE  plan' = plan /\ ~Active'
    BY <2>3 DEF Ended, terminate, Active
  <2>4. ASSUME NEW r \in Requests, NEW t \in Clock, StageVerdict(r) = "OK", StageAccepted(r, t)
        PROVE  /\ Key(r) \in Keys /\ plan[Key(r)] = <<>> /\ JobKey' = Key(r)
               /\ \A k \in Keys : k # Key(r) => plan'[k] = plan[k]
    <3>1. Key(r) \in Keys /\ Key(r) \notin Ledger
      BY <2>4, VerdictOk DEF Keys
    <3>2. plan[Key(r)] = <<>>
      BY <3>1 DEF CoreInv, LedgerExact
    <3>3. JobKey' = Key(r) /\ plan' = [plan EXCEPT ![Key(r)] = Compiled(r).strokes]
      BY <2>4 DEF StageAccepted, JobKey, Key
    <3> QED BY <3>1, <3>2, <3>3 DEF CoreInv, TypeOK
  <2>5. ~(Executing /\ ~Exhausted /\ HandOut)
    <3>1. SUFFICES ASSUME Executing, HandOut PROVE FALSE
      OBVIOUS
    <3>2. JobKey \in Keys /\ typed[JobKey] \in Seq(Stroke)
      BY <3>1, OpenJob DEF Executing, Active
    <3>3. typed'[JobKey] = Append(typed[JobKey], NextStroke)
      BY <3>1, <3>2 DEF HandOut, CoreInv, TypeOK
    <3>4. Len(typed'[JobKey]) = Len(typed[JobKey]) + 1
      BY <3>2, <3>3
    <3> QED BY <3>2, <3>4
  <2> QED BY <2>1, <2>2, <2>3, <2>4, <2>5 DEF Outcome, Ended
<1> QED BY <1>1, <1>2

\* What a loop step without a press does to the endpoint and the core: the waiting
\* press stays where it is, or it is lost and no job is open any more.
LEMMA AccountsKept ==
  ASSUME OutputInv, CoreNext \/ UNCHANGED coreVars, typed' = typed, pressed' = pressed,
         ep' \in {ep, Completed} \/ (ep' = EpFree /\ ~Active')
  PROVE  EndpointShape' /\ \A k \in Keys : StrokeAccounted(k)'
<1>1. EndpointShape'
  BY DEF EndpointShape, Completed, EpFree, OutputInv
<1>2. ASSUME NEW k \in Keys PROVE StrokeAccounted(k)'
  <2>1. StrokeAccounted(k) /\ pressed[k] \in Seq(Stroke) /\ typed[k] \in Seq(Stroke)
    BY DEF OutputInv, OutputTypeOK, TypeOK
  <2>2. Waiting(k)' => Waiting(k) /\ ep'.report = ep.report
    BY DEF Waiting, Completed, EpFree
  <2>3. Waiting(k) => Waiting(k)' \/ ~Active'
    BY DEF Waiting, Completed, EpFree
  <2>4. CASE plan' = plan /\ (Active' => Active /\ JobKey' = JobKey)
    BY <2>1, <2>2, <2>3, <2>4 DEF StrokeAccounted
  <2>5. ASSUME NEW r \in Requests, Key(r) \in Keys, plan[Key(r)] = <<>>, JobKey' = Key(r),
               \A x \in Keys : x # Key(r) => plan'[x] = plan[x]
        PROVE  StrokeAccounted(k)'
    <3>1. CASE k # Key(r)
      BY <2>1, <2>2, <2>3, <2>5, <3>1 DEF StrokeAccounted
    <3>2. CASE k = Key(r)
      <4>1. Len(typed[k]) = 0
        BY <2>1, <2>5, <3>2 DEF OutputInv, CoreInv, TypedFollowsPlan
      <4>2. Len(pressed[k]) = 0 /\ ~Waiting(k)
        BY <2>1, <4>1 DEF StrokeAccounted
      <4> QED BY <2>1, <2>2, <4>1, <4>2 DEF StrokeAccounted
    <3> QED BY <3>1, <3>2
  <2> QED BY <2>4, <2>5, QuietCall DEF OutputInv
<1> QED BY <1>1, <1>2

-----------------------------------------------------------------------------
Places == {"top", "drain", "emit", "wait", "tick", "poll"}

\* A step without a press keeps the invariant.
LEMMA QuietInv ==
  ASSUME OutputInv, CoreNext \/ UNCHANGED coreVars, typed' = typed, pressed' = pressed,
         ep' \in {ep, Completed} \/ (ep' = EpFree /\ ~Active'),
         pc' \in Places, usb' \in {"mounted", "suspended", "detached"},
         held' \in {held, NoStroke},
         {now', usb_now_ms', ble_now_ms', last_drain_ms', exec_since_ms', deadline'}
           \subseteq Clock
  PROVE  OutputInv'
<1>1. CoreInv'
  BY CoreInvStep DEF OutputInv
<1>2. ep' \in [busy : {"no", "queued", "sent"}, report : Stroke \cup {NoStroke},
               key : Keys \cup {NoKey}]
  BY DEF OutputInv, OutputTypeOK, Completed, EpFree
<1>3. OutputTypeOK'
  BY <1>1, <1>2 DEF OutputInv, OutputTypeOK, CoreInv, Places
<1>4. EndpointShape' /\ \A k \in Keys : StrokeAccounted(k)'
  BY AccountsKept
<1> QED BY <1>1, <1>3, <1>4 DEF OutputInv

\* The clock values at hand.
LEMMA ClocksInRange ==
  ASSUME OutputInv
  PROVE  /\ now \in Clock /\ usb_now_ms \in Clock /\ ble_now_ms \in Clock
         /\ last_drain_ms \in Clock /\ exec_since_ms \in Clock /\ deadline \in Clock
         /\ 0 \in Clock
         /\ usb \in {"mounted", "suspended", "detached"} /\ pc \in Places
  BY ConstantsAssumption DEF OutputInv, OutputTypeOK, Places, Clock

\* tud_task: it calls the core only to abort, and drops a press only then.
LEMMA TaskFacts ==
  ASSUME OutputInv, tud_task
  PROVE  /\ CoreNext \/ UNCHANGED coreVars
         /\ typed' = typed /\ pressed' = pressed
         /\ ep' \in {ep, Completed} \/ (ep' = EpFree /\ ~Active')
         /\ usb' \in {"mounted", "suspended", "detached"}
         /\ held' \in {held, NoStroke}
  BY ClocksInRange
  DEF tud_task, tud_suspend_cb, tud_umount_cb, bridge_core_abort, terminate, CoreNext,
      coreVars, Active

\* The calls of the loop and of its clients that hand nothing out.
LEMMA CallFacts ==
  ASSUME OutputInv,
         \/ bridge_core_abort
         \/ bridge_core_tick(usb_now_ms)
         \/ bridge_core_next(usb_now_ms) /\ status' # "OK"
         \/ \E r \in Requests : ble_handle_stage(r, StageTime)
         \/ \E k \in Keys : ble_handle_confirm(k, ble_now_ms)
         \/ \E k \in Keys : ble_handle_cancel(k)
         \/ \E c \in Clock : ble_handle_tick(c)
  PROVE  CoreNext /\ typed' = typed
<1>0. usb_now_ms \in Clock /\ ble_now_ms \in Clock
  BY ClocksInRange
<1>1. CASE bridge_core_abort
  BY <1>1 DEF bridge_core_abort, terminate, CoreNext
<1>2. ASSUME NEW c \in Clock, bridge_core_tick(c) PROVE CoreNext /\ typed' = typed
  BY <1>2 DEF bridge_core_tick, terminate, Return, CoreNext
<1>3. CASE bridge_core_next(usb_now_ms) /\ status' # "OK"
  <2>1. CoreNext
    BY <1>0, <1>3 DEF CoreNext
  <2>2. typed' = typed
    BY <1>3 DEF bridge_core_next, bridge_core_tick, terminate, Return, HandOut
  <2> QED BY <2>1, <2>2
<1>4. ASSUME NEW r \in Requests, ble_handle_stage(r, StageTime) PROVE CoreNext /\ typed' = typed
  <2>1. Decoded(r) \in Requests /\ bridge_core_stage(Decoded(r), ble_now_ms)
    BY <1>4, DecodedAssumption DEF ble_handle_stage, StageTime
  <2>2. CoreNext
    BY <1>0, <2>1 DEF CoreNext
  <2>3. typed' = typed
    BY <2>1 DEF bridge_core_stage, terminate, Return, StageAccepted
  <2> QED BY <2>2, <2>3
<1>5. ASSUME NEW k \in Keys, ble_handle_confirm(k, ble_now_ms) PROVE CoreNext /\ typed' = typed
  <2>1. CoreNext
    BY <1>0, <1>5 DEF CoreNext, ble_handle_confirm
  <2>2. typed' = typed
    BY <1>5 DEF ble_handle_confirm, bridge_core_confirm, bridge_core_tick, terminate, Return
  <2> QED BY <2>1, <2>2
<1>6. ASSUME NEW k \in Keys, ble_handle_cancel(k) PROVE CoreNext /\ typed' = typed
  BY <1>6 DEF ble_handle_cancel, bridge_core_cancel, terminate, Return, CoreNext
<1> QED BY <1>0, <1>1, <1>2, <1>3, <1>4, <1>5, <1>6 DEF ble_handle_tick

\* A stroke that the core hands out goes into the free endpoint.
LEMMA PressInv ==
  ASSUME OutputInv, Press
  PROVE  OutputInv'
<1> DEFINE j == JobKey
<1>1. /\ ep.busy = "no" /\ bridge_core_next(usb_now_ms) /\ status' = "OK"
      /\ ep' = [busy |-> "queued", report |-> NextStroke, key |-> j]
      /\ deadline' = Plus(usb_now_ms, ReleaseWait) /\ pc' = "wait"
      /\ last_drain_ms' = last_drain_ms
      /\ UNCHANGED <<now, usb_now_ms, ble_now_ms, exec_since_ms, usb, held, pressed>>
  BY DEF Press, DrainMayRun, tud_hid_ready, Queue
<1>2. Executing /\ ~Exhausted /\ HandOut
  BY <1>1 DEF bridge_core_next, bridge_core_tick, Return
<1>3. /\ CoreInv'
      /\ typed' = [typed EXCEPT ![j] = Append(typed[j], plan[j][job.cursor + 1])]
  BY <1>1, <1>2, HandOutInv DEF OutputInv, Statuses
<1>4. Active /\ state' = state /\ plan' = plan /\ j \in Keys /\ JobKey' = j
  <2>1. job \in Job
    BY DEF OutputInv, CoreInv, TypeOK
  <2>2. Active /\ state' = state /\ plan' = plan /\ JobKey' = j
    BY <1>2, <2>1 DEF HandOut, JobKey, Job, Executing, Active
  <2> QED BY <2>2, OpenJob DEF OutputInv
<1>5. /\ typed[j] \in Seq(Stroke) /\ plan[j] \in Seq(Stroke)
      /\ job.cursor \in Nat /\ job.cursor + 1 \in 1..Len(plan[j])
      /\ Len(typed[j]) = job.cursor
  BY <1>2, <1>4, OpenJob DEF OutputInv, Exhausted
<1>6. NextStroke = plan[j][job.cursor + 1] /\ NextStroke \in Stroke
  <2>1. NextStroke = plan[j][job.cursor + 1]
    BY <1>4, <1>5, OpenJob DEF OutputInv, CoreInv, TypedFollowsPlan, NextStroke
  <2> QED BY <1>5, <2>1
<1>7. OutputTypeOK'
  <2>1. deadline' \in Clock
    BY <1>1, ClocksInRange, PlusType, OutputAssumption
  <2>2. ep' \in [busy : {"no", "queued", "sent"}, report : Stroke \cup {NoStroke},
                 key : Keys \cup {NoKey}]
    BY <1>1, <1>4, <1>6
  <2> QED BY <1>1, <1>3, <2>1, <2>2 DEF OutputInv, OutputTypeOK, CoreInv
<1>8. EndpointShape'
  BY <1>1, <1>4, <1>6 DEF EndpointShape
<1>9. ASSUME NEW k \in Keys PROVE StrokeAccounted(k)'
  <2>0. /\ StrokeAccounted(k) /\ ~Waiting(k) /\ pressed' = pressed
        /\ pressed[k] \in Seq(Stroke) /\ typed[k] \in Seq(Stroke)
    BY <1>1 DEF OutputInv, OutputTypeOK, TypeOK, Waiting
  <2>1. CASE k # j
    <3>1. typed'[k] = typed[k] /\ ~Waiting(k)'
      BY <1>1, <1>3, <2>1 DEF OutputInv, CoreInv, TypeOK, Waiting
    <3> QED BY <1>4, <2>0, <2>1, <3>1 DEF StrokeAccounted
  <2>2. CASE k = j
    <3>1. typed'[k] = Append(typed[k], plan[k][job.cursor + 1])
      BY <1>3, <1>4, <2>2 DEF OutputInv, CoreInv, TypeOK
    <3>2. Len(typed'[k]) = Len(typed[k]) + 1
      BY <1>5, <2>2, <3>1
    <3>3. Len(typed[k]) = Len(pressed[k])
      BY <1>4, <2>0, <2>2 DEF StrokeAccounted
    <3>4. Waiting(k)'
      BY <1>1, <1>6, <2>2, NoStrokeApart DEF Waiting
    <3>5. ep'.report = plan'[k][Len(typed'[k])]
      BY <1>1, <1>4, <1>5, <1>6, <2>2, <3>2
    <3> QED BY <1>4, <2>0, <3>2, <3>3, <3>4, <3>5 DEF StrokeAccounted
  <2> QED BY <2>1, <2>2
<1> QED BY <1>3, <1>7, <1>8, <1>9 DEF OutputInv

\* The host fetches the report in the endpoint.
LEMMA HostPollInv ==
  ASSUME OutputInv, HostPoll
  PROVE  OutputInv'
<1>1. /\ ep.busy = "queued" /\ held' = ep.report /\ ep' = [ep EXCEPT !.busy = "sent"]
      /\ UNCHANGED <<state, job, replay, status, plan, typed, pc, now, clocks, usb>>
      /\ pressed' = IF ep.report = NoStroke THEN pressed
                    ELSE [pressed EXCEPT ![ep.key] = Append(pressed[ep.key], ep.report)]
  BY DEF HostPoll
<1>2. UNCHANGED coreVars /\ UNCHANGED clocks /\ pc' = pc /\ now' = now /\ usb' = usb
  BY <1>1 DEF coreVars
<1>3. CoreInv'
  BY <1>2, CoreInvStep DEF OutputInv
<1>4. /\ ep \in [busy : {"no", "queued", "sent"}, report : Stroke \cup {NoStroke},
                 key : Keys \cup {NoKey}]
      /\ pressed \in [Keys -> Seq(Stroke)]
      /\ ep.report # NoStroke => ep.report \in Stroke /\ ep.key \in Keys
  BY DEF OutputInv, OutputTypeOK, EndpointShape
<1>5. /\ ep'.busy = "sent" /\ ep'.report = ep.report /\ ep'.key = ep.key
      /\ ep' \in [busy : {"no", "queued", "sent"}, report : Stroke \cup {NoStroke},
                  key : Keys \cup {NoKey}]
  BY <1>1, <1>4
<1>6. pressed' \in [Keys -> Seq(Stroke)]
  BY <1>1, <1>4
<1>7. OutputTypeOK'
  BY <1>1, <1>2, <1>3, <1>4, <1>5, <1>6 DEF OutputInv, OutputTypeOK, CoreInv, clocks
<1>8. EndpointShape'
  BY <1>4, <1>5 DEF EndpointShape
<1>9. ASSUME NEW k \in Keys PROVE StrokeAccounted(k)'
  <2>1. StrokeAccounted(k) /\ ~Waiting(k)' /\ plan' = plan /\ typed' = typed
    BY <1>1, <1>5 DEF OutputInv, Waiting
  <2>2. (Active' <=> Active) /\ JobKey' = JobKey
    BY <1>1 DEF Active, JobKey
  <2>3. pressed[k] \in Seq(Stroke) /\ typed[k] \in Seq(Stroke)
    BY <1>4 DEF OutputInv, CoreInv, TypeOK
  <2>4. CASE Waiting(k)
    <3>1. pressed'[k] = Append(pressed[k], ep.report)
      BY <1>1, <1>4, <2>4 DEF Waiting
    <3>2. /\ Len(pressed'[k]) = Len(pressed[k]) + 1
          /\ \A i \in 1..Len(pressed[k]) : pressed'[k][i] = pressed[k][i]
          /\ pressed'[k][Len(pressed[k]) + 1] = ep.report
      BY <1>4, <2>3, <2>4, <3>1 DEF Waiting
    <3>3. Len(typed[k]) = Len(pressed[k]) + 1 /\ ep.report = plan[k][Len(typed[k])]
      BY <2>1, <2>4 DEF StrokeAccounted
    <3>4. \A i \in 1..Len(pressed[k]) : pressed[k][i] = plan[k][i]
      BY <2>1 DEF StrokeAccounted
    <3>5. \A i \in 1..Len(pressed'[k]) : pressed'[k][i] = plan[k][i]
      BY <2>3, <3>2, <3>3, <3>4
    <3> QED BY <2>1, <2>3, <3>2, <3>3, <3>5 DEF StrokeAccounted
  <2>5. CASE ~Waiting(k)
    <3>1. pressed'[k] = pressed[k]
      BY <1>1, <1>4, <2>5 DEF Waiting
    <3> QED BY <2>1, <2>2, <2>5, <3>1 DEF StrokeAccounted
  <2> QED BY <2>4, <2>5
<1> QED BY <1>3, <1>7, <1>8, <1>9 DEF OutputInv

\* A release goes into the free endpoint; no press was waiting there.
LEMMA ReleaseInv ==
  ASSUME OutputInv, Release
  PROVE  OutputInv'
<1>1. /\ ep.busy = "no" /\ ep' = [busy |-> "queued", report |-> NoStroke, key |-> NoKey]
      /\ pc' = "emit" /\ deadline' = 0 /\ UNCHANGED coreVars
      /\ UNCHANGED <<now, usb_now_ms, ble_now_ms, last_drain_ms, exec_since_ms,
                     usb, held, pressed>>
  BY DEF Release, tud_hid_ready, Queue
<1>2. CoreInv'
  BY <1>1, CoreInvStep DEF OutputInv
<1>3. OutputTypeOK'
  BY <1>1, <1>2, ClocksInRange DEF OutputInv, OutputTypeOK, CoreInv
<1>4. EndpointShape'
  BY <1>1 DEF EndpointShape
<1>5. ASSUME NEW k \in Keys PROVE StrokeAccounted(k)'
  <2>1. StrokeAccounted(k) /\ ~Waiting(k) /\ ~Waiting(k)'
    BY <1>1 DEF OutputInv, Waiting
  <2>2. /\ plan' = plan /\ typed' = typed /\ pressed' = pressed
        /\ (Active' <=> Active) /\ JobKey' = JobKey
    BY <1>1 DEF coreVars, Active, JobKey
  <2> QED BY <2>1, <2>2 DEF StrokeAccounted
<1> QED BY <1>2, <1>3, <1>4, <1>5 DEF OutputInv

\* The invariant holds at power-on.
LEMMA OutputInvInit == Init => OutputInv
<1> SUFFICES ASSUME Init PROVE OutputInv
  OBVIOUS
<1>1. CoreInv
  BY CoreInvInit DEF Init
<1>2. /\ ~Active /\ \A k \in Keys : typed[k] = <<>>
      /\ ep = EpFree /\ pressed = [k \in Keys |-> <<>>]
  BY DEF Init, CoreInit, Active
<1>3. 0 \in Clock
  BY ConstantsAssumption DEF Clock
<1>4. OutputTypeOK
  BY <1>1, <1>2, <1>3 DEF Init, OutputTypeOK, CoreInv, EpFree
<1>5. EndpointShape /\ \A k \in Keys : ~Waiting(k)
  BY <1>2 DEF EndpointShape, Waiting, EpFree
<1>6. ASSUME NEW k \in Keys PROVE StrokeAccounted(k)
  BY <1>2, <1>5 DEF StrokeAccounted
<1> QED BY <1>1, <1>4, <1>5, <1>6 DEF OutputInv

\* Every step of the loop, the clock, the host and the clients keeps it.
LEMMA OutputInvStep ==
  ASSUME OutputInv, [Next]_vars
  PROVE  OutputInv'
<1>0. /\ now \in Clock /\ usb_now_ms \in Clock /\ ble_now_ms \in Clock
      /\ last_drain_ms \in Clock /\ exec_since_ms \in Clock /\ deadline \in Clock
      /\ 0 \in Clock
      /\ usb \in {"mounted", "suspended", "detached"} /\ pc \in Places
  BY ClocksInRange
<1>1. CASE LoopTop
  BY <1>0, <1>1, TaskFacts, QuietInv DEF LoopTop, Places
<1>2. CASE StallAbort
  <2>1. CoreNext /\ typed' = typed
    BY <1>2, CallFacts DEF StallAbort
  <2> QED BY <1>0, <1>2, <2>1, QuietInv DEF StallAbort, LeaveDrain, wire, Places
<1>3. CASE StallGuard
  <2>1. UNCHANGED coreVars /\ typed' = typed
    BY <1>3 DEF StallGuard, coreVars
  <2> QED BY <1>0, <1>3, <2>1, QuietInv DEF StallGuard, wire, Places
<1>4. CASE DrainDone
  <2>1. (CoreNext \/ UNCHANGED coreVars) /\ typed' = typed
    <3>1. CASE UNCHANGED coreVars
      BY <3>1 DEF coreVars
    <3>2. CASE bridge_core_next(usb_now_ms) /\ status' # "OK"
      BY <3>2, CallFacts
    <3> QED BY <1>4, <3>1, <3>2 DEF DrainDone
  <2> QED BY <1>0, <1>4, <2>1, QuietInv DEF DrainDone, LeaveDrain, wire, Places
<1>5. CASE AwaitPress
  BY <1>0, <1>5, TaskFacts, QuietInv DEF AwaitPress
<1>6. CASE GiveUpRelease
  <2>1. UNCHANGED coreVars /\ typed' = typed
    BY <1>6 DEF GiveUpRelease, coreVars
  <2> QED BY <1>0, <1>6, <2>1, QuietInv DEF GiveUpRelease, LeaveDrain, wire, Places
<1>7. CASE LoopTick
  <2>1. CoreNext /\ typed' = typed
    BY <1>7, CallFacts DEF LoopTick
  <2> QED BY <1>0, <1>7, <2>1, QuietInv DEF LoopTick, clocks, wire, Places
<1>8. CASE Client
  <2>2. UNCHANGED <<pc, now, clocks, wire>>
    BY <1>8 DEF Client
  <2>3. CASE CoreNext /\ typed' = typed
    BY <1>0, <2>2, <2>3, QuietInv DEF clocks, wire
  <2>4. CASE ShortFrame
    <3>1. CoreInv' /\ KeepsCore
      BY <2>4, KeepsCoreInv DEF OutputInv, ShortFrame, Return, KeepsCore, Statuses
    <3>2. OutputTypeOK'
      BY <2>2, <3>1 DEF OutputInv, OutputTypeOK, CoreInv, clocks, wire
    <3>3. EndpointShape' /\ \A k \in Keys : StrokeAccounted(k)'
      BY <2>2, <3>1
      DEF OutputInv, EndpointShape, StrokeAccounted, Waiting, KeepsCore, wire, Active, JobKey
    <3> QED BY <3>1, <3>2, <3>3 DEF OutputInv
  <2>5. CASE ~ShortFrame
    <3>1. CoreNext /\ typed' = typed
      BY <1>8, <2>5, CallFacts DEF Client
    <3> QED BY <2>3, <3>1
  <2> QED BY <2>4, <2>5
<1>9. CASE PollDone
  <2>1. UNCHANGED coreVars /\ typed' = typed
    BY <1>9 DEF PollDone, coreVars
  <2> QED BY <1>0, <1>9, <2>1, QuietInv DEF PollDone, clocks, wire, Places
<1>10. CASE Time
  <2>1. UNCHANGED coreVars /\ typed' = typed
    BY <1>10 DEF Time, coreVars
  <2>2. now' \in Clock
    BY <1>0, <1>10, PlusType DEF Time
  <2> QED BY <1>0, <1>10, <2>1, <2>2, QuietInv DEF Time, clocks, wire
<1>11. CASE UNCHANGED vars
  <2>1. UNCHANGED coreVars /\ typed' = typed
    BY <1>11 DEF vars, coreVars
  <2> QED BY <1>0, <1>11, <2>1, QuietInv DEF vars
<1> QED
  BY <1>1, <1>2, <1>3, <1>4, <1>5, <1>6, <1>7, <1>8, <1>9, <1>10, <1>11,
     PressInv, ReleaseInv, HostPollInv
  DEF Next, LoopStep

(***************************************************************************)
(* At every moment at most one stroke is between the core and the host,    *)
(* and the types hold, the clock samples and the deadline included.        *)
(***************************************************************************)
THEOREM OutputInvariant == Spec => []OutputInv
<1> QED BY OutputInvInit, OutputInvStep, PTL DEF Spec

\* The variables of the loop, the endpoint and the host keep their types.
THEOREM OutputTypes == Spec => []OutputTypeOK
<1>1. OutputInv => OutputTypeOK
  BY DEF OutputInv
<1> QED BY <1>1, OutputInvariant, PTL

\* The core keeps its own invariant inside the loop.
THEOREM CoreSafeInLoop == Spec => []CoreInv
<1>1. OutputInv => CoreInv
  BY DEF OutputInv
<1> QED BY <1>1, OutputInvariant, PTL

(***************************************************************************)
(* What the host has seen of a job is a beginning of its plan, no press is *)
(* lost between two others, doubled or reordered.                          *)
(***************************************************************************)
THEOREM PressesFollow == Spec => []PressesFollowPlan
<1>1. OutputInv => PressesFollowPlan
  BY DEF OutputInv, PressesFollowPlan, StrokeAccounted
<1> QED BY <1>1, OutputInvariant, PTL

\* A step into COMPLETED finds the last press of the plan at the host.
LEMMA DeliveredLemma ==
  ASSUME OutputInv, Next
  PROVE  DeliveredStep
<1> SUFFICES ASSUME state # "COMPLETED", state' = "COMPLETED"
             PROVE  pressed[JobKey] = plan[JobKey]
  BY DEF DeliveredStep
<1>1. ASSUME UNCHANGED coreVars \/ bridge_core_abort \/ Return("ARGUMENT") PROVE FALSE
  BY <1>1 DEF coreVars, bridge_core_abort, terminate, Return
<1>2. ASSUME NEW c, bridge_core_tick(c) PROVE FALSE
  BY <1>2 DEF bridge_core_tick, terminate, Return
<1>3. ASSUME tud_task PROVE FALSE
  BY <1>1, <1>3 DEF tud_task, tud_suspend_cb, tud_umount_cb
<1>4. ASSUME Client PROVE FALSE
  <2>1. ASSUME NEW r, NEW t, bridge_core_stage(r, t) PROVE FALSE
    BY <2>1 DEF bridge_core_stage, terminate, Return, StageAccepted
  <2>2. ASSUME NEW o, NEW i, NEW t, bridge_core_confirm(o, i, t) PROVE FALSE
    BY <1>2, <2>2 DEF bridge_core_confirm, Return
  <2>3. ASSUME NEW o, NEW i, bridge_core_cancel(o, i) PROVE FALSE
    BY <2>3 DEF bridge_core_cancel, terminate, Return
  <2> QED
    BY <1>1, <1>2, <1>4, <2>1, <2>2, <2>3
    DEF Client, ble_handle_stage, ble_handle_confirm, ble_handle_cancel, ble_handle_tick,
        ShortFrame
<1>5. tud_hid_ready /\ bridge_core_next(usb_now_ms)
  <2>1. DrainDone \/ Press
    BY <1>1, <1>2, <1>3, <1>4
    DEF Next, LoopStep, LoopTop, StallAbort, StallGuard, AwaitPress, Release,
        GiveUpRelease, LoopTick, PollDone, Time, HostPoll, coreVars
  <2> QED BY <1>1, <2>1 DEF DrainDone, Press, DrainMayRun
<1>6. Executing /\ Exhausted
  BY <1>2, <1>5 DEF bridge_core_next, Return, HandOut
<1>7. Active /\ JobKey \in Keys
  BY <1>6, OpenJob DEF OutputInv, Executing, Active
<1>8. typed[JobKey] = plan[JobKey]
  BY <1>6, ExhaustedIsWhole DEF OutputInv
<1>9. ~Waiting(JobKey)
  BY <1>5 DEF tud_hid_ready, Waiting
<1>10. /\ Len(typed[JobKey]) = Len(pressed[JobKey])
       /\ \A i \in 1..Len(pressed[JobKey]) : pressed[JobKey][i] = plan[JobKey][i]
  BY <1>7, <1>9 DEF OutputInv, StrokeAccounted
<1>11. pressed[JobKey] \in Seq(Stroke) /\ plan[JobKey] \in Seq(Stroke)
  BY <1>7 DEF OutputInv, OutputTypeOK, TypeOK
<1> QED BY <1>8, <1>10, <1>11

\* COMPLETED is reported only after the host fetched the last press.
THEOREM DeliveredHolds == Spec => CompletedIsDelivered
<1>1. OutputInv /\ [Next]_vars => [DeliveredStep]_vars
  BY DeliveredLemma
<1> QED BY <1>1, OutputInvariant, PTL DEF Spec, CompletedIsDelivered

-----------------------------------------------------------------------------
\* A step of the loop, the host, the clock or a client calls the core once or
\* leaves it alone.
LEMMA StepIsCall ==
  ASSUME OutputInv, [Next]_vars
  PROVE  CoreNext \/ KeepsCore
<1>1. ASSUME UNCHANGED coreVars PROVE KeepsCore
  BY <1>1 DEF coreVars, KeepsCore
<1>2. CASE LoopTop \/ AwaitPress
  BY <1>1, <1>2, TaskFacts DEF LoopTop, AwaitPress
<1>3. CASE StallAbort \/ LoopTick
  BY <1>3, CallFacts DEF StallAbort, LoopTick
<1>4. CASE DrainDone \/ Press
  <2>1. usb_now_ms \in Clock
    BY ClocksInRange
  <2>2. UNCHANGED coreVars \/ bridge_core_next(usb_now_ms)
    BY <1>4 DEF DrainDone, Press
  <2> QED BY <1>1, <2>1, <2>2 DEF CoreNext
<1>5. CASE Client
  <2>1. CASE ShortFrame
    BY <2>1 DEF ShortFrame, Return, KeepsCore
  <2> QED BY <1>5, <2>1, CallFacts DEF Client
<1>6. CASE StallGuard \/ Release \/ GiveUpRelease \/ PollDone \/ Time \/ HostPoll
  BY <1>6 DEF StallGuard, Release, GiveUpRelease, PollDone, Time, HostPoll, coreVars, KeepsCore
<1>7. CASE UNCHANGED vars
  BY <1>7 DEF vars, KeepsCore
<1> QED
  BY <1>2, <1>3, <1>4, <1>5, <1>6, <1>7 DEF Next, LoopStep

(***************************************************************************)
(* The firmware's loop, with callbacks that abort a job in the middle of   *)
(* its drain, keeps the promise of BridgeJob: a text is typed at most      *)
(* once, in order, after its confirmation, and completed only as a whole.  *)
(***************************************************************************)
THEOREM PromiseInLoop == Spec => ImplementsBridgeJob /\ AtMostOnce /\ CompletedIsWhole
<1>1. Init => Abstract!Init
  BY PromiseInit DEF Init
<1>2. OutputInv /\ [Next]_vars => /\ [Abstract!Next]_(Abstract!jobVars)
                                  /\ [AtMostOnceStep]_coreVars
                                  /\ [CompletedStep]_coreVars
  BY StepIsCall, PromiseKept DEF OutputInv
<1> QED
  BY <1>1, <1>2, OutputInvariant, PTL
  DEF Spec, ImplementsBridgeJob, Abstract!Spec, AtMostOnce, CompletedIsWhole

-----------------------------------------------------------------------------
(***************************************************************************)
(* The two clock samples.  They are apart only by the time that the drain  *)
(* has waited for a press, which is bounded as long as its samples cannot  *)
(* step over the deadline.                                                 *)
(***************************************************************************)

\* What the code has: samples at most a millisecond apart while the drain
\* waits, and periods far below the range of the clock.
ShortLag ==
  /\ DrainLag <= 1
  /\ ReleaseWait + 2 * MaxLag < ClockMod
  /\ MaxTTL + 2 * MaxLag <= ClockMod

\* The staged job was young at the last tick, or staged since with a sample
\* that was as old as the wait; slack is the time since.
YoungAt(slack) ==
  LET age == Elapsed(usb_now_ms, job.staged_at_ms)
  IN age < job.ttl_ms + slack \/ age <= ReleaseWait + slack

SamplesClose ==
  /\ Elapsed(now, usb_now_ms) <= Lag
  /\ Elapsed(usb_now_ms, ble_now_ms) <= ReleaseWait

\* Where in the drain the samples differ.
DrainSamples ==
  /\ pc = "drain" => usb_now_ms = ble_now_ms
  /\ pc = "emit" => usb_now_ms = ble_now_ms \/ ep.busy # "no"
  /\ pc = "wait" =>
       /\ state # "STAGED"
       /\ deadline = Plus(ble_now_ms, ReleaseWait)
       /\ \/ usb_now_ms = ble_now_ms
          \/ ble_now_ms < usb_now_ms /\ usb_now_ms <= deadline

StagedSamples ==
  state = "STAGED" =>
    /\ usb_now_ms = ble_now_ms \/ job.staged_at_ms = ble_now_ms
    /\ job.ttl_ms <= MaxTTL
    /\ pc \in {"top", "poll"} => YoungAt(0)
    /\ YoungAt(MaxLag)

LagInv == SamplesClose /\ DrainSamples /\ StagedSamples

\* Differences add up as long as they do not wrap.
LEMMA ElapsedAdds ==
  ASSUME NEW a \in Clock, NEW b \in Clock, NEW c \in Clock,
         Elapsed(a, b) + Elapsed(b, c) < ClockMod
  PROVE  Elapsed(a, c) = Elapsed(a, b) + Elapsed(b, c)
BY ConstantsAssumption DEF Elapsed, Clock

\* A difference is a number, and none to itself.
LEMMA ElapsedType ==
  ASSUME NEW a \in Clock, NEW b \in Clock
  PROVE  Elapsed(a, b) \in Nat /\ Elapsed(a, a) = 0
BY ConstantsAssumption DEF Elapsed, Clock

\* The constants, as numbers.
LEMMA LagConstants ==
  /\ MaxLag \in Nat /\ ReleaseWait \in Nat /\ MaxTTL \in Nat
  /\ ClockMod \in Nat /\ MaxLag < ClockMod
  /\ DrainLag \in Nat /\ DrainLag <= MaxLag
  /\ Lag \in Nat /\ Lag <= MaxLag
BY ConstantsAssumption, OutputAssumption DEF Lag

\* Calls other than a client's leave no job staged that was not.
LEMMA NotStagedByLoop ==
  ASSUME \/ tud_task \/ bridge_core_abort \/ UNCHANGED coreVars
         \/ \E t : bridge_core_tick(t) \/ bridge_core_next(t)
  PROVE  state' = "STAGED" => state = "STAGED" /\ job' = job
<1>1. ASSUME NEW x, x # "STAGED", terminate(x)
      PROVE  state' # "STAGED"
  BY <1>1 DEF terminate
<1>2. CASE bridge_core_abort
  BY <1>1, <1>2 DEF bridge_core_abort
<1>3. CASE UNCHANGED coreVars
  BY <1>3 DEF coreVars
<1>4. ASSUME NEW t, bridge_core_tick(t)
      PROVE  state' = "STAGED" => state = "STAGED" /\ job' = job
  BY <1>1, <1>4 DEF bridge_core_tick, Return
<1>5. ASSUME NEW t, bridge_core_next(t)
      PROVE  state' = "STAGED" => state = "STAGED" /\ job' = job
  BY <1>1, <1>4, <1>5 DEF bridge_core_next, Return, HandOut, Executing
<1>6. CASE tud_task
  BY <1>2, <1>3, <1>6 DEF tud_task, tud_suspend_cb, tud_umount_cb
<1> QED BY <1>2, <1>3, <1>4, <1>5, <1>6

\* A job that a client stages has the present sample and the loop's TTL.
LEMMA StagedByClient ==
  ASSUME Client, state' = "STAGED"
  PROVE  \/ state = "STAGED" /\ job' = job
         \/ job'.staged_at_ms = ble_now_ms /\ job'.ttl_ms = MaxTTL
<1>1. ASSUME NEW x, x # "STAGED", terminate(x)
      PROVE  FALSE
  BY <1>1 DEF terminate
<1>2. ASSUME NEW t, bridge_core_tick(t)
      PROVE  state = "STAGED" /\ job' = job
  BY <1>1, <1>2 DEF bridge_core_tick, Return
<1>3. ASSUME NEW r \in Requests, ble_handle_stage(r, StageTime)
      PROVE  \/ state = "STAGED" /\ job' = job
             \/ job'.staged_at_ms = ble_now_ms /\ job'.ttl_ms = MaxTTL
  <2>1. Decoded(r).ttl = MaxTTL
    BY ConstantsAssumption DEF Decoded, Request
  <2>2. CASE Return("BUSY")
    BY <2>2 DEF Return
  <2>3. CASE StageAccepted(Decoded(r), StageTime)
    BY <2>1, <2>3 DEF StageAccepted, StageTime
  <2> QED BY <1>1, <1>3, <2>2, <2>3 DEF ble_handle_stage, bridge_core_stage
<1>4. ASSUME NEW k, ble_handle_confirm(k, ble_now_ms)
      PROVE  state = "STAGED" /\ job' = job
  BY <1>2, <1>4 DEF ble_handle_confirm, bridge_core_confirm, Return
<1>5. ASSUME NEW k, ble_handle_cancel(k)
      PROVE  state = "STAGED" /\ job' = job
  BY <1>1, <1>5 DEF ble_handle_cancel, bridge_core_cancel, Return
<1>6. CASE ShortFrame
  BY <1>6 DEF ShortFrame, Return
<1> QED BY <1>2, <1>3, <1>4, <1>5, <1>6 DEF Client, ble_handle_tick

\* The ages that the invariant bounds.
LEMMA AgesType ==
  ASSUME OutputInv
  PROVE  /\ now \in Clock /\ usb_now_ms \in Clock /\ ble_now_ms \in Clock
         /\ deadline \in Clock /\ job.staged_at_ms \in Clock /\ job.ttl_ms \in Nat
<1>1. job \in Job
  BY DEF OutputInv, OutputTypeOK, TypeOK
<1> QED BY <1>1, ClocksInRange DEF Job

\* A loop step between two samples: nothing but the place and the core moves.
LEMMA LagSame ==
  ASSUME OutputInv, LagInv, UNCHANGED <<now, usb_now_ms, ble_now_ms>>,
         state' = "STAGED" => state = "STAGED" /\ job' = job,
         pc' \in {"top", "poll"} => pc \in {"top", "poll"} \/ state' # "STAGED",
         pc' = "drain" => pc = "drain" /\ ep' = ep,
         pc' \in {"drain", "emit", "wait"} => pc \in {"drain", "emit", "wait"},
         pc' = "emit" => usb_now_ms = ble_now_ms \/ ep'.busy # "no",
         pc' = "wait" => /\ state' # "STAGED" /\ deadline' = Plus(ble_now_ms, ReleaseWait)
                         /\ \/ usb_now_ms = ble_now_ms
                            \/ ble_now_ms < usb_now_ms /\ usb_now_ms <= deadline'
  PROVE  LagInv'
<1>1. SamplesClose'
  <2>1. Lag <= Lag' /\ Lag' \in Nat /\ Lag \in Nat
    BY OutputAssumption DEF Lag
  <2>2. Elapsed(now', usb_now_ms') = Elapsed(now, usb_now_ms) /\ Elapsed(now, usb_now_ms) <= Lag
    BY DEF LagInv, SamplesClose, Elapsed
  <2>3. Elapsed(now, usb_now_ms) \in Nat
    BY AgesType, ElapsedType
  <2>4. Elapsed(now', usb_now_ms') <= Lag'
    BY <2>1, <2>2, <2>3
  <2> QED BY <2>4 DEF LagInv, SamplesClose, Elapsed
<1>2. DrainSamples'
  BY DEF LagInv, DrainSamples
<1>3. StagedSamples'
  <2> SUFFICES ASSUME state' = "STAGED"
               PROVE  /\ usb_now_ms' = ble_now_ms' \/ job'.staged_at_ms = ble_now_ms'
                      /\ job'.ttl_ms <= MaxTTL
                      /\ pc' \in {"top", "poll"} => YoungAt(0)'
                      /\ YoungAt(MaxLag)'
    BY DEF StagedSamples
  <2>1. state = "STAGED" /\ job' = job
    OBVIOUS
  <2>2. YoungAt(0)' <=> YoungAt(0)
    BY <2>1 DEF YoungAt, Elapsed
  <2>3. YoungAt(MaxLag)' <=> YoungAt(MaxLag)
    BY <2>1 DEF YoungAt, Elapsed
  <2> QED BY <2>1, <2>2, <2>3 DEF LagInv, StagedSamples
<1> QED BY <1>1, <1>2, <1>3 DEF LagInv

\* The age of a staged job on the hardware clock is that at the last sample
\* and the time since.
LEMMA AgeNow ==
  ASSUME OutputInv, ShortLag, LagInv, state = "STAGED"
  PROVE  Elapsed(now, job.staged_at_ms) =
           Elapsed(now, usb_now_ms) + Elapsed(usb_now_ms, job.staged_at_ms)
<1>1. /\ Elapsed(now, usb_now_ms) \in Nat /\ Elapsed(now, usb_now_ms) <= Lag
      /\ Elapsed(usb_now_ms, job.staged_at_ms) \in Nat
  BY AgesType, ElapsedType DEF LagInv, SamplesClose
<1>2. /\ job.ttl_ms \in Nat /\ job.ttl_ms <= MaxTTL
      /\ \/ Elapsed(usb_now_ms, job.staged_at_ms) < job.ttl_ms + MaxLag
         \/ Elapsed(usb_now_ms, job.staged_at_ms) <= ReleaseWait + MaxLag
  BY AgesType DEF LagInv, StagedSamples, YoungAt
<1>3. Elapsed(now, usb_now_ms) + Elapsed(usb_now_ms, job.staged_at_ms) < ClockMod
  BY <1>1, <1>2, LagConstants DEF ShortLag
<1> QED BY <1>3, AgesType, ElapsedAdds

\* The top of the loop takes both samples afresh.
LEMMA LagTop ==
  ASSUME OutputInv, ShortLag, LagInv, LoopTop
  PROVE  LagInv'
<1>1. /\ pc = "top" /\ tud_task /\ usb_now_ms' = now /\ ble_now_ms' = now /\ now' = now
      /\ pc' \in {"drain", "tick"}
  BY DEF LoopTop
<1>2. Elapsed(now, now) = 0
  BY AgesType, ElapsedType
<1>3. SamplesClose'
  BY <1>1, <1>2, OutputAssumption DEF SamplesClose, Elapsed, Lag
<1>4. DrainSamples'
  BY <1>1 DEF DrainSamples
<1>5. ASSUME state' = "STAGED"
      PROVE  job'.ttl_ms <= MaxTTL /\ YoungAt(MaxLag)'
  <2>1. state = "STAGED" /\ job' = job
    BY <1>1, <1>5, NotStagedByLoop
  <2>2. /\ job.ttl_ms <= MaxTTL
        /\ \/ Elapsed(usb_now_ms, job.staged_at_ms) < job.ttl_ms + 0
           \/ Elapsed(usb_now_ms, job.staged_at_ms) <= ReleaseWait + 0
    BY <1>1, <2>1 DEF LagInv, StagedSamples, YoungAt
  <2>3. /\ Elapsed(now, usb_now_ms) \in Nat /\ Elapsed(now, usb_now_ms) <= Lag
        /\ Elapsed(usb_now_ms, job.staged_at_ms) \in Nat /\ job.ttl_ms \in Nat
    BY AgesType, ElapsedType DEF LagInv, SamplesClose
  <2>4. Elapsed(now, job.staged_at_ms) =
          Elapsed(now, usb_now_ms) + Elapsed(usb_now_ms, job.staged_at_ms)
    BY <2>1, AgeNow
  <2>5. \/ Elapsed(now, job.staged_at_ms) < job.ttl_ms + MaxLag
        \/ Elapsed(now, job.staged_at_ms) <= ReleaseWait + MaxLag
    BY <2>2, <2>3, <2>4, LagConstants
  <2>6. Elapsed(usb_now_ms', job'.staged_at_ms) = Elapsed(now, job.staged_at_ms)
    BY <1>1, <2>1 DEF Elapsed
  <2> QED BY <2>1, <2>2, <2>5, <2>6 DEF YoungAt
<1>6. StagedSamples'
  BY <1>1, <1>5 DEF StagedSamples
<1> QED BY <1>3, <1>4, <1>6 DEF LagInv

\* Waiting takes samples that do not pass the deadline.
LEMMA LagAwait ==
  ASSUME OutputInv, ShortLag, LagInv, AwaitPress
  PROVE  LagInv'
<1>1. /\ pc = "wait" /\ pc' = "wait" /\ usb_now_ms < deadline /\ usb_now_ms' = now
      /\ now' = now /\ ble_now_ms' = ble_now_ms /\ deadline' = deadline /\ tud_task
  BY DEF AwaitPress
<1>2. state' # "STAGED"
  BY <1>1, NotStagedByLoop DEF LagInv, DrainSamples
<1>3. /\ now \in 0..(ClockMod - 1) /\ usb_now_ms \in 0..(ClockMod - 1)
      /\ ble_now_ms \in 0..(ClockMod - 1) /\ deadline \in 0..(ClockMod - 1)
  BY AgesType DEF Clock
<1>4. deadline = Plus(ble_now_ms, ReleaseWait) /\ ble_now_ms <= usb_now_ms
  BY <1>1, <1>3 DEF LagInv, DrainSamples
<1>5. usb_now_ms <= now /\ now <= deadline
  <2>1. Elapsed(now, usb_now_ms) <= DrainLag /\ DrainLag <= 1
    BY <1>1 DEF LagInv, SamplesClose, ShortLag, Lag
  <2> QED BY <1>1, <1>3, <2>1, LagConstants DEF Elapsed
<1>6. deadline <= ble_now_ms + ReleaseWait
  <2>1. (ble_now_ms + ReleaseWait) % ClockMod <= ble_now_ms + ReleaseWait
    BY <1>3, LagConstants
  <2> QED BY <1>4, <2>1 DEF Plus
<1>7. Elapsed(now, ble_now_ms) <= ReleaseWait /\ Elapsed(now, now) = 0
  BY <1>3, <1>4, <1>5, <1>6, LagConstants DEF Elapsed
<1>8. SamplesClose'
  BY <1>1, <1>7, OutputAssumption DEF SamplesClose, Elapsed, Lag
<1>9. now = ble_now_ms \/ ble_now_ms < now
  BY <1>3, <1>4, <1>5
<1>10. DrainSamples'
  BY <1>1, <1>2, <1>4, <1>5, <1>9 DEF DrainSamples, Plus
<1>11. StagedSamples'
  BY <1>2 DEF StagedSamples
<1> QED BY <1>8, <1>10, <1>11 DEF LagInv

\* The tick leaves a job staged only if it is young.
LEMMA LagTick ==
  ASSUME OutputInv, LagInv, LoopTick
  PROVE  LagInv'
<1>1. /\ pc = "tick" /\ pc' = "poll" /\ bridge_core_tick(usb_now_ms)
      /\ UNCHANGED <<now, usb_now_ms, ble_now_ms>>
  BY DEF LoopTick, clocks
<1>2. SamplesClose' /\ DrainSamples'
  BY <1>1 DEF LagInv, SamplesClose, DrainSamples, Elapsed, Lag
<1>3. ASSUME state' = "STAGED"
      PROVE  /\ state = "STAGED" /\ job' = job
             /\ Elapsed(usb_now_ms, job.staged_at_ms) < job.ttl_ms
  <2>1. state = "STAGED" /\ job' = job
    BY <1>1, <1>3, NotStagedByLoop
  <2>2. ~Expired(usb_now_ms)
    BY <1>1, <1>3 DEF bridge_core_tick, terminate
  <2>3. Elapsed(usb_now_ms, job.staged_at_ms) \in Nat /\ job.ttl_ms \in Nat
    BY AgesType, ElapsedType
  <2> QED BY <2>1, <2>2, <2>3 DEF Expired
<1>4. StagedSamples'
  <2> SUFFICES ASSUME state' = "STAGED"
               PROVE  /\ usb_now_ms' = ble_now_ms' \/ job'.staged_at_ms = ble_now_ms'
                      /\ job'.ttl_ms <= MaxTTL
                      /\ YoungAt(0)' /\ YoungAt(MaxLag)'
    BY DEF StagedSamples
  <2>1. Elapsed(usb_now_ms', job'.staged_at_ms) = Elapsed(usb_now_ms, job.staged_at_ms)
    BY <1>1, <1>3 DEF Elapsed
  <2>2. /\ Elapsed(usb_now_ms, job.staged_at_ms) \in Nat /\ job.ttl_ms \in Nat
        /\ Elapsed(usb_now_ms, job.staged_at_ms) < job.ttl_ms /\ job' = job
    BY <1>3, AgesType, ElapsedType
  <2>3. YoungAt(0)' /\ YoungAt(MaxLag)'
    BY <2>1, <2>2, LagConstants DEF YoungAt
  <2> QED BY <1>1, <1>3, <2>3 DEF LagInv, StagedSamples
<1> QED BY <1>2, <1>4 DEF LagInv

\* A client stages with the sample of the top of the loop.
LEMMA LagClient ==
  ASSUME OutputInv, LagInv, Client
  PROVE  LagInv'
<1>1. pc = "poll" /\ pc' = "poll" /\ UNCHANGED <<now, usb_now_ms, ble_now_ms>> /\ ep' = ep
  BY DEF Client, clocks, wire
<1>2. CASE state' = "STAGED" => state = "STAGED" /\ job' = job
  BY <1>1, <1>2, LagSame
<1>3. CASE state' = "STAGED" /\ job'.staged_at_ms = ble_now_ms /\ job'.ttl_ms = MaxTTL
  <2>1. SamplesClose' /\ DrainSamples'
    BY <1>1 DEF LagInv, SamplesClose, DrainSamples, Elapsed, Lag
  <2>2. Elapsed(usb_now_ms', job'.staged_at_ms) = Elapsed(usb_now_ms, ble_now_ms)
    BY <1>1, <1>3 DEF Elapsed
  <2>3. /\ Elapsed(usb_now_ms, ble_now_ms) \in Nat
        /\ Elapsed(usb_now_ms, ble_now_ms) <= ReleaseWait
    BY AgesType, ElapsedType DEF LagInv, SamplesClose
  <2>4. YoungAt(0)' /\ YoungAt(MaxLag)'
    BY <2>2, <2>3, LagConstants DEF YoungAt
  <2>5. StagedSamples'
    BY <1>1, <1>3, <2>4, LagConstants DEF StagedSamples
  <2> QED BY <2>1, <2>5 DEF LagInv
<1> QED BY <1>2, <1>3, StagedByClient

\* Time goes on as far as the next sample.
LEMMA LagTime ==
  ASSUME OutputInv, LagInv, Time
  PROVE  LagInv'
<1>1. /\ Elapsed(now, usb_now_ms) < Lag /\ now' = Plus(now, 1)
      /\ UNCHANGED <<state, job, pc, usb_now_ms, ble_now_ms, deadline, ep>>
  BY DEF Time, clocks, wire
<1>2. now \in 0..(ClockMod - 1) /\ usb_now_ms \in 0..(ClockMod - 1)
  BY AgesType DEF Clock
<1>3. now' = IF now = ClockMod - 1 THEN 0 ELSE now + 1
  BY <1>1, <1>2, LagConstants DEF Plus
<1>4. Elapsed(now', usb_now_ms) <= Lag
  BY <1>1, <1>2, <1>3, LagConstants DEF Elapsed
<1>5. SamplesClose'
  BY <1>1, <1>4 DEF LagInv, SamplesClose, Elapsed, Lag
<1>6. DrainSamples'
  BY <1>1 DEF LagInv, DrainSamples, Plus
<1>7. StagedSamples'
  BY <1>1 DEF LagInv, StagedSamples, YoungAt, Elapsed
<1> QED BY <1>5, <1>6, <1>7 DEF LagInv

\* A press starts the wait with equal samples.
LEMMA LagPress ==
  ASSUME OutputInv, LagInv, Press
  PROVE  LagInv'
<1>1. /\ pc = "emit" /\ ep.busy = "no" /\ bridge_core_next(usb_now_ms) /\ status' = "OK"
      /\ pc' = "wait" /\ deadline' = Plus(usb_now_ms, ReleaseWait)
      /\ UNCHANGED <<now, usb_now_ms, ble_now_ms>>
  BY DEF Press, DrainMayRun, tud_hid_ready
<1>2. usb_now_ms = ble_now_ms
  BY <1>1 DEF LagInv, DrainSamples
<1>3. state' # "STAGED"
  BY <1>1 DEF bridge_core_next, bridge_core_tick, terminate, Return, HandOut, Executing
<1> QED BY <1>1, <1>2, <1>3, LagSame

\* One case per action.
LEMMA LagInvStep ==
  ASSUME OutputInv, ShortLag, LagInv, [Next]_vars
  PROVE  LagInv'
<1>1. CASE LoopTop
  BY <1>1, LagTop
<1>2. CASE StallAbort
  <2>1. /\ pc' = "tick" /\ bridge_core_abort /\ UNCHANGED <<now, usb_now_ms, ble_now_ms>>
    BY <1>2 DEF StallAbort, LeaveDrain
  <2> QED BY <2>1, NotStagedByLoop, LagSame
<1>3. CASE StallGuard
  <2>1. /\ pc = "drain" /\ pc' = "emit" /\ UNCHANGED coreVars
        /\ UNCHANGED <<now, usb_now_ms, ble_now_ms>>
    BY <1>3 DEF StallGuard
  <2>2. usb_now_ms = ble_now_ms
    BY <2>1 DEF LagInv, DrainSamples
  <2> QED BY <2>1, <2>2, NotStagedByLoop, LagSame
<1>4. CASE DrainDone
  <2>1. /\ pc' = "tick" /\ (UNCHANGED coreVars \/ bridge_core_next(usb_now_ms))
        /\ UNCHANGED <<now, usb_now_ms, ble_now_ms>>
    BY <1>4 DEF DrainDone, LeaveDrain
  <2> QED BY <2>1, NotStagedByLoop, LagSame
<1>5. CASE Press
  BY <1>5, LagPress
<1>6. CASE AwaitPress
  BY <1>6, LagAwait
<1>7. CASE Release
  <2>1. /\ pc = "wait" /\ pc' = "emit" /\ UNCHANGED coreVars /\ ep'.busy = "queued"
        /\ UNCHANGED <<now, usb_now_ms, ble_now_ms>>
    BY <1>7 DEF Release, Queue
  <2> QED BY <2>1, NotStagedByLoop, LagSame
<1>8. CASE GiveUpRelease
  <2>1. /\ pc' = "tick" /\ UNCHANGED coreVars /\ UNCHANGED <<now, usb_now_ms, ble_now_ms>>
    BY <1>8 DEF GiveUpRelease, LeaveDrain
  <2> QED BY <2>1, NotStagedByLoop, LagSame
<1>9. CASE LoopTick
  BY <1>9, LagTick
<1>10. CASE PollDone
  <2>1. /\ pc = "poll" /\ pc' = "top" /\ UNCHANGED coreVars
        /\ UNCHANGED <<now, usb_now_ms, ble_now_ms>>
    BY <1>10 DEF PollDone, clocks
  <2> QED BY <2>1, NotStagedByLoop, LagSame
<1>11. CASE Time
  BY <1>11, LagTime
<1>12. CASE HostPoll
  <2>1. /\ UNCHANGED <<state, job, pc, now, usb_now_ms, ble_now_ms, deadline>>
        /\ ep'.busy = "sent"
    BY <1>12 DEF HostPoll, clocks, OutputInv, OutputTypeOK
  <2>2. SamplesClose'
    BY <2>1 DEF LagInv, SamplesClose, Elapsed, Lag
  <2>3. DrainSamples'
    BY <2>1 DEF LagInv, DrainSamples, Plus
  <2>4. StagedSamples'
    BY <2>1 DEF LagInv, StagedSamples, YoungAt, Elapsed
  <2> QED BY <2>2, <2>3, <2>4 DEF LagInv
<1>13. CASE Client
  BY <1>13, LagClient
<1>14. CASE UNCHANGED vars
  <2>1. UNCHANGED <<state, job, pc, now, usb_now_ms, ble_now_ms, deadline, ep>>
    BY <1>14 DEF vars
  <2>2. SamplesClose'
    BY <2>1 DEF LagInv, SamplesClose, Elapsed, Lag
  <2>3. DrainSamples'
    BY <2>1 DEF LagInv, DrainSamples, Plus
  <2>4. StagedSamples'
    BY <2>1 DEF LagInv, StagedSamples, YoungAt, Elapsed
  <2> QED BY <2>2, <2>3, <2>4 DEF LagInv
<1> QED BY <1>1, <1>2, <1>3, <1>4, <1>5, <1>6, <1>7, <1>8, <1>9, <1>10, <1>11, <1>12,
           <1>13, <1>14 DEF Next, LoopStep

\* A step into EXPIRED that is not the doing of a client's TICK.
LEMMA SpuriousLemma ==
  ASSUME OutputInv, ShortLag, LagInv, Next
  PROVE  SpuriousStep
<1> SUFFICES ASSUME state = "STAGED", state' = "EXPIRED", pc = "poll" => Expired(ble_now_ms)
             PROVE  Elapsed(now, job.staged_at_ms) >= job.ttl_ms
  BY DEF SpuriousStep
<1>1. /\ Elapsed(now, usb_now_ms) \in Nat /\ Elapsed(usb_now_ms, job.staged_at_ms) \in Nat
      /\ Elapsed(now, job.staged_at_ms) \in Nat /\ job.ttl_ms \in Nat
  BY AgesType, ElapsedType
<1>2. ASSUME Expired(usb_now_ms)
      PROVE  Elapsed(now, job.staged_at_ms) >= job.ttl_ms
  BY <1>1, <1>2, AgeNow DEF Expired
<1>3. ASSUME Expired(ble_now_ms)
      PROVE  Elapsed(now, job.staged_at_ms) >= job.ttl_ms
  <2>1. CASE usb_now_ms = ble_now_ms
    BY <1>2, <1>3, <2>1
  <2>2. CASE job.staged_at_ms = ble_now_ms
    <3>1. Elapsed(ble_now_ms, ble_now_ms) = 0
      BY AgesType, ElapsedType
    <3> QED BY <1>1, <1>3, <2>2, <3>1 DEF Expired
  <2> QED BY <2>1, <2>2 DEF LagInv, StagedSamples
<1>4. CASE pc = "poll"
  BY <1>3, <1>4
<1>5. ASSUME NEW t, bridge_core_tick(t)
      PROVE  Expired(t)
  BY <1>5 DEF bridge_core_tick, Return
<1>6. ASSUME NEW t, bridge_core_next(t)
      PROVE  Expired(t)
  BY <1>6 DEF bridge_core_next, Return, terminate, HandOut
<1>7. ASSUME bridge_core_abort
      PROVE  FALSE
  BY <1>7 DEF bridge_core_abort, terminate
<1>8. ASSUME state' = state
      PROVE  FALSE
  BY <1>8
<1>9. CASE LoopTop \/ AwaitPress
  BY <1>7, <1>8, <1>9 DEF LoopTop, AwaitPress, tud_task, tud_suspend_cb, tud_umount_cb, coreVars
<1>10. CASE StallAbort \/ StallGuard
  BY <1>7, <1>8, <1>10 DEF StallAbort, StallGuard, coreVars
<1>11. CASE DrainDone \/ Press
  BY <1>2, <1>6, <1>8, <1>11 DEF DrainDone, Press, coreVars
<1>12. CASE Release \/ GiveUpRelease \/ PollDone \/ Time \/ HostPoll
  BY <1>8, <1>12 DEF Release, GiveUpRelease, PollDone, Time, HostPoll, coreVars
<1>13. CASE LoopTick
  BY <1>2, <1>5, <1>13 DEF LoopTick
<1>14. CASE Client
  BY <1>4, <1>14 DEF Client
<1> QED BY <1>9, <1>10, <1>11, <1>12, <1>13, <1>14 DEF Next, LoopStep

(***************************************************************************)
(* If the drain's samples are at most a millisecond apart, the loop, the   *)
(* drain and a confirmation never expire a job before its TTL has passed   *)
(* on the hardware clock, for every TTL, wait, clock range and length of a *)
(* poll (usb_now_ms runs ahead of ble_now_ms in usb_hid_drain).            *)
(***************************************************************************)
THEOREM NoSpuriousExpiryHolds ==
  ASSUME ShortLag
  PROVE  Spec => NoSpuriousExpiry
<1>1. Init => LagInv
  <2> SUFFICES ASSUME Init
               PROVE  LagInv
    OBVIOUS
  <2>1. /\ now = 0 /\ usb_now_ms = 0 /\ ble_now_ms = 0 /\ pc = "top" /\ state = "EMPTY"
    BY DEF Init, CoreInit
  <2>2. Elapsed(0, 0) = 0
    BY LagConstants DEF Elapsed
  <2> QED BY <2>1, <2>2, LagConstants DEF LagInv, SamplesClose, DrainSamples, StagedSamples
<1>2. OutputInv /\ LagInv /\ [Next]_vars => LagInv'
  BY LagInvStep
<1>3. OutputInv /\ LagInv /\ [Next]_vars => [SpuriousStep]_vars
  BY SpuriousLemma
<1> QED BY <1>1, <1>2, <1>3, OutputInvariant, PTL DEF Spec, NoSpuriousExpiry
=============================================================================
