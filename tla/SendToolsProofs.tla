-------------------------- MODULE SendToolsProofs --------------------------
(***************************************************************************)
(* The loop with its clock, and the send tools on top of it.               *)
(*                                                                         *)
(* First part, BridgeClock: the expiry of a staged job is exact for every  *)
(* clock range, TTL limit and time between ticks with MaxTTL + TickGap <   *)
(* ClockMod.  The inductive invariant says that the wrapped difference the *)
(* core computes equals the real age of the job (Unwrapped).  It needs the *)
(* age to stay below ClockMod, which follows from a bound that grows with  *)
(* the time since the loop's last tick: age < ttl + sincePoll.             *)
(*                                                                         *)
(* Second part, SendTools: what a client program may rely on, for every    *)
(* number of runs, texts and clock range: nothing of it is typed that it   *)
(* did not go on to confirm, and its Enter never comes before or inside    *)
(* its text.  A run sends one or two lines, each staged by command c and   *)
(* confirmed by command c + 1 of its script.  The inductive invariant ties *)
(* the state of the core under the key of a line to the place of the run   *)
(* in its script, receipts under way included.                             *)
(***************************************************************************)
EXTENDS SendTools, BridgeCoreProofs

\* What links a staged job to the clock.
Unwrapped ==
  state = "STAGED" =>
    /\ job.ttl_ms \in 1..MaxTTL
    /\ Elapsed(now, job.staged_at_ms) = age
    /\ age < job.ttl_ms + sincePoll

\* The inductive invariant.
ClockInv ==
  /\ CoreInv
  /\ now \in Clock
  /\ sincePoll \in 0..TickGap
  /\ age \in Nat
  /\ Unwrapped

\* No call except an accepted stage puts a job into STAGED or changes it there.
LEMMA StagedOnlyByStage ==
  ASSUME CoreInv, NEW o, NEW i, NEW t \in Clock,
         \/ bridge_core_confirm(o, i, t)
         \/ bridge_core_cancel(o, i)
         \/ bridge_core_tick(t)
         \/ bridge_core_next(t)
         \/ bridge_core_abort,
         state' = "STAGED"
  PROVE  state = "STAGED" /\ job' = job
  BY DEF bridge_core_confirm, bridge_core_cancel, bridge_core_tick, bridge_core_next,
         bridge_core_abort, Return, terminate, HandOut, Executing

\* A client command is a call of the core or leaves the core alone.
LEMMA CommandIsCall ==
  ASSUME ClockInv, Command(now)
  PROVE  CoreNext \/ (KeepsCore /\ status' \in Statuses)
<1>1. ASSUME NEW r \in Requests, ble_handle_stage(r, now) PROVE CoreNext
  BY <1>1, DecodedAssumption DEF ble_handle_stage, CoreNext, ClockInv
<1>2. ASSUME NEW k \in Keys, ble_handle_confirm(k, now) PROVE CoreNext
  BY <1>2 DEF ble_handle_confirm, CoreNext, ClockInv
<1>3. ASSUME NEW k \in Keys, ble_handle_cancel(k) PROVE CoreNext
  BY <1>3 DEF ble_handle_cancel, CoreNext
<1>4. ASSUME NEW c \in Clock, ble_handle_tick(c) PROVE CoreNext
  BY <1>4 DEF ble_handle_tick, CoreNext
<1>5. CASE ShortFrame
  BY <1>5 DEF ShortFrame, Return, KeepsCore, Statuses
<1> QED BY <1>1, <1>2, <1>3, <1>4, <1>5 DEF Command

\* So is every step of the loop.
LEMMA StepIsCall ==
  ASSUME ClockInv, [Next]_vars
  PROVE  CoreNext \/ (KeepsCore /\ status' \in Statuses)
<1>1. CASE Client
  BY <1>1, CommandIsCall DEF Client, During
<1>2. CASE Drain
  BY <1>2 DEF Drain, During, CoreNext, ClockInv
<1>3. CASE LocalAbort
  BY <1>3 DEF LocalAbort, During, CoreNext
<1>4. CASE Poll
  BY <1>4 DEF Poll, CoreNext, ClockInv
<1>5. CASE UNCHANGED coreVars
  BY <1>5 DEF coreVars, KeepsCore, ClockInv, CoreInv, TypeOK
<1>6. ASSUME NEW d \in Steps, Advance(d) PROVE UNCHANGED coreVars
  BY <1>6 DEF Advance
<1>7. ASSUME UNCHANGED vars PROVE UNCHANGED coreVars
  BY <1>7 DEF vars, coreVars
<1> QED BY <1>1, <1>2, <1>3, <1>4, <1>5, <1>6, <1>7 DEF Next

\* Every step of the loop keeps the invariant of the core.
LEMMA LoopKeepsCoreInv ==
  ASSUME ClockInv, [Next]_vars
  PROVE  CoreInv'
BY StepIsCall, CoreInvStep, KeepsCoreInv DEF ClockInv

\* A handler's call that stages nothing keeps the invariant.
LEMMA QuietCallInv ==
  ASSUME ClockInv, CoreInv', AgeFollows, UNCHANGED <<now, sincePoll>>,
         state' = "STAGED" => state = "STAGED" /\ job' = job
  PROVE  ClockInv'
<1>1. age' \in Nat
  BY DEF ClockInv, AgeFollows
<1>2. Unwrapped'
  BY DEF ClockInv, AgeFollows, Unwrapped, Elapsed
<1> QED BY <1>1, <1>2 DEF ClockInv

\* ClockInv is inductive.
LEMMA ClockInvStep ==
  ASSUME ClockInv, [Next]_vars
  PROVE  ClockInv'
<1>1. CoreInv'
  BY LoopKeepsCoreInv
<1>2. CASE Client
  <2>1. now' = now /\ sincePoll' = sincePoll /\ AgeFollows /\ Command(now) /\ now \in Clock
    BY <1>2 DEF Client, During, ClockInv
  <2>2. CASE state' = "STAGED" => state = "STAGED" /\ job' = job
    BY <1>1, <2>1, <2>2, QuietCallInv
  <2>3. ASSUME NEW r \in Requests,
               ~Active, StageVerdict(r) = "OK", StageAccepted(r, now)
        PROVE  ClockInv'
    <3>1. r.ttl \in 1..MaxTTL
      BY <2>3, VerdictOk DEF ClockInv
    <3>2. job'.ttl_ms = r.ttl /\ job'.staged_at_ms = now
      BY <2>3 DEF StageAccepted
    <3>3. age' = 0
      BY <2>1, <2>3 DEF AgeFollows, Active
    <3>4. Elapsed(now, now) = 0
      BY ConstantsAssumption DEF Elapsed, ClockInv, Clock
    <3>5. Unwrapped'
      BY <2>1, <3>1, <3>2, <3>3, <3>4, ConstantsAssumption
      DEF Unwrapped, ClockInv, Elapsed
    <3> QED BY <1>1, <2>1, <3>3, <3>5 DEF ClockInv
  <2>4. ASSUME NEW r \in Requests, bridge_core_stage(r, now) PROVE ClockInv'
    BY <2>2, <2>3, <2>4 DEF bridge_core_stage, Return, terminate
  <2>5. ASSUME NEW r \in Requests, ble_handle_stage(r, now) PROVE ClockInv'
    BY <2>4, <2>5, DecodedAssumption DEF ble_handle_stage
  <2>6. ASSUME NEW k \in Keys, ble_handle_confirm(k, now) \/ ble_handle_cancel(k)
        PROVE  ClockInv'
    <3>1. bridge_core_confirm(k[1], k[2], now) \/ bridge_core_cancel(k[1], k[2])
      BY <2>6 DEF ble_handle_confirm, ble_handle_cancel
    <3> QED BY <2>1, <2>2, <3>1, StagedOnlyByStage DEF ClockInv
  <2>7. ASSUME NEW c \in Clock, ble_handle_tick(c) PROVE ClockInv'
    <3>1. bridge_core_tick(c)
      BY <2>7 DEF ble_handle_tick
    <3> QED BY <2>2, <2>7, <3>1, StagedOnlyByStage DEF ClockInv
  <2>8. CASE ShortFrame
    BY <2>2, <2>8 DEF ShortFrame, Return
  <2> QED BY <2>1, <2>5, <2>6, <2>7, <2>8 DEF Command
<1>3. CASE Drain \/ LocalAbort
  <2>1. /\ AgeFollows /\ UNCHANGED <<now, sincePoll>> /\ now \in Clock
        /\ bridge_core_next(now) \/ bridge_core_abort
    BY <1>3 DEF Drain, LocalAbort, During, ClockInv
  <2>2. state' = "STAGED" => state = "STAGED" /\ job' = job
    BY <2>1, StagedOnlyByStage DEF ClockInv
  <2> QED BY <1>1, <2>1, <2>2, QuietCallInv
<1>4. CASE Poll
  <2>1. AgeFollows /\ now' = now /\ sincePoll' = 0 /\ bridge_core_tick(now)
    BY <1>4 DEF Poll
  <2>2. age' \in Nat
    BY <2>1 DEF ClockInv, AgeFollows
  <2>3. Unwrapped'
    <3>1. SUFFICES ASSUME state' = "STAGED"
                   PROVE  Unwrapped'
      BY DEF Unwrapped
    <3>2. state = "STAGED" /\ job' = job /\ ~Expired(now)
      BY <2>1, <3>1 DEF bridge_core_tick, terminate, Return
    <3>3. age' = age /\ age < job.ttl_ms
      BY <2>1, <3>1, <3>2 DEF AgeFollows, Expired, ClockInv, Unwrapped
    <3>4. Elapsed(now', job'.staged_at_ms) = Elapsed(now, job.staged_at_ms)
      BY <2>1, <3>2
    <3> QED BY <2>1, <3>2, <3>3, <3>4 DEF ClockInv, Unwrapped
  <2>4. 0 \in 0..TickGap
    BY TickGapAssumption
  <2> QED BY <1>1, <2>1, <2>2, <2>3, <2>4 DEF ClockInv
<1>5. ASSUME NEW d \in Steps, Advance(d) PROVE ClockInv'
  <2>1. /\ sincePoll + d <= TickGap /\ sincePoll' = sincePoll + d
        /\ now' = IF now + d < ClockMod THEN now + d ELSE now + d - ClockMod
        /\ age' = IF state # "STAGED" THEN 0
                  ELSE IF age + d < AgeBound THEN age + d ELSE AgeBound
        /\ state' = state /\ job' = job
    BY <1>5 DEF Advance, coreVars
  <2>2. d \in 1..TickGap /\ TickGap \in Nat /\ MaxTTL + TickGap < ClockMod
    BY TickGapAssumption
  <2>3. now' \in Clock
    BY <2>1, <2>2, ConstantsAssumption DEF ClockInv, Clock
  <2>4. sincePoll' \in 0..TickGap /\ age' \in Nat
    BY <2>1, <2>2, ConstantsAssumption DEF ClockInv, AgeBound
  <2>5. Unwrapped'
    <3>1. SUFFICES ASSUME state = "STAGED"
                   PROVE  Unwrapped'
      BY <2>1 DEF Unwrapped
    <3>2. /\ job.ttl_ms \in 1..MaxTTL /\ Elapsed(now, job.staged_at_ms) = age
          /\ age < job.ttl_ms + sincePoll
          /\ job.staged_at_ms \in Clock /\ now \in Clock /\ age \in Nat
          /\ sincePoll \in Nat
      BY <3>1 DEF ClockInv, Unwrapped, CoreInv, TypeOK, Job
    <3>3. age + d < AgeBound /\ AgeBound < ClockMod
      BY <2>1, <2>2, <3>2, ConstantsAssumption DEF AgeBound
    <3>4. Elapsed(now', job.staged_at_ms) = age + d
      BY <2>1, <2>2, <3>2, <3>3, ConstantsAssumption DEF Elapsed, Clock, AgeBound
    <3>5. age + d < job.ttl_ms + sincePoll'
      BY <2>1, <2>2, <3>2
    <3>6. age' = age + d
      BY <2>1, <3>1, <3>3
    <3> QED BY <2>1, <3>1, <3>2, <3>4, <3>5, <3>6 DEF Unwrapped
  <2> QED BY <1>1, <2>3, <2>4, <2>5 DEF ClockInv
<1>6. CASE UNCHANGED vars
  <2>1. /\ state' = state /\ job' = job /\ now' = now
        /\ sincePoll' = sincePoll /\ age' = age
    BY <1>6 DEF vars
  <2>2. Unwrapped'
    BY <2>1 DEF ClockInv, Unwrapped, Elapsed
  <2> QED BY <1>1, <2>1, <2>2 DEF ClockInv
<1> QED
  BY <1>2, <1>3, <1>4, <1>5, <1>6 DEF Next

\* ClockInv holds in every state the loop reaches.
THEOREM ClockSafe == Spec => []ClockInv
<1>1. Init => ClockInv
  BY CoreInvInit, ConstantsAssumption, TickGapAssumption
  DEF Init, CoreInit, ClockInv, Unwrapped, Clock
<1>2. ClockInv /\ [Next]_vars => ClockInv'
  BY ClockInvStep
<1> QED BY <1>1, <1>2, PTL DEF Spec

(***************************************************************************)
(* A staged text stays in memory for less than its TTL plus one watchdog   *)
(* period, however often the 32-bit clock wraps.                           *)
(***************************************************************************)
THEOREM LifetimeBounded == Spec => []StagedLifetimeBounded
<1>1. ClockInv => StagedLifetimeBounded
  <2>1. SUFFICES ASSUME ClockInv, state = "STAGED"
                 PROVE  age < job.ttl_ms + TickGap
    BY DEF StagedLifetimeBounded
  <2>2. /\ job.ttl_ms \in 1..MaxTTL /\ age < job.ttl_ms + sincePoll
        /\ sincePoll \in 0..TickGap /\ age \in Nat
    BY <2>1 DEF ClockInv, Unwrapped
  <2> QED BY <2>2, TickGapAssumption, ConstantsAssumption
<1> QED BY <1>1, ClockSafe, PTL

\* A step confirms within the TTL and expires exactly when it is over.
LEMMA ExpiryLemma ==
  ASSUME ClockInv, Next
  PROVE  ExpiryStep
<1>1. SUFFICES ASSUME state = "STAGED"
               PROVE  ExpiryStep
  BY DEF ExpiryStep
<1>2. Expired(now) <=> age >= job.ttl_ms
  BY <1>1 DEF Expired, ClockInv, Unwrapped
<1>3. job.ttl_ms \in Nat /\ age \in Nat
  BY <1>1 DEF ClockInv, CoreInv, TypeOK, Job
<1>4. ASSUME state' = "EXECUTING" PROVE ~Expired(now)
  <2>1. Command(now)
    BY <1>1, <1>4
    DEF Next, Client, Advance, Poll, Drain, LocalAbort, During, coreVars,
        bridge_core_tick, bridge_core_next, bridge_core_abort, Return, terminate,
        HandOut, Executing
  <2>2. PICK k \in Keys : bridge_core_confirm(k[1], k[2], now)
    BY <1>1, <1>4, <2>1
    DEF Command, ble_handle_stage, ble_handle_confirm, ble_handle_cancel, ble_handle_tick,
        ShortFrame, bridge_core_stage, bridge_core_cancel, bridge_core_tick, Return,
        terminate, StageAccepted
  <2> QED
    BY <1>1, <1>4, <2>2
    DEF bridge_core_confirm, bridge_core_tick, Return, terminate
<1>5. ASSUME bridge_core_tick(now) \/ bridge_core_next(now)
      PROVE  state' = "EXPIRED" <=> Expired(now)
  BY <1>1, <1>5
  DEF bridge_core_tick, bridge_core_next, Return, terminate, Executing
<1>6. ASSUME ble_handle_confirm(JobKey, now)
      PROVE  state' = "EXPIRED" <=> Expired(now)
  <2>1. bridge_core_confirm(job.owner, job.id, now)
    BY <1>6 DEF ble_handle_confirm, JobKey
  <2> QED
    BY <1>1, <2>1
    DEF bridge_core_confirm, bridge_core_tick, Return, terminate
<1> QED
  BY <1>1, <1>2, <1>3, <1>4, <1>5, <1>6 DEF ExpiryStep, Poll, Drain, During

(***************************************************************************)
(* The wrapping comparison in bridge_core_tick is exact: the loop, the     *)
(* drain and a confirmation judge a staged job by its real age.            *)
(***************************************************************************)
THEOREM ExpiryIsExact == Spec => ExpiryExact
<1>1. ClockInv /\ [Next]_vars => [ExpiryStep]_vars
  BY ExpiryLemma
<1> QED BY <1>1, ClockSafe, PTL DEF Spec, ExpiryExact

(***************************************************************************)
(* Under the loop's clock, with commands that never reach the core among   *)
(* the others, the core still keeps the promise of BridgeJob, accepts a    *)
(* pair at most once and completes only what it has handed out.            *)
(***************************************************************************)
THEOREM PromiseUnderClock == Spec => ImplementsBridgeJob /\ AtMostOnce /\ CompletedIsWhole
<1>1. Init => Abstract!Init
  BY PromiseInit DEF Init
<1>2. ClockInv /\ [Next]_vars => /\ [Abstract!Next]_(Abstract!jobVars)
                                 /\ [AtMostOnceStep]_coreVars
                                 /\ [CompletedStep]_coreVars
  BY StepIsCall, PromiseKept DEF ClockInv
<1> QED
  BY <1>1, <1>2, ClockSafe, PTL
  DEF Spec, ImplementsBridgeJob, Abstract!Spec, AtMostOnce, CompletedIsWhole

-----------------------------------------------------------------------------
\* Where the lines of a run start in its script.
Lines(t) == IF PressEnter(t) THEN {1, 3} ELSE {1}

LineRequest(t, c) == IF c = 1 THEN TextRequest(t) ELSE EnterRequest(t)
LineKey(t, c) == Key(LineRequest(t, c))

\* The core is typing under this key.
Running(k) == state = "EXECUTING" /\ JobKey = k

\* Something was typed under this key, or is about to be.
Asked(k) == Running(k) \/ typed[k] # <<>>

\* What was confirmed is being typed, or was typed to its end or cut short.
Settled(k) == Running(k) \/ WholeOrCut(k)

ToolTypeOK ==
  /\ tool \in [Runs -> [at : Nat, tries : Nat, failed : BOOLEAN]]
  /\ air \in [Runs -> Statuses \cup {"none", "sent", "lost"}]
  /\ \A t \in Runs :
       /\ tool[t].at >= 1
       /\ air[t] = "sent" => tool[t].at <= Len(Script(t))

\* How far a run is when the core knows, asks for or has settled one of its lines.
LineFollows(t, c) ==
  /\ plan[LineKey(t, c)] # <<>> => tool[t].at >= c
  /\ Asked(LineKey(t, c)) => tool[t].at >= c + 1
  /\ tool[t].at > c + 1 \/ (tool[t].at = c + 1 /\ air[t] = "OK") => Settled(LineKey(t, c))

\* The device takes an Enter only when the text before it is over.
EnterWaits(t) ==
  PressEnter(t) /\ plan[EnterKey(t)] # <<>> => WholeOrCut(TextKey(t))

\* The inductive invariant.
ToolInv ==
  /\ CoreInv
  /\ now \in Clock
  /\ ToolTypeOK
  /\ \A t \in Runs : \A c \in Lines(t) : LineFollows(t, c)
  /\ \A t \in Runs : EnterWaits(t)

-----------------------------------------------------------------------------
\* The script of a run: each line is staged and then confirmed.
LEMMA ScriptShape ==
  ASSUME NEW t \in Runs
  PROVE  /\ \A n \in 1..Len(Script(t)) : \E c \in Lines(t) : n = c \/ n = c + 1
         /\ \A c \in Lines(t) :
              /\ Script(t)[c] = Stage(LineRequest(t, c))
              /\ Script(t)[c + 1] = Confirm(LineRequest(t, c))
              /\ LineRequest(t, c) \in Requests
              /\ LineKey(t, c) \in Keys
              /\ c \in {1, 3}
<1>1. CASE PressEnter(t)
  <2> DEFINE a == Stage(TextRequest(t))
             b == Confirm(TextRequest(t))
             x == Stage(EnterRequest(t))
             y == Confirm(EnterRequest(t))
  <2>1. Script(t) = <<a, b>> \o <<x, y>>
    BY <1>1 DEF Script
  <2> HIDE DEF a, b, x, y
  <2>2. /\ Len(Script(t)) = 4
        /\ Script(t)[1] = a /\ Script(t)[2] = b /\ Script(t)[3] = x /\ Script(t)[4] = y
    BY <2>1
  <2>3. Lines(t) = {1, 3}
    BY <1>1 DEF Lines
  <2>4. \A n \in 1..Len(Script(t)) : \E c \in Lines(t) : n = c \/ n = c + 1
    BY <2>2, <2>3
  <2>5. LineRequest(t, 1) = TextRequest(t) /\ LineRequest(t, 3) = EnterRequest(t)
    BY DEF LineRequest
  <2>6. TextRequest(t) \in Requests /\ EnterRequest(t) \in Requests
    BY <1>1, ScriptAssumption
  <2>7. \A c \in Lines(t) :
          /\ Script(t)[c] = Stage(LineRequest(t, c))
          /\ Script(t)[c + 1] = Confirm(LineRequest(t, c))
    BY <2>2, <2>3, <2>5 DEF a, b, x, y
  <2> QED BY <2>3, <2>4, <2>5, <2>6, <2>7 DEF LineKey, Keys
<1>2. CASE ~PressEnter(t)
  BY <1>2, ScriptAssumption DEF Script, Lines, LineRequest, LineKey, Keys
<1> QED BY <1>1, <1>2

\* No two lines share a key.
LEMMA LinesApart ==
  ASSUME NEW t \in Runs, NEW c \in Lines(t), NEW u \in Runs, NEW d \in Lines(u),
         LineKey(t, c) = LineKey(u, d)
  PROVE  t = u /\ c = d
<1>1. c \in {1, 3} /\ d \in {1, 3} /\ (c = 3 => PressEnter(t)) /\ (d = 3 => PressEnter(u))
  BY DEF Lines
<1>2. /\ LineKey(t, c) = IF c = 1 THEN TextKey(t) ELSE EnterKey(t)
      /\ LineKey(u, d) = IF d = 1 THEN TextKey(u) ELSE EnterKey(u)
  BY DEF LineKey, LineRequest, TextKey, EnterKey
<1> QED BY <1>1, <1>2, ScriptAssumption

\* The handler of STAGE keeps the pair of the request.
LEMMA DecodedKey ==
  ASSUME NEW r \in Requests
  PROVE  Decoded(r) \in Requests /\ Key(Decoded(r)) = Key(r)
<1>1. r \in Request
  BY ConstantsAssumption
<1> QED BY <1>1, DecodedAssumption DEF Decoded, Key, Request

\* A job that is being typed goes on, is completed, or is cut short.
LEMMA TypingEnds ==
  ASSUME CoreInv, CoreNext, state = "EXECUTING"
  PROVE  \/ state' = "EXECUTING" /\ JobKey' = JobKey
         \/ state' = "COMPLETED" /\ typed[JobKey] = plan[JobKey] /\ plan' = plan /\ typed' = typed
         \/ state' = "CANCELLED" /\ plan' = plan /\ typed' = typed
<1>0. Active /\ \A t : ~Expired(t)
  BY DEF Active, Expired
<1>1. ASSUME NEW r, NEW t, bridge_core_stage(r, t) PROVE state' = state /\ job' = job
  BY <1>0, <1>1 DEF bridge_core_stage, Return
<1>2. ASSUME NEW o, NEW i, NEW t, bridge_core_confirm(o, i, t) \/ bridge_core_tick(t)
      PROVE  state' = state /\ job' = job
  BY <1>0, <1>2 DEF bridge_core_confirm, bridge_core_tick, Return
<1>3. ASSUME NEW o, NEW i, bridge_core_cancel(o, i)
      PROVE  (state' = state /\ job' = job) \/ terminate("CANCELLED")
  BY <1>0, <1>3 DEF bridge_core_cancel, Return
<1>4. ASSUME NEW t, bridge_core_next(t)
      PROVE  \/ Exhausted /\ terminate("COMPLETED")
             \/ ~Exhausted /\ HandOut
  BY <1>0, <1>4 DEF bridge_core_next, Executing
<1>5. ASSUME ~Exhausted, HandOut PROVE state' = "EXECUTING" /\ JobKey' = JobKey
  <2>1. job \in Job
    BY DEF CoreInv, TypeOK
  <2> QED BY <1>5, <2>1 DEF HandOut, JobKey, Job
<1>6. ASSUME Exhausted PROVE typed[JobKey] = plan[JobKey]
  BY <1>6, ExhaustedIsWhole DEF Executing
<1>7. ASSUME state' = state, job' = job PROVE state' = "EXECUTING" /\ JobKey' = JobKey
  BY <1>7 DEF JobKey
<1> QED
  BY <1>1, <1>2, <1>3, <1>4, <1>5, <1>6, <1>7 DEF CoreNext, bridge_core_abort, terminate

\* Strokes are handed out only under the key that is being typed.
LEMMA TypedIsAsked ==
  ASSUME CoreInv, CoreNext, NEW k \in Keys, typed'[k] # <<>>
  PROVE  Asked(k)
<1>1. Outcome
  BY CallOutcome
<1>2. CASE Executing /\ ~Exhausted /\ HandOut
  <2>1. CASE k = JobKey
    BY <1>2, <2>1 DEF Asked, Running, Executing
  <2>2. CASE k # JobKey
    BY <1>2, <2>2 DEF Asked, HandOut, CoreInv, TypeOK
  <2> QED BY <2>1, <2>2
<1>3. CASE typed' = typed
  BY <1>3 DEF Asked
<1> QED BY <1>1, <1>2, <1>3 DEF Outcome, KeepsCore, terminate, StageAccepted, Confirmed

\* What was typed to its end or cut short stays so.
LEMMA WholeOrCutStays ==
  ASSUME CoreInv, CoreNext, CutFollows, NEW k \in Keys, WholeOrCut(k)
  PROVE  WholeOrCut(k)'
<1>1. CoreInv'
  BY CoreInvStep
<1>2. AtMostOnceStep
  BY AtMostOnceLemma
<1>3. plan'[k] = plan[k] /\ plan[k] # <<>>
  BY <1>2 DEF AtMostOnceStep, WholeOrCut
<1>4. CASE k \in cut
  BY <1>3, <1>4 DEF CutFollows, WholeOrCut
<1>5. CASE typed[k] = plan[k]
  <2>1. Len(typed'[k]) >= Len(plan'[k])
    BY <1>2, <1>3, <1>5 DEF AtMostOnceStep
  <2>2. /\ typed'[k] \in Seq(Stroke) /\ plan'[k] \in Seq(Stroke)
        /\ Len(typed'[k]) <= Len(plan'[k])
        /\ \A i \in 1..Len(typed'[k]) : typed'[k][i] = plan'[k][i]
    BY <1>1 DEF CoreInv, TypeOK, TypedFollowsPlan
  <2>3. typed'[k] = plan'[k]
    BY <2>1, <2>2
  <2> QED BY <1>3, <2>3 DEF WholeOrCut
<1> QED BY <1>4, <1>5 DEF WholeOrCut

\* What was confirmed stays confirmed, until it is whole or cut short.
LEMMA SettledStays ==
  ASSUME CoreInv, CoreNext, CutFollows, NEW k \in Keys, Settled(k)
  PROVE  Settled(k)'
<1>1. CASE WholeOrCut(k)
  BY <1>1, WholeOrCutStays DEF Settled
<1>2. CASE Running(k)
  <2>1. state = "EXECUTING" /\ k = JobKey
    BY <1>2 DEF Running
  <2>2. plan[k] # <<>>
    BY <2>1 DEF CoreInv, TypedFollowsPlan, LedgerExact, Active
  <2>3. CASE state' = "EXECUTING" /\ JobKey' = JobKey
    BY <2>1, <2>3 DEF Settled, Running
  <2>4. CASE state' = "COMPLETED" /\ typed[JobKey] = plan[JobKey] /\ plan' = plan /\ typed' = typed
    BY <2>1, <2>2, <2>4 DEF Settled, WholeOrCut
  <2>5. CASE state' = "CANCELLED" /\ plan' = plan /\ typed' = typed
    BY <2>1, <2>2, <2>5 DEF Settled, WholeOrCut, CutFollows
  <2> QED BY <2>1, <2>3, <2>4, <2>5, TypingEnds
<1> QED BY <1>1, <1>2 DEF Settled

-----------------------------------------------------------------------------
\* A step of the core that neither stages nor confirms, with every client at rest.
LEMMA QuietStepInv ==
  ASSUME ToolInv, CoreNext \/ UNCHANGED coreVars, CutFollows, UNCHANGED <<tool, air>>,
         now' \in Clock, plan' = plan,
         state' = "EXECUTING" => state = "EXECUTING" /\ JobKey' = JobKey
  PROVE  ToolInv'
<1>1. CoreInv /\ CoreInv'
  BY CoreInvStep DEF ToolInv
<1>2. ASSUME NEW k \in Keys, Asked(k)' PROVE Asked(k)
  <2>1. CASE UNCHANGED coreVars
    BY <1>2, <2>1 DEF Asked, Running, JobKey, coreVars
  <2>2. CASE CoreNext /\ typed'[k] # <<>>
    BY <1>1, <2>2, TypedIsAsked
  <2>3. CASE Running(k)'
    BY <2>3 DEF Asked, Running
  <2> QED BY <1>2, <2>1, <2>2, <2>3 DEF Asked
<1>3. ASSUME NEW k \in Keys PROVE (Settled(k) => Settled(k)') /\ (WholeOrCut(k) => WholeOrCut(k)')
  <2>1. CASE UNCHANGED coreVars
    BY <2>1 DEF Settled, WholeOrCut, Running, JobKey, coreVars, CutFollows
  <2>2. CASE CoreNext
    BY <1>1, <2>2, SettledStays, WholeOrCutStays
  <2> QED BY <2>1, <2>2
<1>4. ToolTypeOK'
  BY DEF ToolInv, ToolTypeOK
<1>5. ASSUME NEW t \in Runs, NEW c \in Lines(t) PROVE LineFollows(t, c)'
  <2>1. LineKey(t, c) \in Keys
    BY ScriptShape
  <2>2. LineFollows(t, c)
    BY DEF ToolInv
  <2> QED BY <1>2, <1>3, <2>1, <2>2 DEF LineFollows
<1>6. ASSUME NEW t \in Runs PROVE EnterWaits(t)'
  <2>1. TextKey(t) \in Keys /\ EnterWaits(t)
    BY ScriptAssumption DEF ToolInv, TextKey, Keys
  <2> QED BY <1>3, <2>1 DEF EnterWaits
<1> QED BY <1>1, <1>4, <1>5, <1>6 DEF ToolInv

\* Time, the poll, the drain, an abort and a foreign TICK keep the invariant.
LEMMA DeviceInv ==
  ASSUME ToolInv,
         \/ Device(TimePasses) \/ Device(Poll) \/ Device(Drain) \/ Device(LocalAbort)
         \/ Device(SomeTick)
  PROVE  ToolInv'
<1>0. CoreInv /\ now \in Clock
  BY DEF ToolInv
<1>1. CutFollows /\ UNCHANGED <<tool, air>>
  BY DEF Device
<1>2. CASE TimePasses
  <2>1. PICK d \in Steps : Advance(d)
    BY <1>2 DEF TimePasses
  <2>2. UNCHANGED coreVars
    BY <2>1 DEF Advance
  <2>3. now' \in Clock
    BY <1>0, <2>1, TickGapAssumption, ConstantsAssumption DEF Advance, Clock
  <2>4. plan' = plan /\ (state' = "EXECUTING" => state = "EXECUTING" /\ JobKey' = JobKey)
    BY <2>2 DEF coreVars, JobKey
  <2> QED BY <1>1, <2>2, <2>3, <2>4, QuietStepInv
<1>3. ASSUME NEW c \in Clock, bridge_core_tick(c) \/ bridge_core_next(c) \/ bridge_core_abort
      PROVE  /\ CoreNext /\ plan' = plan
             /\ state' = "EXECUTING" => state = "EXECUTING" /\ JobKey' = JobKey
  <2>1. CoreNext
    BY <1>3 DEF CoreNext
  <2>2. plan' = plan
    BY <1>3 DEF bridge_core_tick, bridge_core_next, bridge_core_abort, Return, terminate, HandOut
  <2>3. ASSUME state' = "EXECUTING" PROVE state = "EXECUTING"
    BY <1>3, <2>3
    DEF bridge_core_tick, bridge_core_next, bridge_core_abort, Return, terminate, HandOut
  <2>4. ASSUME state' = "EXECUTING" PROVE JobKey' = JobKey
    BY <1>0, <2>1, <2>3, <2>4, TypingEnds
  <2> QED BY <2>1, <2>2, <2>3, <2>4
<1>4. CASE Poll \/ Drain \/ LocalAbort \/ SomeTick
  <2>1. now' = now
    BY <1>4 DEF Poll, Drain, LocalAbort, SomeTick, During
  <2>2. \E c \in Clock : bridge_core_tick(c) \/ bridge_core_next(c) \/ bridge_core_abort
    BY <1>0, <1>4 DEF Poll, Drain, LocalAbort, SomeTick, During, ble_handle_tick
  <2> QED BY <1>0, <1>1, <1>3, <2>1, <2>2, QuietStepInv
<1> QED BY <1>2, <1>4 DEF Device

\* The clients' own steps: sending, giving up and reading a receipt.
LEMMA ClientInv ==
  ASSUME ToolInv, NEW t \in Runs, Send(t) \/ Receive(t) \/ GiveUp(t)
  PROVE  ToolInv'
<1>1. UNCHANGED vars /\ cut' = cut
  BY DEF Send, Receive, GiveUp
<1>2. /\ state' = state /\ job' = job /\ plan' = plan /\ typed' = typed
      /\ now' = now /\ UNCHANGED coreVars
  BY <1>1 DEF vars, coreVars
<1>3. CoreInv'
  BY <1>2, CoreInvStep DEF ToolInv
<1>4. /\ tool \in [Runs -> [at : Nat, tries : Nat, failed : BOOLEAN]]
      /\ air \in [Runs -> Statuses \cup {"none", "sent", "lost"}]
      /\ \A u \in Runs : tool[u].at >= 1 /\ (air[u] = "sent" => tool[u].at <= Len(Script(u)))
  BY DEF ToolInv, ToolTypeOK
<1>5. /\ tool' \in [Runs -> [at : Nat, tries : Nat, failed : BOOLEAN]]
      /\ air' \in [Runs -> Statuses \cup {"none", "sent", "lost"}]
      /\ \A u \in Runs \ {t} : tool'[u] = tool[u] /\ air'[u] = air[u]
      /\ \/ tool'[t].at = tool[t].at /\ air'[t] # "OK"
         \/ tool'[t].at = tool[t].at + 1 /\ air[t] = "OK" /\ air'[t] = "none"
      /\ air'[t] = "sent" => tool'[t].at = tool[t].at /\ tool[t].at <= Len(Script(t))
  <2>1. CASE Send(t)
    BY <1>4, <2>1 DEF Send, Going
  <2>2. CASE Receive(t)
    <3>1. /\ tool' = [tool EXCEPT ![t] = Resumed(t)]
          /\ air' = [air EXCEPT ![t] = "none"]
      BY <2>2 DEF Receive
    <3>2. /\ Resumed(t) \in [at : Nat, tries : Nat, failed : BOOLEAN]
          /\ \/ Resumed(t).at = tool[t].at
             \/ Resumed(t).at = tool[t].at + 1 /\ air[t] = "OK"
      <4> DEFINE f == tool[t]
      <4>1. /\ f \in [at : Nat, tries : Nat, failed : BOOLEAN]
            /\ f.at + 1 \in Nat /\ f.tries + 1 \in Nat
        BY <1>4
      <4>2. Resumed(t) = IF Accepted(air[t]) THEN [f EXCEPT !.at = f.at + 1, !.tries = 0]
                         ELSE IF Retried(t) THEN [f EXCEPT !.tries = f.tries + 1]
                         ELSE [f EXCEPT !.failed = TRUE]
        BY DEF Resumed
      <4> HIDE DEF f
      <4>3. /\ [f EXCEPT !.at = f.at + 1, !.tries = 0]
                 \in [at : Nat, tries : Nat, failed : BOOLEAN]
            /\ [f EXCEPT !.at = f.at + 1, !.tries = 0].at = f.at + 1
        BY <4>1
      <4>4. /\ [f EXCEPT !.tries = f.tries + 1] \in [at : Nat, tries : Nat, failed : BOOLEAN]
            /\ [f EXCEPT !.tries = f.tries + 1].at = f.at
        BY <4>1
      <4>5. /\ [f EXCEPT !.failed = TRUE] \in [at : Nat, tries : Nat, failed : BOOLEAN]
            /\ [f EXCEPT !.failed = TRUE].at = f.at
        BY <4>1
      <4> QED BY <4>2, <4>3, <4>4, <4>5 DEF Accepted, f
    <3> QED BY <1>4, <3>1, <3>2
  <2>3. CASE GiveUp(t)
    BY <1>4, <2>3 DEF GiveUp, Going
  <2> QED BY <2>1, <2>2, <2>3
<1>6. ToolTypeOK'
  <2>1. ASSUME NEW u \in Runs
        PROVE  tool'[u].at >= 1 /\ (air'[u] = "sent" => tool'[u].at <= Len(Script(u)))
    <3>1. tool[u].at \in Nat /\ tool[t].at \in Nat /\ tool[t].at >= 1 /\ tool[u].at >= 1
      BY <1>4
    <3>2. CASE u # t
      BY <1>4, <1>5, <3>1, <3>2
    <3>3. CASE u = t
      BY <1>5, <3>1, <3>3
    <3> QED BY <3>2, <3>3
  <2> QED BY <1>5, <2>1 DEF ToolTypeOK
<1>7. ASSUME NEW u \in Runs, NEW c \in Lines(u) PROVE LineFollows(u, c)'
  <2>1. LineFollows(u, c) /\ c \in Nat
    BY ScriptShape DEF ToolInv
  <2>2. /\ Asked(LineKey(u, c))' <=> Asked(LineKey(u, c))
        /\ Settled(LineKey(u, c))' <=> Settled(LineKey(u, c))
    BY <1>1, <1>2 DEF Asked, Settled, Running, JobKey, WholeOrCut
  <2>3. tool[u].at \in Nat /\ tool'[u].at \in Nat
    BY <1>4, <1>5
  <2> QED BY <1>2, <1>5, <2>1, <2>2, <2>3 DEF LineFollows
<1>8. ASSUME NEW u \in Runs PROVE EnterWaits(u)'
  BY <1>1, <1>2 DEF ToolInv, EnterWaits, WholeOrCut
<1> QED BY <1>2, <1>3, <1>6, <1>7, <1>8 DEF ToolInv

\* What a STAGE does to the core: BUSY leaves it alone, and only an idle core accepts.
LEMMA StageFacts ==
  ASSUME CoreInv, NEW r \in Requests, bridge_core_stage(r, now), now \in Clock
  PROVE  /\ CoreNext
         /\ state' = "EXECUTING" => state = "EXECUTING" /\ JobKey' = JobKey
         /\ \A k \in Keys : plan'[k] # plan[k] => k = Key(r) /\ ~Active
<1>1. CoreNext
  BY DEF CoreNext
<1>2. CASE Return("BUSY")
  BY <1>1, <1>2 DEF Return, JobKey
<1>3. CASE ~Active /\ terminate("REJECTED")
  BY <1>1, <1>3 DEF terminate
<1>4. CASE ~Active /\ StageAccepted(r, now)
  BY <1>1, <1>4 DEF StageAccepted, CoreInv, TypeOK
<1> QED BY <1>2, <1>3, <1>4 DEF bridge_core_stage

\* What a CONFIRM does to the core: it only ever starts the job it names, and it
\* answers OK only when it did.
LEMMA ConfirmFacts ==
  ASSUME NEW k \in Keys, ble_handle_confirm(k, now), now \in Clock, k = <<k[1], k[2]>>
  PROVE  /\ CoreNext /\ plan' = plan /\ JobKey' \in {JobKey, NoKey}
         /\ state' = "EXECUTING" => JobKey' = JobKey /\ (state = "EXECUTING" \/ JobKey = k)
         /\ status' = "OK" => state' = "EXECUTING" /\ JobKey' = k
<1>0. bridge_core_confirm(k[1], k[2], now)
  BY DEF ble_handle_confirm
<1>1. CoreNext
  BY <1>0 DEF CoreNext
<1>2. CASE KeepsCore /\ status' # "OK"
  BY <1>1, <1>2 DEF KeepsCore, JobKey
<1>3. CASE terminate("EXPIRED") /\ status' = "EXPIRED"
  BY <1>1, <1>3 DEF terminate, JobKey, NoJob, NoKey
<1>4. CASE state' = "EXECUTING" /\ <<k[1], k[2]>> = JobKey /\ plan' = plan /\ job' = job
  BY <1>1, <1>4 DEF JobKey
<1> QED BY <1>0, <1>2, <1>3, <1>4 DEF bridge_core_confirm, bridge_core_tick, Return, KeepsCore

\* The device executes a command: the line it belongs to is the only one it moves.
LEMMA DeliverInv ==
  ASSUME ToolInv, NEW t \in Runs, Deliver(t)
  PROVE  ToolInv'
<1> DEFINE n == tool[t].at
<1>1. /\ CoreInv /\ now \in Clock /\ ToolTypeOK
      /\ \A u \in Runs : \A d \in Lines(u) : LineFollows(u, d)
      /\ \A u \in Runs : EnterWaits(u)
  BY DEF ToolInv
<1>2. /\ air[t] = "sent" /\ Perform(Script(t)[n]) /\ now' = now /\ CutFollows /\ tool' = tool
      /\ air' = [air EXCEPT ![t] = IF tool[t].failed THEN "lost" ELSE status']
  BY DEF Deliver, During
<1>3. n \in 1..Len(Script(t))
  BY <1>1, <1>2 DEF ToolTypeOK
<1>4. PICK c \in Lines(t) : n = c \/ n = c + 1
  BY <1>3, ScriptShape
<1> DEFINE r == LineRequest(t, c)
           k == LineKey(t, c)
<1>5. /\ Script(t)[c] = Stage(r) /\ Script(t)[c + 1] = Confirm(r)
      /\ r \in Requests /\ k \in Keys /\ k = Key(r) /\ c \in {1, 3}
  BY ScriptShape DEF LineKey
\* What the command does, whichever it is.
<1>6. /\ CoreNext
      /\ \A x \in Keys : Running(x)' => Running(x) \/ (x = k /\ n = c + 1)
      /\ \A x \in Keys : plan'[x] # plan[x] => x = k /\ n = c /\ ~Active
      /\ status' = "OK" /\ n = c + 1 => Running(k)'
  <2>1. CASE n = c
    <3>1. bridge_core_stage(Decoded(r), now)
      BY <1>2, <1>5, <2>1 DEF Perform, Stage, ble_handle_stage
    <3>2. Decoded(r) \in Requests /\ Key(Decoded(r)) = k
      BY <1>5, DecodedKey
    <3>3. /\ CoreNext
          /\ state' = "EXECUTING" => state = "EXECUTING" /\ JobKey' = JobKey
          /\ \A x \in Keys : plan'[x] # plan[x] => x = k /\ ~Active
      BY <1>1, <3>1, <3>2, StageFacts
    <3> QED BY <1>5, <2>1, <3>3 DEF Running
  <2>2. CASE n = c + 1
    <3>1. ble_handle_confirm(k, now)
      BY <1>2, <1>5, <2>2 DEF Perform, Confirm
    <3>2. k = <<k[1], k[2]>>
      BY <1>5 DEF Key
    <3>3. /\ CoreNext /\ plan' = plan
          /\ state' = "EXECUTING" => JobKey' = JobKey /\ (state = "EXECUTING" \/ JobKey = k)
          /\ status' = "OK" => state' = "EXECUTING" /\ JobKey' = k
      BY <1>1, <1>5, <3>1, <3>2, ConfirmFacts
    <3> QED BY <2>2, <3>3 DEF Running
  <2> QED BY <1>4, <2>1, <2>2
<1>7. CoreInv' /\ status' \in Statuses
  BY <1>1, <1>6, CoreInvStep, CallOutcome
<1>8. /\ air' \in [Runs -> Statuses \cup {"none", "sent", "lost"}]
      /\ \A u \in Runs \ {t} : air'[u] = air[u]
      /\ air'[t] # "sent"
      /\ air'[t] = "OK" => status' = "OK"
  BY <1>1, <1>2, <1>7 DEF ToolTypeOK, Statuses
<1>9. ToolTypeOK'
  BY <1>1, <1>2, <1>8 DEF ToolTypeOK
<1>10. ASSUME NEW x \in Keys, Asked(x)' PROVE Asked(x) \/ (x = k /\ n = c + 1)
  BY <1>1, <1>6, <1>10, TypedIsAsked DEF Asked
<1>11. ASSUME NEW x \in Keys
       PROVE  (Settled(x) => Settled(x)') /\ (WholeOrCut(x) => WholeOrCut(x)')
  BY <1>1, <1>2, <1>6, SettledStays, WholeOrCutStays
<1> HIDE DEF n, r, k
<1>12. ASSUME NEW u \in Runs, NEW d \in Lines(u) PROVE LineFollows(u, d)'
  <2> DEFINE q == LineKey(u, d)
  <2>1. /\ q \in Keys /\ d \in {1, 3} /\ tool[u].at \in Nat
        /\ plan[q] # <<>> => tool[u].at >= d
        /\ Asked(q) => tool[u].at >= d + 1
        /\ tool[u].at > d + 1 \/ (tool[u].at = d + 1 /\ air[u] = "OK") => Settled(q)
    BY <1>1, ScriptShape DEF LineFollows, ToolTypeOK
  <2>2. q = k => u = t /\ d = c
    BY LinesApart DEF k
  <2>3. tool' = tool /\ (u = t => tool[u].at = n)
    BY <1>2 DEF n
  <2>4. u = t /\ n = d + 1 => d = c
    BY <1>4, <1>5, <2>1
  <2>5. u = t /\ d = c => q = k
    BY DEF k
  <2> HIDE DEF q
  <2>6. plan'[q] # <<>> => tool[u].at >= d
    BY <1>6, <2>1, <2>2, <2>3
  <2>7. Asked(q)' => tool[u].at >= d + 1
    BY <1>10, <2>1, <2>2, <2>3
  <2>8. tool[u].at > d + 1 => Settled(q)'
    BY <1>11, <2>1
  <2>9. ASSUME tool[u].at = d + 1, air'[u] = "OK" PROVE Settled(q)'
    <3>1. CASE u # t
      BY <1>8, <1>11, <2>1, <2>9, <3>1
    <3>2. CASE u = t
      <4>1. status' = "OK" /\ n = c + 1 /\ q = k
        BY <1>8, <2>3, <2>4, <2>5, <2>9, <3>2
      <4> QED BY <1>6, <4>1 DEF Settled
    <3> QED BY <3>1, <3>2
  <2> QED BY <2>3, <2>6, <2>7, <2>8, <2>9 DEF LineFollows, q
<1>13. ASSUME NEW u \in Runs PROVE EnterWaits(u)'
  <2>1. SUFFICES ASSUME PressEnter(u), plan'[EnterKey(u)] # <<>>
                 PROVE  WholeOrCut(TextKey(u))'
    BY DEF EnterWaits
  <2>2. /\ 1 \in Lines(u) /\ 3 \in Lines(u)
        /\ TextKey(u) = LineKey(u, 1) /\ EnterKey(u) = LineKey(u, 3)
    BY <2>1 DEF Lines, LineKey, LineRequest, TextKey, EnterKey
  <2>3. TextKey(u) \in Keys /\ EnterKey(u) \in Keys
    BY <2>2, ScriptShape
  <2>4. CASE plan[EnterKey(u)] # <<>>
    BY <1>1, <1>11, <2>1, <2>3, <2>4 DEF EnterWaits
  <2>5. CASE plan[EnterKey(u)] = <<>>
    <3>1. EnterKey(u) = k /\ n = c /\ ~Active
      BY <1>6, <2>1, <2>3, <2>5
    <3>2. u = t /\ c = 3
      BY <2>2, <3>1, LinesApart DEF k
    <3>3. LineFollows(t, 1) /\ tool[t].at = 3
      BY <1>1, <2>2, <3>1, <3>2 DEF n
    <3>4. Settled(TextKey(u))
      BY <2>2, <3>2, <3>3 DEF LineFollows
    <3>5. WholeOrCut(TextKey(u))
      BY <3>1, <3>4 DEF Settled, Running, Active
    <3> QED BY <1>11, <2>3, <3>5
  <2> QED BY <2>4, <2>5
<1> QED BY <1>1, <1>2, <1>7, <1>9, <1>12, <1>13 DEF ToolInv

-----------------------------------------------------------------------------
\* The invariant holds at the start.
LEMMA ToolInvInit == ToolInit => ToolInv
<1> SUFFICES ASSUME ToolInit PROVE ToolInv
  OBVIOUS
<1>1. CoreInv /\ now \in Clock
  BY CoreInvInit, ConstantsAssumption DEF ToolInit, Init, Clock
<1>2. /\ tool = [t \in Runs |-> [at |-> 1, tries |-> 0, failed |-> FALSE]]
      /\ air = [t \in Runs |-> "none"]
      /\ state = "EMPTY" /\ \A k \in Keys : plan[k] = <<>> /\ typed[k] = <<>>
  BY DEF ToolInit, Init, CoreInit
<1>3. ToolTypeOK
  BY <1>2 DEF ToolTypeOK
<1>4. ASSUME NEW t \in Runs, NEW c \in Lines(t) PROVE LineFollows(t, c)
  <2>1. LineKey(t, c) \in Keys /\ c \in {1, 3}
    BY ScriptShape
  <2> QED BY <1>2, <2>1 DEF LineFollows, Asked, Running
<1>5. ASSUME NEW t \in Runs PROVE EnterWaits(t)
  <2>1. PressEnter(t) => EnterKey(t) \in Keys
    BY ScriptAssumption DEF EnterKey, Keys
  <2> QED BY <1>2, <2>1 DEF EnterWaits
<1> QED BY <1>1, <1>3, <1>4, <1>5 DEF ToolInv

\* Every step of the device and of a client keeps the invariant.
LEMMA ToolInvStep ==
  ASSUME ToolInv, [ToolNext]_sendVars
  PROVE  ToolInv'
<1>1. CASE UNCHANGED sendVars
  <2>1. UNCHANGED coreVars /\ UNCHANGED <<tool, air>> /\ cut' = cut /\ now' = now
    BY <1>1 DEF sendVars, vars, coreVars
  <2>2. CutFollows /\ plan' = plan /\ now' \in Clock
    BY <2>1 DEF CutFollows, coreVars, ToolInv
  <2>3. state' = "EXECUTING" => state = "EXECUTING" /\ JobKey' = JobKey
    BY <2>1 DEF coreVars, JobKey
  <2> QED BY <2>1, <2>2, <2>3, QuietStepInv
<1> QED BY <1>1, DeviceInv, ClientInv, DeliverInv DEF ToolNext

(***************************************************************************)
(* The place of every run in its script agrees with what the device knows, *)
(* types and has settled of its lines, whatever is lost or arrives late.   *)
(***************************************************************************)
THEOREM ToolInvariant == ToolSpec => []ToolInv
<1> QED BY ToolInvInit, ToolInvStep, PTL DEF ToolSpec

\* The core keeps its own invariant below the client programs.
THEOREM CoreSafeBelowTools == ToolSpec => []CoreInv
<1>1. ToolInv => CoreInv
  BY DEF ToolInv
<1> QED BY <1>1, ToolInvariant, PTL

(***************************************************************************)
(* A run that ended before its stage was acknowledged leaves nothing that  *)
(* is ever typed, for every number of runs and every text.                 *)
(***************************************************************************)
THEOREM NothingUnaskedHolds == ToolSpec => []NothingTypedUnasked
<1>1. ToolInv => NothingTypedUnasked
  <2> SUFFICES ASSUME ToolInv, NEW t \in Runs
               PROVE  /\ typed[TextKey(t)] # <<>> => tool[t].at >= 2
                      /\ PressEnter(t) /\ typed[EnterKey(t)] # <<>> => tool[t].at >= 4
    BY DEF NothingTypedUnasked
  <2>1. 1 \in Lines(t) /\ (PressEnter(t) => 3 \in Lines(t))
    BY DEF Lines
  <2>2. TextKey(t) = LineKey(t, 1) /\ EnterKey(t) = LineKey(t, 3)
    BY DEF LineKey, LineRequest, TextKey, EnterKey
  <2> QED BY <2>1, <2>2 DEF ToolInv, LineFollows, Asked
<1> QED BY <1>1, ToolInvariant, PTL

(***************************************************************************)
(* Enter is pressed only when the text before it was typed to its end or   *)
(* was cut short by the device itself.                                     *)
(***************************************************************************)
THEOREM EnterAfterTextHolds == ToolSpec => []EnterOnlyAfterText
<1>1. ToolInv => EnterOnlyAfterText
  <2> SUFFICES ASSUME ToolInv, NEW t \in Runs, PressEnter(t), typed[EnterKey(t)] # <<>>
               PROVE  WholeOrCut(TextKey(t))
    BY DEF EnterOnlyAfterText
  <2>1. EnterKey(t) \in Keys
    BY ScriptAssumption DEF EnterKey, Keys
  <2>2. plan[EnterKey(t)] # <<>>
    <3>1. /\ typed[EnterKey(t)] \in Seq(Stroke) /\ plan[EnterKey(t)] \in Seq(Stroke)
          /\ Len(typed[EnterKey(t)]) <= Len(plan[EnterKey(t)])
      BY <2>1 DEF ToolInv, CoreInv, TypeOK, TypedFollowsPlan
    <3> QED BY <3>1
  <2> QED BY <2>2 DEF ToolInv, EnterWaits
<1> QED BY <1>1, ToolInvariant, PTL

\* What the tool reports as sent was confirmed: it is being typed, or was typed to
\* its end or cut short.  That it ends is a matter of fairness (OkMeansTyped).
THEOREM OkMeansSettled ==
  ToolSpec => [](\A t \in Runs : (TextOk(t) => Settled(TextKey(t)))
                                   /\ (PressEnter(t) /\ EnterOk(t) => Settled(EnterKey(t))))
<1>1. ASSUME ToolInv, NEW t \in Runs
      PROVE  (TextOk(t) => Settled(TextKey(t))) /\ (PressEnter(t) /\ EnterOk(t) => Settled(EnterKey(t)))
  <2>1. 1 \in Lines(t) /\ (PressEnter(t) => 3 \in Lines(t))
    BY DEF Lines
  <2>2. TextKey(t) = LineKey(t, 1) /\ EnterKey(t) = LineKey(t, 3)
    BY DEF LineKey, LineRequest, TextKey, EnterKey
  <2>3. tool[t].at > 1 + 1 => Settled(LineKey(t, 1))
    BY <1>1, <2>1 DEF ToolInv, LineFollows
  <2>4. PressEnter(t) /\ tool[t].at > 3 + 1 => Settled(LineKey(t, 3))
    BY <1>1, <2>1 DEF ToolInv, LineFollows
  <2> QED BY <2>2, <2>3, <2>4 DEF TextOk, EnterOk
<1>2. ToolInv => \A t \in Runs : (TextOk(t) => Settled(TextKey(t)))
                                   /\ (PressEnter(t) /\ EnterOk(t) => Settled(EnterKey(t)))
  BY <1>1
<1> QED BY <1>2, ToolInvariant, PTL

-----------------------------------------------------------------------------
\* A step of the tools or the device calls the core once or leaves it alone.
LEMMA ToolStepIsCall ==
  ASSUME ToolInv, [ToolNext]_sendVars
  PROVE  CoreNext \/ KeepsCore
<1>0. now \in Clock
  BY DEF ToolInv
<1>1. ASSUME UNCHANGED coreVars \/ UNCHANGED vars PROVE KeepsCore
  BY <1>1 DEF coreVars, vars, KeepsCore
<1>2. CASE Device(TimePasses)
  BY <1>1, <1>2 DEF Device, TimePasses, Advance
<1>3. CASE Device(Poll) \/ Device(Drain) \/ Device(LocalAbort) \/ Device(SomeTick)
  BY <1>0, <1>3
  DEF Device, Poll, Drain, LocalAbort, SomeTick, During, ble_handle_tick, CoreNext
<1>4. ASSUME NEW t \in Runs, Send(t) \/ Receive(t) \/ GiveUp(t) PROVE KeepsCore
  BY <1>1, <1>4 DEF Send, Receive, GiveUp
<1>5. ASSUME NEW t \in Runs, Deliver(t) PROVE CoreNext
  <2>1. air[t] = "sent" /\ Perform(Script(t)[tool[t].at])
    BY <1>5 DEF Deliver, During
  <2>2. tool[t].at \in 1..Len(Script(t))
    BY <2>1 DEF ToolInv, ToolTypeOK
  <2>3. PICK c \in Lines(t) : tool[t].at = c \/ tool[t].at = c + 1
    BY <2>2, ScriptShape
  <2>4. /\ Script(t)[c] = Stage(LineRequest(t, c))
        /\ Script(t)[c + 1] = Confirm(LineRequest(t, c))
        /\ LineRequest(t, c) \in Requests
    BY ScriptShape
  <2>5. CASE tool[t].at = c
    <3>1. bridge_core_stage(Decoded(LineRequest(t, c)), now)
      BY <2>1, <2>4, <2>5 DEF Perform, Stage, ble_handle_stage
    <3> QED BY <1>0, <2>4, <3>1, DecodedKey DEF CoreNext
  <2>6. CASE tool[t].at = c + 1
    <3>1. ble_handle_confirm(Key(LineRequest(t, c)), now)
      BY <2>1, <2>4, <2>6 DEF Perform, Confirm
    <3>2. Key(LineRequest(t, c)) \in Keys
      BY <2>4 DEF Keys
    <3> QED BY <1>0, <3>1, <3>2 DEF ble_handle_confirm, CoreNext
  <2> QED BY <2>3, <2>5, <2>6
<1>6. CASE UNCHANGED sendVars
  BY <1>1, <1>6 DEF sendVars
<1> QED BY <1>2, <1>3, <1>4, <1>5, <1>6 DEF ToolNext

(***************************************************************************)
(* Below any number of tool runs that lose, repeat and abandon commands    *)
(* the device keeps the promise of BridgeJob: no retry types a text twice. *)
(***************************************************************************)
THEOREM PromiseBelowTools ==
  ToolSpec => ImplementsBridgeJob /\ AtMostOnce /\ CompletedIsWhole
<1>1. ToolInit => Abstract!Init
  BY PromiseInit DEF ToolInit, Init
<1>2. ToolInv /\ [ToolNext]_sendVars => /\ [Abstract!Next]_(Abstract!jobVars)
                                        /\ [AtMostOnceStep]_coreVars
                                        /\ [CompletedStep]_coreVars
  BY ToolStepIsCall, PromiseKept DEF ToolInv
<1> QED
  BY <1>1, <1>2, ToolInvariant, PTL
  DEF ToolSpec, ImplementsBridgeJob, Abstract!Spec, AtMostOnce, CompletedIsWhole
=============================================================================
