----------------------------- MODULE BridgeCore -----------------------------
(***************************************************************************)
(* firmware/core/bridge_core.c: the transaction core.  One job at a time   *)
(* is staged under (owner, id), confirmed by its owner, handed out stroke  *)
(* by stroke, and wiped when it ends.  A ledger of the accepted (owner,    *)
(* id) pairs refuses a second use.  "A single trusted scheduler must       *)
(* serialize all calls" (bridge_core.h): every call is one atomic step.    *)
(*                                                                         *)
(* The callers choose the time argument of every call, so Next lets it be  *)
(* any clock value; BridgeClock and BridgeOutput add the clocks that the   *)
(* firmware really passes.  layout, mode and flags are read only while the *)
(* text is compiled and are not kept in the model's job record.            *)
(***************************************************************************)
EXTENDS Naturals, Sequences

CONSTANTS
  Requests,            \* the stage calls clients make, see Request
  CompileText(_, _, _, _), \* layout, mode, flags, text -> [status, strokes]
  MaxInput,            \* BRIDGE_MAX_INPUT_BYTES
  MaxTTL,              \* BRIDGE_MAX_TTL_MS
  ReplayCapacity,      \* BRIDGE_REPLAY_CAPACITY
  ClockMod             \* 2^32: the range of the millisecond clock

Clock == 0..(ClockMod - 1)

Stroke == (0..255) \X (1..255)     \* <<modifier, usage>>, usage is never 0
NoStroke == <<0, 0>>               \* a wiped entry of strokes[]

Request == [owner : Nat, id : Nat, layout : Nat, mode : Nat, flags : Nat,
            text : Seq(0..255), ttl : Nat]

Key(r) == <<r.owner, r.id>>
Keys == {Key(r) : r \in Requests}
NoKey == <<0, 0>>

Compiled(r) == CompileText(r.layout, r.mode, r.flags, r.text)

ASSUME ConstantsAssumption ==
  /\ MaxInput \in Nat
  /\ MaxTTL \in Nat
  /\ ReplayCapacity \in Nat
  /\ ClockMod \in Nat \ {0}
  /\ Requests \subseteq Request

\* What the compilation of a text promises; module KeyMap models it.
ASSUME CompileAssumption ==
  \A r \in Requests :
    /\ Compiled(r).status \in {"OK", "UTF8", "POLICY", "UNSUPPORTED"}
    /\ Compiled(r).status = "OK" /\ r.text # <<>> =>
         /\ Compiled(r).strokes \in Seq(Stroke)
         /\ Compiled(r).strokes # <<>>

VARIABLES
  state,    \* core->state
  job,      \* the region after core->state that terminate() wipes
  replay,   \* core->replay[0..replay_count), oldest first
  status,   \* what the last call returned
  plan,     \* history: plan[k], the strokes accepted under k
  typed     \* history: typed[k], the strokes handed out under k

coreVars == <<state, job, replay, status, plan, typed>>

NoJob == [owner |-> 0, id |-> 0, staged_at_ms |-> 0, ttl_ms |-> 0,
          strokes |-> <<>>, cursor |-> 0]

JobKey == <<job.owner, job.id>>
Active == state \in {"STAGED", "EXECUTING"}
Ledger == {replay[i] : i \in 1..Len(replay)}

\* Seeded fault: a difference that saturates instead of wrapping.
Elapsed_saturating(now, then) == IF now >= then THEN now - then ELSE 0

\* (uint32_t)(now - then)
Elapsed(now, then) ==
  IF now >= then THEN now - then ELSE now + ClockMod - then

\* bridge_core_init: a power cycle starts with an empty ledger.
CoreInit ==
  /\ state = "EMPTY"
  /\ job = NoJob
  /\ replay = <<>>
  /\ status = "OK"
  /\ plan = [k \in Keys |-> <<>>]
  /\ typed = [k \in Keys |-> <<>>]

-----------------------------------------------------------------------------
\* Seeded faults: the job is not wiped; the ledger is wiped with the job.
terminate_no_wipe(s) ==
  /\ state' = s
  /\ UNCHANGED <<job, replay, plan, typed>>

terminate_all(s) ==
  /\ state' = s
  /\ job' = NoJob
  /\ replay' = <<>>
  /\ UNCHANGED <<plan, typed>>

\* terminate(): wipe the job, keep the replay ledger.
terminate(s) ==
  /\ state' = s
  /\ job' = NoJob
  /\ UNCHANGED <<replay, plan, typed>>

\* A call that only returns a status.
Return(st) ==
  /\ status' = st
  /\ UNCHANGED <<state, job, replay, plan, typed>>

BadArgument(r) ==
  \/ r.owner = 0
  \/ r.id = 0
  \/ r.layout \notin {1, 2}
  \/ r.mode \notin {1, 2}
  \/ r.ttl \notin 1..MaxTTL

\* Flags other than ALLOW_LF (1) and ALLOW_TAB (2), or any in PASSWORD mode.
BadPolicy(r) == r.flags > 3 \/ (r.mode = 1 /\ r.flags # 0)

\* Seeded fault: the replay ledger is not consulted.
StageVerdict_no_replay(r) ==
  IF Len(r.text) \notin 1..MaxInput THEN "LIMIT"
  ELSE IF BadArgument(r) THEN "ARGUMENT"
  ELSE IF BadPolicy(r) THEN "POLICY"
  ELSE IF Len(replay) = ReplayCapacity THEN "LIMIT"
  ELSE Compiled(r).status

\* The checks of bridge_core_stage in the order of its early returns.
StageVerdict(r) ==
  IF Len(r.text) \notin 1..MaxInput THEN "LIMIT"
  ELSE IF BadArgument(r) THEN "ARGUMENT"
  ELSE IF BadPolicy(r) THEN "POLICY"
  ELSE IF Key(r) \in Ledger THEN "REPLAY"
  ELSE IF Len(replay) = ReplayCapacity THEN "LIMIT"
  ELSE Compiled(r).status

StageAccepted(r, now) ==
  /\ state' = "STAGED"
  /\ job' = [owner |-> r.owner, id |-> r.id, staged_at_ms |-> now,
             ttl_ms |-> r.ttl, strokes |-> Compiled(r).strokes, cursor |-> 0]
  /\ replay' = Append(replay, Key(r))
  /\ plan' = [plan EXCEPT ![Key(r)] = Compiled(r).strokes]
  /\ UNCHANGED typed

bridge_core_stage(r, now) ==
  \/ Active /\ Return("BUSY")
  \/ /\ ~Active
     /\ status' = StageVerdict(r)
     /\ \/ StageVerdict(r) # "OK" /\ terminate("REJECTED")
        \/ StageVerdict(r) = "OK" /\ StageAccepted(r, now)

\* Seeded faults: compare with an absolute deadline; one millisecond late; a
\* job that is being typed expires too.
Expired_absolute(now) ==
  state = "STAGED" /\ now >= job.staged_at_ms + job.ttl_ms

Expired_late(now) ==
  state = "STAGED" /\ Elapsed(now, job.staged_at_ms) > job.ttl_ms

Expired_executing(now) ==
  Active /\ Elapsed(now, job.staged_at_ms) >= job.ttl_ms

Expired(now) ==
  state = "STAGED" /\ Elapsed(now, job.staged_at_ms) >= job.ttl_ms

bridge_core_tick(now) ==
  \/ Expired(now) /\ terminate("EXPIRED") /\ status' = "EXPIRED"
  \/ ~Expired(now) /\ Return("OK")

bridge_core_confirm(owner, id, now) ==
  \/ state # "STAGED" /\ Return("STATE")
  \/ state = "STAGED" /\ owner # job.owner /\ Return("OWNER")
  \/ state = "STAGED" /\ owner = job.owner /\ id # job.id /\ Return("ID")
  \/ /\ state = "STAGED"
     /\ <<owner, id>> = JobKey
     /\ \/ Expired(now) /\ bridge_core_tick(now)
        \/ /\ ~Expired(now)
           /\ state' = "EXECUTING"
           /\ status' = "OK"
           /\ UNCHANGED <<job, replay, plan, typed>>

bridge_core_cancel(owner, id) ==
  \/ ~Active /\ Return("STATE")
  \/ Active /\ owner # job.owner /\ Return("OWNER")
  \/ Active /\ owner = job.owner /\ id # job.id /\ Return("ID")
  \/ Active /\ <<owner, id>> = JobKey /\ terminate("CANCELLED") /\ status' = "OK"

\* Trusted local abort: whatever the state, it becomes CANCELLED.
bridge_core_abort ==
  terminate("CANCELLED") /\ UNCHANGED status

\* Seeded fault: the cursor is advanced before it is used.
NextStroke_late ==
  job.strokes[IF job.cursor + 1 < Len(job.strokes) THEN job.cursor + 2
              ELSE job.cursor + 1]

\* The stroke that the next call hands out.
NextStroke == job.strokes[job.cursor + 1]

HandOut ==
  /\ job' = [job EXCEPT !.strokes[job.cursor + 1] = NoStroke, !.cursor = @ + 1]
  /\ typed' = [typed EXCEPT ![JobKey] = Append(@, NextStroke)]
  /\ status' = "OK"
  /\ UNCHANGED <<state, replay, plan>>

\* Seeded faults: the last stroke is forgotten; a staged job is handed out.
Exhausted_early == job.cursor + 1 >= Len(job.strokes)
Executing_active == Active

Exhausted == job.cursor = Len(job.strokes)
Executing == state = "EXECUTING"

bridge_core_next(now) ==
  \/ Expired(now) /\ bridge_core_tick(now)
  \/ ~Expired(now) /\ ~Executing /\ Return("STATE")
  \/ ~Expired(now) /\ Executing /\ Exhausted /\ terminate("COMPLETED") /\ status' = "DONE"
  \/ ~Expired(now) /\ Executing /\ ~Exhausted /\ HandOut

CoreNext ==
  \/ \E r \in Requests, now \in Clock : bridge_core_stage(r, now)
  \/ \E k \in Keys, now \in Clock : bridge_core_confirm(k[1], k[2], now)
  \/ \E k \in Keys : bridge_core_cancel(k[1], k[2])
  \/ \E now \in Clock : bridge_core_tick(now)
  \/ \E now \in Clock : bridge_core_next(now)
  \/ bridge_core_abort

CoreSpec == CoreInit /\ [][CoreNext]_coreVars

-----------------------------------------------------------------------------
States == {"EMPTY", "STAGED", "EXECUTING", "COMPLETED", "CANCELLED",
           "EXPIRED", "REJECTED"}
Statuses == {"OK", "DONE", "ARGUMENT", "STATE", "BUSY", "LIMIT", "UTF8",
             "UNSUPPORTED", "POLICY", "OWNER", "ID", "EXPIRED", "REPLAY"}

Job == [owner : Nat, id : Nat, staged_at_ms : Clock, ttl_ms : Nat,
        strokes : Seq(Stroke \cup {NoStroke}), cursor : Nat]

\* Every variable has its type; a staged entry fits the clock's range.
TypeOK ==
  /\ state \in States
  /\ job \in Job
  /\ replay \in Seq(Keys)
  /\ status \in Statuses
  /\ plan \in [Keys -> Seq(Stroke)]
  /\ typed \in [Keys -> Seq(Stroke)]

(***************************************************************************)
(* Secrets do not outlive their use: once a job has ended, by whatever     *)
(* path, nothing of it is left in memory, and while one is being typed the *)
(* strokes already handed out are wiped (terminate, bridge_core_next).     *)
(***************************************************************************)
NoResidue ==
  /\ ~Active => job = NoJob
  /\ \A i \in 1..Len(job.strokes) :
       (job.strokes[i] = NoStroke) <=> (i <= job.cursor)

(***************************************************************************)
(* The ledger is exact: it lists each pair that was ever accepted once, no *)
(* rejected pair, and never more than its capacity (bridge_core_stage      *)
(* appends only after the last check has passed).                          *)
(***************************************************************************)
LedgerExact ==
  /\ Ledger = {k \in Keys : plan[k] # <<>>}
  /\ \A i, j \in 1..Len(replay) : replay[i] = replay[j] => i = j
  /\ Len(replay) <= ReplayCapacity

(***************************************************************************)
(* The strokes handed out under a pair are exactly the first ones of the   *)
(* text accepted under that pair, and the strokes still stored are the     *)
(* rest of it, across every interleaving of stages, cancels, expiries and  *)
(* aborts.                                                                 *)
(***************************************************************************)
TypedFollowsPlan ==
  /\ \A k \in Keys :
       /\ Len(typed[k]) <= Len(plan[k])
       /\ \A i \in 1..Len(typed[k]) : typed[k][i] = plan[k][i]
  /\ Active =>
       /\ JobKey \in Ledger
       /\ Len(job.strokes) = Len(plan[JobKey])
       /\ Len(typed[JobKey]) = job.cursor
       /\ \A i \in (job.cursor + 1)..Len(job.strokes) :
            job.strokes[i] = plan[JobKey][i]
  /\ state = "STAGED" => job.cursor = 0

(***************************************************************************)
(* At most once: what was accepted under a pair is never replaced, and     *)
(* what was handed out under it is never taken back or started again.      *)
(***************************************************************************)
AtMostOnceStep ==
  \A k \in Keys :
    /\ plan[k] # <<>> => plan'[k] = plan[k]
    /\ Len(typed'[k]) >= Len(typed[k])

AtMostOnce == [][AtMostOnceStep]_coreVars

\* bridge_core_next reports COMPLETED only for a job whose whole plan was
\* handed out, and no other call ever does.
CompletedStep ==
  state # "COMPLETED" /\ state' = "COMPLETED" =>
    state = "EXECUTING" /\ typed[JobKey] = plan[JobKey]

CompletedIsWhole == [][CompletedStep]_coreVars

Phase ==
  CASE state = "STAGED" -> "offered"
    [] state = "EXECUTING" -> "running"
    [] state = "COMPLETED" -> "completed"
    [] OTHER -> "idle"

Abstract == INSTANCE BridgeJob WITH phase <- Phase, current <- JobKey

\* The core implements the promise stated in BridgeJob.
ImplementsBridgeJob == Abstract!Spec
=============================================================================
