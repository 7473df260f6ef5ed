-------------------------- MODULE BridgeCoreProofs --------------------------
(***************************************************************************)
(* The safety of the transaction core, for every set of requests, every    *)
(* compilation of texts, every ledger capacity and every clock range.      *)
(*                                                                         *)
(* CoreInv, the conjunction of the invariants the runs check, is inductive *)
(* as it stands: LedgerExact ties the ledger to what was accepted, and     *)
(* TypedFollowsPlan ties the strokes in memory to both.  Every operation   *)
(* of the core ends in one of five ways (KeepsCore, terminate,             *)
(* StageAccepted, an accepted confirmation, HandOut), so the proof has one *)
(* lemma for each.                                                         *)
(***************************************************************************)
EXTENDS BridgeCore, TLAPS

\* The inductive invariant.
CoreInv == TypeOK /\ NoResidue /\ LedgerExact /\ TypedFollowsPlan

KeepsCore == UNCHANGED <<state, job, replay, plan, typed>>

Confirmed == state = "STAGED" /\ state' = "EXECUTING" /\ UNCHANGED <<job, replay, plan, typed>>

Ended == {"COMPLETED", "CANCELLED", "EXPIRED", "REJECTED"}

\* The empty job is well typed.
LEMMA NoJobType == NoJob \in Job
  BY ConstantsAssumption DEF NoJob, Job, Clock, Stroke, NoStroke

\* A wiped entry is told apart from a stroke: usages are never 0.
LEMMA NoStrokeApart == NoStroke \notin Stroke
  BY DEF NoStroke, Stroke

\* A step that leaves the core alone keeps the invariant.
LEMMA KeepsCoreInv ==
  ASSUME CoreInv, KeepsCore, status' \in Statuses
  PROVE  CoreInv'
<1>1. state' = state /\ job' = job /\ replay' = replay /\ plan' = plan /\ typed' = typed
  BY DEF KeepsCore
<1>2. TypeOK'
  BY <1>1 DEF CoreInv, TypeOK
<1>3. NoResidue'
  BY <1>1 DEF CoreInv, NoResidue, Active
<1>4. LedgerExact'
  BY <1>1 DEF CoreInv, LedgerExact, Ledger
<1>5. TypedFollowsPlan'
  BY <1>1 DEF CoreInv, TypedFollowsPlan, Active, Ledger, JobKey
<1> QED BY <1>2, <1>3, <1>4, <1>5 DEF CoreInv

\* Ending a job keeps the invariant: the job is wiped, the ledger is not.
LEMMA TerminateInv ==
  ASSUME CoreInv, NEW s \in Ended, terminate(s), status' \in Statuses
  PROVE  CoreInv'
<1>1. /\ state' = s /\ job' = NoJob
      /\ UNCHANGED <<replay, plan, typed>>
  BY DEF terminate
<1>2. TypeOK'
  BY <1>1, NoJobType DEF CoreInv, TypeOK, States, Ended
<1>3. ~Active'
  BY <1>1 DEF Active, Ended
<1>4. NoResidue'
  BY <1>1, <1>3 DEF NoResidue, NoJob
<1>5. LedgerExact'
  BY <1>1 DEF CoreInv, LedgerExact, Ledger
<1>6. TypedFollowsPlan'
  BY <1>1, <1>3 DEF CoreInv, TypedFollowsPlan, NoJob, Ended
<1> QED BY <1>2, <1>4, <1>5, <1>6 DEF CoreInv

\* What a verdict of OK means for the request.
LEMMA VerdictOk ==
  ASSUME CoreInv, NEW r \in Requests, StageVerdict(r) = "OK"
  PROVE  /\ Key(r) \notin Ledger
         /\ Len(replay) # ReplayCapacity
         /\ Compiled(r).strokes \in Seq(Stroke)
         /\ Compiled(r).strokes # <<>>
         /\ r.ttl \in 1..MaxTTL
<1>1. Len(r.text) \in 1..MaxInput /\ ~BadArgument(r) /\ Key(r) \notin Ledger
      /\ Len(replay) # ReplayCapacity /\ Compiled(r).status = "OK"
  BY DEF StageVerdict
<1>2. r.text # <<>>
  BY <1>1
<1> QED BY <1>1, <1>2, CompileAssumption DEF BadArgument

\* Every verdict is a status.
LEMMA VerdictType ==
  ASSUME NEW r \in Requests PROVE StageVerdict(r) \in Statuses
  BY CompileAssumption DEF StageVerdict, Statuses

\* Accepting a request keeps the invariant.
LEMMA StageAcceptedInv ==
  ASSUME CoreInv, NEW r \in Requests, NEW t \in Clock, ~Active,
         StageVerdict(r) = "OK", StageAccepted(r, t), status' \in Statuses
  PROVE  CoreInv'
<1> DEFINE k == Key(r)
           p == Compiled(r).strokes
<1>1. /\ k \notin Ledger /\ Len(replay) # ReplayCapacity
      /\ p \in Seq(Stroke) /\ p # <<>>
  BY VerdictOk
<1>2. r \in Request /\ k \in Keys
  BY ConstantsAssumption DEF Keys
<1>3. /\ state' = "STAGED"
      /\ job' = [owner |-> r.owner, id |-> r.id, staged_at_ms |-> t,
                 ttl_ms |-> r.ttl, strokes |-> p, cursor |-> 0]
      /\ replay' = Append(replay, k)
      /\ plan' = [plan EXCEPT ![k] = p]
      /\ typed' = typed
  BY DEF StageAccepted
<1>4. plan[k] = <<>> /\ Len(typed[k]) = 0
  <2>1. plan[k] = <<>>
    BY <1>1, <1>2 DEF CoreInv, LedgerExact
  <2>2. Len(typed[k]) <= Len(plan[k]) /\ Len(typed[k]) \in Nat
    BY <1>2 DEF CoreInv, TypedFollowsPlan, TypeOK
  <2> QED BY <2>1, <2>2
<1>5. JobKey' = k /\ Len(p) \in Nat \ {0}
  <2>1. JobKey' = k
    BY <1>3 DEF JobKey, Key
  <2>2. Len(p) \in Nat /\ Len(p) # 0
    BY <1>1
  <2> QED BY <2>1, <2>2
<1>6. TypeOK'
  <2>1. job' \in Job
    <3>1. p \in Seq(Stroke \cup {NoStroke})
      BY <1>1
    <3> QED BY <1>2, <1>3, <3>1 DEF Job, Request
  <2>2. replay' \in Seq(Keys)
    BY <1>2, <1>3 DEF CoreInv, TypeOK
  <2>3. plan' \in [Keys -> Seq(Stroke)]
    BY <1>1, <1>2, <1>3 DEF CoreInv, TypeOK
  <2> QED BY <1>3, <2>1, <2>2, <2>3 DEF CoreInv, TypeOK, States
<1>7. NoResidue'
  <2>1. Active'
    BY <1>3 DEF Active
  <2>2. \A i \in 1..Len(p) : p[i] # NoStroke
    BY <1>1, NoStrokeApart
  <2>3. job'.strokes = p /\ job'.cursor = 0
    BY <1>3
  <2> QED BY <1>5, <2>1, <2>2, <2>3 DEF NoResidue
<1>8. LedgerExact'
  <2>1. /\ Len(replay') = Len(replay) + 1
        /\ replay'[Len(replay) + 1] = k
        /\ \A i \in 1..Len(replay) : replay'[i] = replay[i]
    BY <1>2, <1>3 DEF CoreInv, TypeOK
  <2>2. Len(replay) \in Nat
    BY DEF CoreInv, TypeOK
  <2>3. Ledger' = Ledger \cup {k}
    BY <2>1, <2>2 DEF Ledger
  <2>4. {x \in Keys : plan'[x] # <<>>} = {x \in Keys : plan[x] # <<>>} \cup {k}
    BY <1>1, <1>2, <1>3 DEF CoreInv, TypeOK
  <2>5. Ledger' = {x \in Keys : plan'[x] # <<>>}
    BY <2>3, <2>4 DEF CoreInv, LedgerExact
  <2>6. \A i, j \in 1..Len(replay') : replay'[i] = replay'[j] => i = j
    <3>1. \A i \in 1..Len(replay) : replay'[i] # k
      BY <1>1, <2>1 DEF Ledger
    <3> QED BY <2>1, <2>2, <3>1 DEF CoreInv, LedgerExact
  <2>7. Len(replay') <= ReplayCapacity
    BY <1>1, <2>1, <2>2, ConstantsAssumption DEF CoreInv, LedgerExact
  <2> QED BY <2>5, <2>6, <2>7 DEF LedgerExact
<1>9. TypedFollowsPlan'
  <2>1. \A x \in Keys : x # k => plan'[x] = plan[x]
    BY <1>3 DEF CoreInv, TypeOK
  <2>2. plan'[k] = p
    BY <1>2, <1>3 DEF CoreInv, TypeOK
  <2>3. ASSUME NEW x \in Keys
        PROVE  /\ Len(typed'[x]) <= Len(plan'[x])
               /\ \A i \in 1..Len(typed'[x]) : typed'[x][i] = plan'[x][i]
    <3>1. CASE x = k
      BY <1>3, <1>4, <1>5, <2>2, <3>1
    <3>2. CASE x # k
      BY <1>3, <2>1, <3>2 DEF CoreInv, TypedFollowsPlan
    <3> QED BY <3>1, <3>2
  <2>4. JobKey' \in Ledger'
    <3>1. plan'[k] # <<>>
      BY <1>1, <2>2
    <3> QED BY <1>2, <1>5, <1>8, <3>1 DEF LedgerExact
  <2>5. /\ Len(job'.strokes) = Len(plan'[JobKey'])
        /\ Len(typed'[JobKey']) = job'.cursor
        /\ \A i \in (job'.cursor + 1)..Len(job'.strokes) :
             job'.strokes[i] = plan'[JobKey'][i]
        /\ job'.cursor = 0
    BY <1>3, <1>4, <1>5, <2>2
  <2> QED BY <2>3, <2>4, <2>5 DEF TypedFollowsPlan
<1> QED BY <1>6, <1>7, <1>8, <1>9 DEF CoreInv

\* An accepted confirmation keeps the invariant.
LEMMA ConfirmedInv ==
  ASSUME CoreInv, Confirmed, status' \in Statuses
  PROVE  CoreInv'
<1>1. Active /\ Active'
  BY DEF Confirmed, Active
<1>2. /\ state' = "EXECUTING"
      /\ job' = job /\ replay' = replay /\ plan' = plan /\ typed' = typed
  BY DEF Confirmed
<1>3. TypeOK'
  BY <1>2 DEF CoreInv, TypeOK, States
<1>4. NoResidue'
  BY <1>1, <1>2 DEF CoreInv, NoResidue
<1>5. LedgerExact'
  BY <1>2 DEF CoreInv, LedgerExact, Ledger
<1>6. TypedFollowsPlan'
  BY <1>1, <1>2 DEF CoreInv, TypedFollowsPlan, Ledger, JobKey
<1> QED BY <1>3, <1>4, <1>5, <1>6 DEF CoreInv

\* The open job's key is one of the keys, and its cursor is within it.
LEMMA OpenJob ==
  ASSUME CoreInv, Active
  PROVE  /\ JobKey \in Keys
         /\ plan[JobKey] \in Seq(Stroke) /\ typed[JobKey] \in Seq(Stroke)
         /\ job.strokes \in Seq(Stroke \cup {NoStroke})
         /\ job.cursor \in Nat /\ job.cursor <= Len(job.strokes)
         /\ Len(job.strokes) = Len(plan[JobKey])
         /\ Len(typed[JobKey]) = job.cursor
<1>1. JobKey \in Keys
  BY DEF CoreInv, TypedFollowsPlan, LedgerExact
<1> QED BY <1>1 DEF CoreInv, TypedFollowsPlan, TypeOK, Job

\* Handing out a stroke keeps the invariant.
LEMMA HandOutInv ==
  ASSUME CoreInv, Executing, ~Exhausted, HandOut, status' \in Statuses
  PROVE  /\ CoreInv'
         /\ typed' = [typed EXCEPT ![JobKey] =
                        Append(typed[JobKey], plan[JobKey][job.cursor + 1])]
<1> DEFINE n == job.cursor + 1
           k == JobKey
<1>1. Active
  BY DEF Executing, Active
<1>2. /\ k \in Keys /\ plan[k] \in Seq(Stroke) /\ typed[k] \in Seq(Stroke)
      /\ job.strokes \in Seq(Stroke \cup {NoStroke})
      /\ n \in 1..Len(job.strokes) /\ job.cursor \in Nat /\ job.cursor <= Len(job.strokes)
      /\ Len(job.strokes) \in Nat
      /\ Len(job.strokes) = Len(plan[k]) /\ Len(typed[k]) = job.cursor
  BY <1>1, OpenJob DEF Exhausted
<1>3. job.strokes[n] = plan[k][n]
  BY <1>1, <1>2 DEF CoreInv, TypedFollowsPlan
<1>4. /\ job' = [job EXCEPT !.strokes[n] = NoStroke, !.cursor = n]
      /\ typed' = [typed EXCEPT ![k] = Append(typed[k], plan[k][n])]
      /\ state' = state /\ replay' = replay /\ plan' = plan
  BY <1>2, <1>3 DEF HandOut, NextStroke
<1>5. job \in Job
  BY DEF CoreInv, TypeOK
<1>6. /\ job'.strokes = [job.strokes EXCEPT ![n] = NoStroke]
      /\ job'.cursor = n
      /\ job'.owner = job.owner /\ job'.id = job.id
      /\ job'.staged_at_ms = job.staged_at_ms /\ job'.ttl_ms = job.ttl_ms
      /\ DOMAIN job' = DOMAIN job
  BY <1>4, <1>5 DEF Job
<1>7. /\ job'.strokes \in Seq(Stroke \cup {NoStroke})
      /\ Len(job'.strokes) = Len(job.strokes)
      /\ job'.strokes[n] = NoStroke
      /\ \A i \in 1..Len(job.strokes) : i # n => job'.strokes[i] = job.strokes[i]
  BY <1>2, <1>6
<1>8. JobKey' = k
  BY <1>6 DEF JobKey
<1>9. /\ typed'[k] \in Seq(Stroke)
      /\ Len(typed'[k]) = n
      /\ typed'[k][n] = plan[k][n]
      /\ \A i \in 1..job.cursor : typed'[k][i] = typed[k][i]
  <2>1. typed'[k] = Append(typed[k], plan[k][n])
    BY <1>2, <1>4 DEF CoreInv, TypeOK
  <2>2. plan[k][n] \in Stroke
    BY <1>2
  <2> QED BY <1>2, <2>1, <2>2
<1>10. TypeOK'
  <2>1. job' \in Job
    <3>1. job' = [owner |-> job.owner, id |-> job.id, staged_at_ms |-> job.staged_at_ms,
                  ttl_ms |-> job.ttl_ms, strokes |-> job'.strokes, cursor |-> n]
      BY <1>4, <1>5, <1>6 DEF Job
    <3> QED BY <1>2, <1>5, <1>7, <3>1 DEF Job
  <2>2. typed' \in [Keys -> Seq(Stroke)]
    <3>1. Append(typed[k], plan[k][n]) \in Seq(Stroke)
      BY <1>2
    <3> QED BY <1>2, <1>4, <3>1 DEF CoreInv, TypeOK
  <2> QED BY <1>4, <2>1, <2>2 DEF CoreInv, TypeOK
<1>11. NoResidue'
  <2>1. \A i \in 1..Len(job'.strokes) : (job'.strokes[i] = NoStroke) <=> (i <= n)
    BY <1>2, <1>7, SMTT(60) DEF CoreInv, NoResidue
  <2> QED BY <1>1, <1>4, <1>6, <2>1 DEF NoResidue, Active
<1>12. LedgerExact'
  BY <1>4 DEF CoreInv, LedgerExact, Ledger
<1>13. TypedFollowsPlan'
  <2>1. ASSUME NEW x \in Keys
        PROVE  /\ Len(typed'[x]) <= Len(plan'[x])
               /\ \A i \in 1..Len(typed'[x]) : typed'[x][i] = plan'[x][i]
    <3>1. CASE x = k
      <4>1. \A i \in 1..job.cursor : typed[k][i] = plan[k][i]
        BY <1>2 DEF CoreInv, TypedFollowsPlan
      <4> QED BY <1>2, <1>4, <1>9, <3>1, <4>1
    <3>2. CASE x # k
      <4>1. typed'[x] = typed[x]
        BY <1>4, <3>2 DEF CoreInv, TypeOK
      <4> QED BY <1>4, <4>1 DEF CoreInv, TypedFollowsPlan
    <3> QED BY <3>1, <3>2
  <2>2. JobKey' \in Ledger'
    BY <1>1, <1>4, <1>8 DEF CoreInv, TypedFollowsPlan, Ledger
  <2>3. /\ Len(job'.strokes) = Len(plan'[JobKey'])
        /\ Len(typed'[JobKey']) = job'.cursor
    BY <1>2, <1>4, <1>6, <1>7, <1>8, <1>9
  <2>4. \A i \in (job'.cursor + 1)..Len(job'.strokes) : job'.strokes[i] = plan'[JobKey'][i]
    <3>1. \A i \in n..Len(job.strokes) : job.strokes[i] = plan[k][i]
      BY <1>1 DEF CoreInv, TypedFollowsPlan
    <3>2. SUFFICES ASSUME NEW i \in (n + 1)..Len(job.strokes)
                   PROVE  job'.strokes[i] = plan[k][i]
      BY <1>4, <1>6, <1>7, <1>8
    <3>3. i \in n..Len(job.strokes) /\ i # n /\ i \in 1..Len(job.strokes)
      BY <1>2, <3>2
    <3> QED BY <1>7, <3>1, <3>3
  <2>5. state' # "STAGED"
    BY <1>4 DEF Executing
  <2> QED BY <2>1, <2>2, <2>3, <2>4, <2>5 DEF TypedFollowsPlan
<1> QED BY <1>4, <1>10, <1>11, <1>12, <1>13 DEF CoreInv

-----------------------------------------------------------------------------
\* The ways in which a call can change the core.
Outcome ==
  \/ KeepsCore
  \/ \E s \in Ended \ {"COMPLETED"} : terminate(s)
  \/ \E r \in Requests, t \in Clock :
       ~Active /\ StageVerdict(r) = "OK" /\ StageAccepted(r, t)
  \/ Confirmed
  \/ Executing /\ Exhausted /\ terminate("COMPLETED")
  \/ Executing /\ ~Exhausted /\ HandOut

\* bridge_core_tick, also when confirm and next call it: expiry or no change.
LEMMA TickOutcome ==
  ASSUME NEW t \in Clock, bridge_core_tick(t)
  PROVE  Outcome /\ status' \in Statuses
<1>1. CASE Expired(t) /\ terminate("EXPIRED") /\ status' = "EXPIRED"
  BY <1>1 DEF Outcome, Ended, Statuses
<1>2. CASE ~Expired(t) /\ Return("OK")
  BY <1>2 DEF Outcome, KeepsCore, Return, Statuses
<1> QED BY <1>1, <1>2 DEF bridge_core_tick

\* Every call of the core ends in one of the outcomes.
LEMMA CallOutcome ==
  ASSUME CoreInv, CoreNext
  PROVE  Outcome /\ status' \in Statuses
<1>1. ASSUME NEW r \in Requests, NEW t \in Clock, bridge_core_stage(r, t)
      PROVE  Outcome /\ status' \in Statuses
  <2>1. CASE Active /\ Return("BUSY")
    BY <2>1 DEF Outcome, KeepsCore, Return, Statuses
  <2>2. CASE ~Active
    <3>1. status' \in Statuses
      BY <1>1, <2>2, VerdictType DEF bridge_core_stage
    <3>2. CASE StageVerdict(r) # "OK" /\ terminate("REJECTED")
      BY <3>1, <3>2 DEF Outcome, Ended
    <3>3. CASE StageVerdict(r) = "OK" /\ StageAccepted(r, t)
      BY <2>2, <3>1, <3>3 DEF Outcome
    <3> QED BY <1>1, <2>2, <3>2, <3>3 DEF bridge_core_stage
  <2> QED BY <1>1, <2>1, <2>2 DEF bridge_core_stage
<1>2. ASSUME NEW o, NEW i, NEW t \in Clock, bridge_core_confirm(o, i, t)
      PROVE  Outcome /\ status' \in Statuses
  <2>1. CASE \E st \in Statuses : Return(st)
    BY <2>1 DEF Outcome, KeepsCore, Return
  <2>2. CASE bridge_core_tick(t)
    BY <2>2, TickOutcome
  <2>3. CASE Confirmed /\ status' = "OK"
    BY <2>3 DEF Outcome, Statuses
  <2> QED BY <1>2, <2>1, <2>2, <2>3 DEF bridge_core_confirm, Confirmed, Statuses
<1>3. ASSUME NEW o, NEW i, bridge_core_cancel(o, i)
      PROVE  Outcome /\ status' \in Statuses
  <2>1. CASE \E st \in Statuses : Return(st)
    BY <2>1 DEF Outcome, KeepsCore, Return
  <2>2. CASE terminate("CANCELLED") /\ status' = "OK"
    BY <2>2 DEF Outcome, Ended, Statuses
  <2> QED BY <1>3, <2>1, <2>2 DEF bridge_core_cancel, Statuses
<1>4. ASSUME NEW t \in Clock, bridge_core_next(t)
      PROVE  Outcome /\ status' \in Statuses
  <2>1. CASE bridge_core_tick(t)
    BY <2>1, TickOutcome
  <2>2. CASE Return("STATE")
    BY <2>2 DEF Outcome, KeepsCore, Return, Statuses
  <2>3. CASE Executing /\ Exhausted /\ terminate("COMPLETED") /\ status' = "DONE"
    BY <2>3 DEF Outcome, Statuses
  <2>4. CASE Executing /\ ~Exhausted /\ HandOut
    <3>1. status' = "OK"
      BY <2>4 DEF HandOut
    <3> QED BY <2>4, <3>1 DEF Outcome, Statuses
  <2> QED BY <1>4, <2>1, <2>2, <2>3, <2>4 DEF bridge_core_next
<1>5. CASE bridge_core_abort
  BY <1>5 DEF bridge_core_abort, Outcome, Ended, CoreInv, TypeOK
<1> QED BY <1>1, <1>2, <1>3, <1>4, <1>5, TickOutcome DEF CoreNext

\* CoreInv is inductive.
LEMMA CoreInvStep ==
  ASSUME CoreInv, [CoreNext]_coreVars
  PROVE  CoreInv'
<1>1. CASE CoreNext
  <2>1. Outcome /\ status' \in Statuses
    BY <1>1, CallOutcome
  <2>2. CASE KeepsCore
    BY <2>1, <2>2, KeepsCoreInv
  <2>3. ASSUME NEW s \in Ended \ {"COMPLETED"}, terminate(s) PROVE CoreInv'
    BY <2>1, <2>3, TerminateInv
  <2>4. ASSUME NEW r \in Requests, NEW t \in Clock,
               ~Active, StageVerdict(r) = "OK", StageAccepted(r, t)
        PROVE  CoreInv'
    BY <2>1, <2>4, StageAcceptedInv
  <2>5. CASE Confirmed
    BY <2>1, <2>5, ConfirmedInv
  <2>6. CASE terminate("COMPLETED")
    <3>1. "COMPLETED" \in Ended
      BY DEF Ended
    <3> QED BY <2>1, <2>6, <3>1, TerminateInv
  <2>7. CASE Executing /\ ~Exhausted /\ HandOut
    BY <2>1, <2>7, HandOutInv
  <2> QED BY <2>1, <2>2, <2>3, <2>4, <2>5, <2>6, <2>7 DEF Outcome
<1>2. CASE UNCHANGED coreVars
  <2>1. KeepsCore /\ status' \in Statuses
    BY <1>2 DEF coreVars, KeepsCore, CoreInv, TypeOK
  <2> QED BY <2>1, KeepsCoreInv
<1> QED BY <1>1, <1>2

\* The power-on state satisfies the invariant.
LEMMA CoreInvInit == CoreInit => CoreInv
<1> SUFFICES ASSUME CoreInit PROVE CoreInv
  OBVIOUS
<1>1. ~Active
  BY DEF CoreInit, Active
<1>2. TypeOK
  BY NoJobType DEF CoreInit, TypeOK, States, Statuses
<1>3. NoResidue
  BY <1>1 DEF CoreInit, NoResidue, NoJob
<1>4. LedgerExact
  BY ConstantsAssumption DEF CoreInit, LedgerExact, Ledger
<1>5. TypedFollowsPlan
  BY <1>1 DEF CoreInit, TypedFollowsPlan
<1> QED BY <1>2, <1>3, <1>4, <1>5 DEF CoreInv

(***************************************************************************)
(* The core is well typed, leaves no residue of an ended job, keeps an     *)
(* exact ledger, and has typed a prefix of what was accepted: always.      *)
(***************************************************************************)
THEOREM CoreSafe == CoreSpec => []CoreInv
<1>1. CoreInv /\ [CoreNext]_coreVars => CoreInv'
  BY CoreInvStep
<1> QED BY <1>1, CoreInvInit, PTL DEF CoreSpec

\* The variables of the core keep their types.
THEOREM TypeCorrect == CoreSpec => []TypeOK
<1>1. CoreInv => TypeOK
  BY DEF CoreInv
<1> QED BY <1>1, CoreSafe, PTL

\* Nothing of a job is left in memory once it has ended (terminate).
THEOREM NoResidueAlways == CoreSpec => []NoResidue
<1>1. CoreInv => NoResidue
  BY DEF CoreInv
<1> QED BY <1>1, CoreSafe, PTL

\* The ledger lists each accepted pair once and nothing else.
THEOREM LedgerAlwaysExact == CoreSpec => []LedgerExact
<1>1. CoreInv => LedgerExact
  BY DEF CoreInv
<1> QED BY <1>1, CoreSafe, PTL

\* What was handed out under a pair is a prefix of what was accepted under it.
THEOREM TypedAlwaysFollowsPlan == CoreSpec => []TypedFollowsPlan
<1>1. CoreInv => TypedFollowsPlan
  BY DEF CoreInv
<1> QED BY <1>1, CoreSafe, PTL

-----------------------------------------------------------------------------
\* A step of the core replaces no accepted plan and takes back no stroke.
LEMMA AtMostOnceLemma ==
  ASSUME CoreInv, CoreNext
  PROVE  AtMostOnceStep
<1>1. Outcome /\ status' \in Statuses
  BY CallOutcome
<1>2. ASSUME plan' = plan, typed' = typed PROVE AtMostOnceStep
  <2>1. \A k \in Keys : Len(typed[k]) \in Nat
    BY DEF CoreInv, TypeOK
  <2> QED BY <1>2, <2>1 DEF AtMostOnceStep
<1>3. ASSUME NEW r \in Requests, NEW t \in Clock,
             StageVerdict(r) = "OK", StageAccepted(r, t)
      PROVE  AtMostOnceStep
  <2>1. plan' = [plan EXCEPT ![Key(r)] = Compiled(r).strokes] /\ typed' = typed
    BY <1>3 DEF StageAccepted
  <2>2. Key(r) \notin Ledger /\ Key(r) \in Keys
    BY <1>3, VerdictOk DEF Keys
  <2>3. plan[Key(r)] = <<>>
    BY <2>2 DEF CoreInv, LedgerExact
  <2>4. \A k \in Keys : k # Key(r) => plan'[k] = plan[k]
    BY <2>1 DEF CoreInv, TypeOK
  <2>5. \A k \in Keys : Len(typed'[k]) >= Len(typed[k])
    <3>1. \A k \in Keys : Len(typed[k]) \in Nat
      BY DEF CoreInv, TypeOK
    <3> QED BY <2>1, <3>1
  <2> QED BY <2>3, <2>4, <2>5 DEF AtMostOnceStep
<1>4. CASE Executing /\ ~Exhausted /\ HandOut
  <2>1. plan' = plan
    BY <1>4 DEF HandOut
  <2>2. typed' = [typed EXCEPT ![JobKey] =
                    Append(typed[JobKey], plan[JobKey][job.cursor + 1])]
    BY <1>1, <1>4, HandOutInv
  <2>3. ASSUME NEW k \in Keys PROVE Len(typed'[k]) >= Len(typed[k])
    <3>1. typed \in [Keys -> Seq(Stroke)]
      BY DEF CoreInv, TypeOK
    <3>2. typed[k] \in Seq(Stroke) /\ Len(typed[k]) \in Nat
      BY <3>1
    <3>3. CASE k = JobKey
      <4>1. typed'[k] = Append(typed[k], plan[JobKey][job.cursor + 1])
        BY <2>2, <3>1, <3>3
      <4>2. Active
        BY <1>4 DEF Executing, Active
      <4>3. plan[JobKey][job.cursor + 1] \in Stroke
        BY <1>4, <4>2, OpenJob DEF Exhausted
      <4>4. Len(typed'[k]) = Len(typed[k]) + 1
        BY <3>2, <4>1, <4>3
      <4> QED BY <3>2, <4>4
    <3>4. CASE k # JobKey
      BY <2>2, <3>1, <3>2, <3>4
    <3> QED BY <3>3, <3>4
  <2> QED BY <2>1, <2>3 DEF AtMostOnceStep
<1>5. CASE KeepsCore
  BY <1>2, <1>5 DEF KeepsCore
<1>6. CASE \E s \in Ended : terminate(s)
  BY <1>2, <1>6 DEF terminate
<1>7. CASE Confirmed
  BY <1>2, <1>7 DEF Confirmed
<1>8. "COMPLETED" \in Ended
  BY DEF Ended
<1> QED BY <1>1, <1>3, <1>4, <1>5, <1>6, <1>7, <1>8 DEF Outcome

(***************************************************************************)
(* At most once: a pair that was accepted keeps its plan for ever, and no  *)
(* stroke handed out under it is handed out again, whatever the sequence   *)
(* of stages, confirmations, cancels, expiries and aborts.                 *)
(***************************************************************************)
THEOREM AtMostOnceHolds == CoreSpec => AtMostOnce
<1>1. CoreInv /\ [CoreNext]_coreVars => [AtMostOnceStep]_coreVars
  BY AtMostOnceLemma
<1> QED BY <1>1, CoreSafe, PTL DEF CoreSpec, AtMostOnce

\* An executing job that has no stroke left has typed its whole plan.
LEMMA ExhaustedIsWhole ==
  ASSUME CoreInv, Executing, Exhausted
  PROVE  typed[JobKey] = plan[JobKey]
<1>1. Active
  BY DEF Executing, Active
<1>2. /\ JobKey \in Keys
      /\ plan[JobKey] \in Seq(Stroke) /\ typed[JobKey] \in Seq(Stroke)
      /\ Len(typed[JobKey]) = Len(plan[JobKey])
  BY <1>1, OpenJob DEF Exhausted
<1>3. \A i \in 1..Len(typed[JobKey]) : typed[JobKey][i] = plan[JobKey][i]
  BY <1>2 DEF CoreInv, TypedFollowsPlan
<1> QED BY <1>2, <1>3

\* A step into COMPLETED leaves EXECUTING with the whole plan typed.
LEMMA CompletedLemma ==
  ASSUME CoreInv, CoreNext
  PROVE  CompletedStep
<1>1. Outcome
  BY CallOutcome
<1>2. CASE state' # "COMPLETED" \/ state' = state
  BY <1>2 DEF CompletedStep
<1>3. CASE Executing /\ Exhausted
  BY <1>3, ExhaustedIsWhole DEF CompletedStep, Executing
<1> QED
  BY <1>1, <1>2, <1>3
  DEF Outcome, KeepsCore, terminate, StageAccepted, Confirmed, HandOut

\* COMPLETED is reported only for a job that was handed out to its end.
THEOREM CompletedIsWholeHolds == CoreSpec => CompletedIsWhole
<1>1. CoreInv /\ [CoreNext]_coreVars => [CompletedStep]_coreVars
  BY CompletedLemma
<1> QED BY <1>1, CoreSafe, PTL DEF CoreSpec, CompletedIsWhole

-----------------------------------------------------------------------------
\* Every step of the core is a step of BridgeJob or leaves its state alone.
LEMMA StepImplements ==
  ASSUME CoreInv, CoreNext
  PROVE  [Abstract!Next]_(Abstract!jobVars)
<1>1. Outcome /\ status' \in Statuses
  BY CallOutcome
<1>2. CASE KeepsCore
  BY <1>2 DEF KeepsCore, Abstract!jobVars, Phase, JobKey
<1>3. ASSUME NEW s \in Ended \ {"COMPLETED"}, terminate(s)
      PROVE  Abstract!Withdraw
  BY <1>3 DEF Ended, terminate, Abstract!Withdraw, Phase, JobKey, NoJob, NoKey
<1>4. ASSUME NEW r \in Requests, NEW t \in Clock,
             ~Active, StageVerdict(r) = "OK", StageAccepted(r, t)
      PROVE  Key(r) \in Keys /\ Abstract!Offer(Key(r))
  <2>1. /\ Key(r) \notin Ledger /\ Key(r) \in Keys
        /\ Compiled(r).strokes \in Seq(Stroke) /\ Compiled(r).strokes # <<>>
    BY <1>4, VerdictOk DEF Keys
  <2>2. plan[Key(r)] = <<>>
    BY <2>1 DEF CoreInv, LedgerExact
  <2>3. /\ plan' = [plan EXCEPT ![Key(r)] = Compiled(r).strokes]
        /\ typed' = typed /\ state' = "STAGED" /\ JobKey' = Key(r)
    BY <1>4 DEF StageAccepted, JobKey, Key
  <2>4. plan'[Key(r)] = Compiled(r).strokes
    BY <2>1, <2>3 DEF CoreInv, TypeOK
  <2>5. ~Abstract!Open
    BY <1>4 DEF Abstract!Open, Phase, Active
  <2>6. Phase' = "offered"
    BY <2>3 DEF Phase
  <2> QED BY <2>1, <2>2, <2>3, <2>4, <2>5, <2>6 DEF Abstract!Offer
<1>5. CASE Confirmed
  BY <1>5 DEF Confirmed, Abstract!Next, Abstract!Approve, Phase, JobKey
<1>6. CASE Executing /\ Exhausted /\ terminate("COMPLETED")
  <2>1. typed[JobKey] = plan[JobKey]
    BY <1>6, ExhaustedIsWhole
  <2>2. Abstract!Finish
    BY <1>6, <2>1
    DEF Executing, terminate, Abstract!Finish, Phase, JobKey, NoJob, NoKey
  <2> QED BY <2>2 DEF Abstract!Next
<1>7. CASE Executing /\ ~Exhausted /\ HandOut
  <2>1. Active
    BY <1>7 DEF Executing, Active
  <2>2. /\ JobKey \in Keys /\ job.cursor \in Nat
        /\ Len(typed[JobKey]) = job.cursor
        /\ Len(typed[JobKey]) < Len(plan[JobKey])
    BY <1>7, <2>1, OpenJob DEF Exhausted
  <2>3. typed' = [typed EXCEPT ![JobKey] =
                    Append(typed[JobKey], plan[JobKey][job.cursor + 1])]
    BY <1>1, <1>7, HandOutInv
  <2>4. job \in Job /\ state' = state /\ plan' = plan
    BY <1>7 DEF HandOut, CoreInv, TypeOK
  <2>5. job'.owner = job.owner /\ job'.id = job.id
    BY <1>7, <2>4 DEF HandOut, Job
  <2>6. Phase = "running" /\ Phase' = Phase /\ JobKey' = JobKey
    BY <1>7, <2>4, <2>5 DEF Executing, Phase, JobKey
  <2>7. Abstract!Type
    BY <2>2, <2>3, <2>4, <2>6 DEF Abstract!Type
  <2> QED BY <2>7 DEF Abstract!Next
<1> QED
  BY <1>1, <1>2, <1>3, <1>4, <1>5, <1>6, <1>7 DEF Outcome, Abstract!Next

(***************************************************************************)
(* The core implements the promise of BridgeJob: one job at a time,        *)
(* offered once, typed in order, completed only as a whole.                *)
(***************************************************************************)
THEOREM Refinement == CoreSpec => ImplementsBridgeJob
<1>1. CoreInit => Abstract!Init
  BY DEF CoreInit, Abstract!Init, Phase, JobKey, NoJob, NoKey
<1>2. CoreInv /\ [CoreNext]_coreVars => [Abstract!Next]_(Abstract!jobVars)
  <2>1. CASE CoreNext
    BY <2>1, StepImplements
  <2>2. ASSUME UNCHANGED coreVars PROVE UNCHANGED Abstract!jobVars
    BY <2>2 DEF coreVars, Abstract!jobVars, Phase, JobKey
  <2> QED BY <2>1, <2>2
<1> QED
  BY <1>1, <1>2, CoreSafe, PTL DEF CoreSpec, ImplementsBridgeJob, Abstract!Spec

\* What the systems that contain the core need: their steps call it once, or
\* leave it alone, perhaps with another status.
LEMMA PromiseKept ==
  ASSUME CoreInv, CoreNext \/ KeepsCore
  PROVE  /\ [Abstract!Next]_(Abstract!jobVars)
         /\ [AtMostOnceStep]_coreVars
         /\ [CompletedStep]_coreVars
<1>1. CASE CoreNext
  BY <1>1, StepImplements, AtMostOnceLemma, CompletedLemma
<1>2. CASE KeepsCore
  <2>1. UNCHANGED Abstract!jobVars
    BY <1>2 DEF KeepsCore, Abstract!jobVars, Phase, JobKey
  <2>2. AtMostOnceStep
    <3>1. \A k \in Keys : Len(typed[k]) \in Nat
      BY DEF CoreInv, TypeOK
    <3> QED BY <1>2, <3>1 DEF KeepsCore, AtMostOnceStep
  <2>3. CompletedStep
    BY <1>2 DEF KeepsCore, CompletedStep
  <2> QED BY <2>1, <2>2, <2>3
<1> QED BY <1>1, <1>2

\* A system that starts with an empty core starts like BridgeJob.
LEMMA PromiseInit == CoreInit => Abstract!Init
BY DEF CoreInit, Abstract!Init, Phase, JobKey, NoJob, NoKey
=============================================================================
