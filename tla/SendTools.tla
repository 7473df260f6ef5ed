------------------------------ MODULE SendTools ------------------------------
(***************************************************************************)
(* The client programs that type a text (run of tools/pico_send.py,        *)
(* exchange of tools/pico_tcp_send.py) against the transaction core under  *)
(* the clock of the main loop.  A program stages its text under a fresh    *)
(* random id, again while the device is busy, confirms it, and then does   *)
(* the same with a line break under a second id.  Any other answer, or     *)
(* none, ends it.                                                          *)
(*                                                                         *)
(* Of the connection only this is kept: a command is executed at most once *)
(* and answered with its own status (NoiseSession); the command or its     *)
(* receipt may be lost, and a command may be executed after its sender has *)
(* given up.                                                               *)
(***************************************************************************)
EXTENDS BridgeClock

CONSTANTS
  Runs,             \* executions of a client program
  TextRequest(_),   \* the text of a run, as a stage request
  EnterRequest(_),  \* its line break
  PressEnter(_),    \* args.enter
  MaxTries          \* how often BUSY is answered before the deadline of 20 s

Stage(r) == [op |-> "stage", request |-> r]
Confirm(r) == [op |-> "confirm", request |-> r]

\* The commands of a run, in their order.
Script(t) ==
  <<Stage(TextRequest(t)), Confirm(TextRequest(t))>> \o
  (IF PressEnter(t) THEN <<Stage(EnterRequest(t)), Confirm(EnterRequest(t))>> ELSE <<>>)

TextKey(t) == Key(TextRequest(t))
EnterKey(t) == Key(EnterRequest(t))

\* Ids are drawn at random from 2^32 - 2: no two are the same.
ASSUME ScriptAssumption ==
  /\ MaxTries \in Nat
  /\ \A t \in Runs : TextRequest(t) \in Requests /\ PressEnter(t) \in BOOLEAN
  /\ \A t \in Runs : PressEnter(t) => EnterRequest(t) \in Requests /\ EnterKey(t) # TextKey(t)
  /\ \A t, u \in Runs :
       t # u => /\ TextKey(t) # TextKey(u)
                /\ PressEnter(u) => EnterKey(u) # TextKey(t)
                /\ PressEnter(t) /\ PressEnter(u) => EnterKey(t) # EnterKey(u)

VARIABLES
  tool,  \* tool[t]: [at, tries, failed], where run t is in its script
  air,   \* air[t]: the command at tool[t].at is not "sent" yet ("none"), was "sent",
         \* was "lost", or was answered with this status
  cut    \* history: the jobs that were aborted or cancelled while they were typed

sendVars == <<vars, tool, air, cut>>

ToolInit ==
  /\ Init
  /\ tool = [t \in Runs |-> [at |-> 1, tries |-> 0, failed |-> FALSE]]
  /\ air = [t \in Runs |-> "none"]
  /\ cut = {}

Going(t) == ~tool[t].failed /\ tool[t].at <= Len(Script(t))

\* send_command and NoiseTcpSession.command, up to the wait for the receipt
Send(t) ==
  /\ Going(t) /\ air[t] = "none"
  /\ air' = [air EXCEPT ![t] = "sent"]
  /\ UNCHANGED <<vars, tool, cut>>

CutFollows ==
  cut' = IF state = "EXECUTING" /\ state' = "CANCELLED" THEN cut \cup {JobKey} ELSE cut

Perform(command) ==
  \/ command.op = "stage" /\ ble_handle_stage(command.request, now)
  \/ command.op = "confirm" /\ ble_handle_confirm(Key(command.request), now)

\* The device executes the command and answers; perhaps nobody waits for it any more.
Deliver(t) ==
  /\ air[t] = "sent"
  /\ During(Perform(Script(t)[tool[t].at]))
  /\ air' = [air EXCEPT ![t] = IF tool[t].failed THEN "lost" ELSE status']
  /\ CutFollows
  /\ UNCHANGED tool

\* Seeded fault: every receipt is taken for a success.
Accepted_any(st) == TRUE

\* verify_transport_ack raises on every status but 0.
Accepted(st) == st = "OK"

\* send_stage_until_idle, stage_and_confirm: only BUSY is tried again.
Retried(t) ==
  air[t] = "BUSY" /\ Script(t)[tool[t].at].op = "stage" /\ tool[t].tries < MaxTries

\* Where the receipt leaves the run.
Resumed(t) ==
  IF Accepted(air[t]) THEN [tool[t] EXCEPT !.at = @ + 1, !.tries = 0]
  ELSE IF Retried(t) THEN [tool[t] EXCEPT !.tries = @ + 1]
  ELSE [tool[t] EXCEPT !.failed = TRUE]

Receive(t) ==
  /\ Going(t) /\ air[t] \notin {"none", "sent", "lost"}
  /\ tool' = [tool EXCEPT ![t] = Resumed(t)]
  /\ air' = [air EXCEPT ![t] = "none"]
  /\ UNCHANGED <<vars, cut>>

\* No answer in time, a lost link, a session taken over, or the user.  A command
\* that was sent is lost or still arrives, but its receipt finds nobody.
GiveUp(t) ==
  /\ Going(t)
  /\ tool' = [tool EXCEPT ![t].failed = TRUE]
  /\ \/ air' = [air EXCEPT ![t] = "lost"]
     \/ air[t] = "sent" /\ UNCHANGED air
  /\ UNCHANGED <<vars, cut>>

\* The device by itself, and the TICK command of some other client.
Device(step) == step /\ CutFollows /\ UNCHANGED <<tool, air>>

TimePasses == \E d \in Steps : Advance(d)
SomeTick == During(\E c \in Clock : ble_handle_tick(c))
Typing == Drain \/ (Executing /\ LocalAbort)

ToolNext ==
  \/ Device(TimePasses) \/ Device(Poll) \/ Device(Drain) \/ Device(LocalAbort)
  \/ Device(SomeTick)
  \/ \E t \in Runs : Send(t) \/ Deliver(t) \/ Receive(t) \/ GiveUp(t)

(***************************************************************************)
(* The loop comes around: while a job is executing the drain takes its     *)
(* strokes or one of the guards aborts it.  Nothing is assumed of the      *)
(* clients or of the connection.                                           *)
(***************************************************************************)
ToolSpec == ToolInit /\ [][ToolNext]_sendVars /\ WF_sendVars(Device(Typing))

-----------------------------------------------------------------------------
\* Run t has been told that its text, its line break, was confirmed.
TextOk(t) == tool[t].at > 2
EnterOk(t) == tool[t].at > 4

WholeOrCut(k) == plan[k] # <<>> /\ (typed[k] = plan[k] \/ k \in cut)

(***************************************************************************)
(* A run that ended before its stage was acknowledged leaves nothing that  *)
(* is ever typed, even if the device executes the stage after the run gave *)
(* up: a stroke of a text means that its run had gone on to confirm it.    *)
(***************************************************************************)
NothingTypedUnasked ==
  \A t \in Runs :
    /\ typed[TextKey(t)] # <<>> => tool[t].at >= 2
    /\ PressEnter(t) /\ typed[EnterKey(t)] # <<>> => tool[t].at >= 4

(***************************************************************************)
(* Enter is never pressed before or inside the text it follows: when it    *)
(* is, the text was typed to its end, unless the device cut it short (USB  *)
(* suspend or unmount, stall guard), which no receipt tells the tool.      *)
(***************************************************************************)
EnterOnlyAfterText ==
  \A t \in Runs :
    PressEnter(t) /\ typed[EnterKey(t)] # <<>> => WholeOrCut(TextKey(t))

(***************************************************************************)
(* "OK: typed N characters confirms the device accepted and scheduled the  *)
(* keystrokes" (docs/USAGE.md): what a run reports as sent is typed to its *)
(* end sooner or later, unless the device cuts it short.                   *)
(***************************************************************************)
OkMeansTyped ==
  \A t \in Runs :
    /\ TextOk(t) ~> WholeOrCut(TextKey(t))
    /\ EnterOk(t) ~> WholeOrCut(EnterKey(t))
=============================================================================
