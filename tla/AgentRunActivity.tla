-------------------------- MODULE AgentRunActivity --------------------------
(***************************************************************************)
(* The reducer of apps/web/lib/agent-run-activity.ts: the events of one    *)
(* agent run become the steps the transcript shows.  A step is what the    *)
(* reader can tell apart: its kind, the turn or tool call it stands for,   *)
(* and whether it is active, done or failed.  Labels, durations, arguments *)
(* and details are left out.                                               *)
(***************************************************************************)
EXTENDS Naturals, Sequences

StepKinds    == {"thinking", "answer", "tool"}
StepStatuses == {"active", "done", "error"}
LiveSteps    == [kind : StepKinds, key : Nat, status : StepStatuses]

Step(kind, key, status) == [kind |-> kind, key |-> key, status |-> status]

(* elements.findIndex(...): the positions a reducer replaces.              *)
Places(steps, kind, key) ==
    {i \in DOMAIN steps : steps[i].kind = kind /\ steps[i].key = key}

First(places) == CHOOSE i \in places : \A j \in places : i <= j

SettleActiveSteps(steps, status) ==
    [i \in DOMAIN steps |->
        IF steps[i].status = "active" THEN [steps[i] EXCEPT !.status = status]
                                      ELSE steps[i]]

(* Tools go on while the model's own phases end.                           *)
SettleActiveModelSteps(steps) ==
    [i \in DOMAIN steps |->
        IF steps[i].status = "active" /\ steps[i].kind # "tool"
        THEN [steps[i] EXCEPT !.status = "done"]
        ELSE steps[i]]

(* Insert the step, or give the one with this identity the new status.     *)
Put(steps, kind, key, status) ==
    LET at == Places(steps, kind, key) IN
    IF at = {} THEN Append(steps, Step(kind, key, status))
               ELSE [steps EXCEPT ![First(at)].status = status]

UpsertToolStep(steps, call) == Put(steps, "tool", call, "active")

FinishToolStep(steps, call, status) == Put(steps, "tool", call, status)

(* The active thinking step of the turn becomes its answer step.           *)
StartAnswerStep(steps, turn) ==
    LET Active(kind) == {i \in Places(steps, kind, turn) : steps[i].status = "active"} IN
    IF Active("answer") # {} THEN steps
    ELSE IF Active("thinking") # {}
         THEN [steps EXCEPT ![First(Active("thinking"))].kind = "answer"]
         ELSE Append(SettleActiveSteps(steps, "done"), Step("answer", turn, "active"))

FinishModelStep(steps, turn, hasToolCalls) ==
    Put(steps, IF hasToolCalls THEN "thinking" ELSE "answer", turn, "done")

StartTurn(steps, turn) ==
    LET settled == SettleActiveSteps(steps, "done") IN
    IF Places(settled, "thinking", turn) # {} THEN settled
    ELSE Append(settled, Step("thinking", turn, "active"))

(* An event carries its type and, in key, the turn or tool call it is      *)
(* about; message.completed says in tools whether tool calls follow.       *)
ReduceAgentRunSteps(steps, e) ==
    CASE e.type = "turn.started"          -> StartTurn(steps, e.key)
      [] e.type \in {"tool.approval_required", "tool.started"}
                                          -> UpsertToolStep(SettleActiveModelSteps(steps), e.key)
      [] e.type = "tool.completed"        -> FinishToolStep(steps, e.key, "done")
      [] e.type = "tool.failed"           -> FinishToolStep(steps, e.key, "error")
      [] e.type = "message.delta"         -> StartAnswerStep(steps, e.key)
      [] e.type = "message.completed"     -> FinishModelStep(steps, e.key, e.tools)
      [] e.type = "run.completed"         -> SettleActiveSteps(steps, "done")
      [] e.type \in {"run.failed", "run.cancelled"}
                                          -> SettleActiveSteps(steps, "error")
      [] OTHER                            -> steps
=============================================================================
