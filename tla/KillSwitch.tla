----------------------------- MODULE KillSwitch -----------------------------
(***************************************************************************)
(* The operator's kill switch: one control thread submits a command, which *)
(* is validated, authenticated, made durable and handed to the main loop   *)
(* through a locked queue; the loop alone writes the set of kills in       *)
(* force.  That set dies with the process: KillController::replay would    *)
(* read the durable kills back, but nothing calls it (main.cpp says so),   *)
(* so it is not part of the model.                                         *)
(***************************************************************************)
EXTENDS Sequences, SequencesExt

CONSTANTS KillRequests   \* what the operator may ask: [type, scope, auth]

VARIABLES journal,  \* the durable kills
          queue,    \* queue_: handed over, not yet drained
          active,   \* KillState::active_, a set: an equal command changes nothing
          control,  \* where the control thread is in submit(), and its command
          acked,    \* the commands submit() answered ok (history)
          engaged   \* those it answered ok in this life of the process (history)

killVars == <<journal, queue, active, control, acked, engaged>>

NoScope == "none"
KillCommand(r) == [type |-> r.type, scope |-> r.scope]
KillCommands == {KillCommand(r) : r \in KillRequests}
ControlIdle == [at |-> "idle"]

KillInit ==
    /\ journal = {} /\ queue = <<>> /\ active = {}
    /\ control = ControlIdle /\ acked = {} /\ engaged = {}

\* A Strategy kill names its strategy; Soft and Panic name nothing.
valid_kill(cmd) ==
    /\ cmd.type = "Strategy" => cmd.scope # NoScope
    /\ cmd.type \in {"Soft", "Panic"} => cmd.scope = NoScope

\* submit(), up to the durable write: a malformed or unauthenticated command
\* is refused and leaves nothing.
SubmitKill(r) ==
    /\ control.at = "idle"
    /\ valid_kill(KillCommand(r)) /\ r.auth
    /\ control' = [at |-> "persist", cmd |-> KillCommand(r)]
    /\ UNCHANGED <<journal, queue, active, acked, engaged>>

RefuseKill(r) ==
    /\ control.at = "idle"
    /\ ~(valid_kill(KillCommand(r)) /\ r.auth)
    /\ UNCHANGED killVars

\* Mutant of PersistKill: the command is handed over before it is durable.
PersistAfter(ok) ==
    /\ control.at = "persist"
    /\ control' = [control EXCEPT !.at = "push"]
    /\ \E written \in IF ok THEN {TRUE} ELSE BOOLEAN :
           journal' = IF written THEN journal \union {control.cmd} ELSE journal
    /\ UNCHANGED <<queue, active, acked, engaged>>

\* The durable write.  One that reports an error may still have reached the
\* disk; the command is then not handed over.
PersistKill(ok) ==
    /\ control.at = "persist"
    /\ \E written \in IF ok THEN {TRUE} ELSE BOOLEAN :
           journal' = IF written THEN journal \union {control.cmd} ELSE journal
    /\ control' = IF ok THEN [control EXCEPT !.at = "push"] ELSE ControlIdle
    /\ UNCHANGED <<queue, active, acked, engaged>>

PushKill ==
    /\ control.at = "push"
    /\ queue' = Append(queue, control.cmd)
    /\ acked' = acked \union {control.cmd} /\ engaged' = engaged \union {control.cmd}
    /\ control' = ControlIdle
    /\ UNCHANGED <<journal, active>>

\* KillState::apply, to each of a batch: an equal command is already in force.
apply(kills, batch) == kills \union ToSet(batch)

\* Mutant of DrainKills: the queue is cleared, only its first command applied.
DrainFirst ==
    /\ active' = IF queue = <<>> THEN active ELSE active \union {Head(queue)}
    /\ queue' = <<>>
    /\ UNCHANGED <<journal, control, acked, engaged>>

\* drain() takes the whole batch under the lock; the loop applies each.
DrainKills ==
    /\ active' = apply(active, queue)
    /\ queue' = <<>>
    /\ UNCHANGED <<journal, control, acked, engaged>>

KillCrash ==
    /\ queue' = <<>> /\ active' = {} /\ control' = ControlIdle
    /\ engaged' = {}
    /\ UNCHANGED <<journal, acked>>

-----------------------------------------------------------------------------
is_broad(type) == type # "Strategy"

Covers(cmd, strategy) == is_broad(cmd.type) \/ cmd.scope = strategy

panic_active == \E cmd \in active : cmd.type = "Panic"

blocks_strategy(strategy) == \E cmd \in active : Covers(cmd, strategy)

\* The posture the kills impose, the floor of the coordinator.
kill_posture ==
    IF panic_active THEN "Panic" ELSE IF active = {} THEN "Normal" ELSE "SoftKill"

KillTypeOK ==
    /\ journal \subseteq KillCommands /\ acked \subseteq KillCommands /\ engaged \subseteq acked
    /\ queue \in Seq(KillCommands) /\ active \subseteq KillCommands
    /\ control = ControlIdle
       \/ control \in [at : {"persist", "push"}, cmd : KillCommands]
=============================================================================
