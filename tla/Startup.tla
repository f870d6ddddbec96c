------------------------------ MODULE Startup -------------------------------
(***************************************************************************)
(* One account's process from main() through boot() to its run phase, the  *)
(* supervisor that starts it again, and the operator who logs in, repairs  *)
(* and acknowledges.  Between any two steps the world may change: `faults' *)
(* is what is wrong with it now, `conf' the configuration sources.  `rows' *)
(* are the states of the orders in the projection, which the run phase     *)
(* writes, a reset of the projection drops and the operator resolves.      *)
(* `open' is history: the orders whose fate is really open, whatever the   *)
(* projection holds of them; `lost' says that a reset dropped some.        *)
(***************************************************************************)
EXTENDS TokenStore, ConfigLoad, Supervisor, Sequences

CONSTANTS ArgRoot,   \* --data-root: "good", or "absent" when it is not given
          Confs,     \* configuration sources the operator writes
          Budgets    \* how much of each kind of event one behaviour contains

ASSUME ConfsAssumption == Confs \subseteq Sources

VARIABLES faults, conf, rows, open, lost,
          at,        \* the step the process is about to take, or "down"
          main,      \* what main took from its configuration: the data root it
                     \* opened store and ledger under, and the broker
          boot,      \* what boot took from its own
          cause,     \* the step the last process failed at
          byHuman,   \* the process that runs was started by the operator
          left       \* the budget that is left

orderVars == <<rows, open, lost>>
worldVars == <<faults, conf, orderVars>>
procVars == <<at, main, boot, cause, byHuman>>
vars == <<tokenVars, sup, worldVars, procVars, left>>

\* Passing faults repair themselves, the others wait for the operator.
Passing == {"mkdir", "storedb", "probe", "line", "clock", "instruments", "calendar",
            "health", "endpoint"}
Lasting == {"pinned", "chain", "checkpoint", "tokenkey", "egress", "broker", "engine",
            "damaged"}

MainSteps == <<"m_config", "m_ensure", "m_store">>
BootSteps == <<"LoadConfig", "ensure", "pinned", "present", "chain", "checkpoint",
               "EstablishSession">>
SafeChecks == <<"config", "strategy-names", "crypto-keys", "clock", "session",
                "egress-IP", "instrument-master", "calendar", "legacy-stops",
                "reconciliation">>
LastSteps == <<"ComposeBroker", "ComposeEngine", "PublishHealth",
               "StartHealthEndpoint", "Run">>
Steps == MainSteps \o BootSteps \o SafeChecks \o LastSteps
Position(s) == CHOOSE i \in 1 .. Len(Steps) : Steps[i] = s
Verified == {"ComposeBroker", "ComposeEngine", "PublishHealth", "StartHealthEndpoint"}

NoConfig == [root |-> "none", broker |-> "none"]

Rows == {"Created", "Sent", "Acknowledged", "Filled", "Unknown", "LegacyStop"}
OpenRows == {"Sent", "Unknown", "LegacyStop"}

Init ==
    /\ TokenInit /\ SupInit
    /\ faults = {} /\ conf = Sound /\ rows = {} /\ open = {} /\ lost = FALSE
    /\ at = "down" /\ main = NoConfig /\ boot = NoConfig /\ cause = "none"
    /\ byHuman = FALSE
    /\ left \in Budgets

Spend(k) == left[k] > 0 /\ left' = [left EXCEPT ![k] = @ - 1]

-----------------------------------------------------------------------------
(* Verdicts.  A step passes or fails with an error.                        *)
Ok == [ok |-> TRUE]
Fail(e) == [ok |-> FALSE, error |-> e]
blocking(category) == Fail(Error(category, "BlockStrategy"))
Unless(bad, verdict) == IF bad THEN verdict ELSE Ok

\* A transport category, or an action that says "retry" or "reconcile", is a
\* crash the supervisor may restart; the rest needs a human.
exit_class_for(e) ==
    IF \/ e.category \in {"Transient", "RateLimited", "Network", "Timeout"}
       \/ e.action \in {"RetrySafe", "ReconcileFirst"}
    THEN "Crash" ELSE "FailClosedNeedsHuman"

exit_code_for(class) ==
    CASE class = "Clean" -> kExitClean
      [] class = "FailClosedNeedsHuman" -> kExitFailClosedNeedsHuman
      [] OTHER -> kExitCrash

ConfigVerdict == Unless(~load(conf).ok, Fail(make_error("Validation")))

\* The configured account is the one the process was started for.  (The broker
\* name and the data root are never empty after load.  A name outside the
\* broker roster is "invalid" already to load: parse_broker_choice refuses it in
\* the same step and with the same Validation error as validate an empty one.)
require_config_consistent(c) ==
    Unless(load(c).cfg["account_id"] # "good", blocking("Validation"))

\* Mutant of resolve_data_root: the configuration wins silently.
ResolveConfigRoot(c) == [ok |-> TRUE, root |-> load(c).cfg["data_dir"]]

\* --data-root and paths.data_dir must agree when both are given.
resolve_data_root(c) ==
    LET data_dir == load(c).cfg["data_dir"]
    IN  IF ArgRoot = "absent" THEN [ok |-> TRUE, root |-> data_dir]
        ELSE IF ArgRoot = data_dir THEN [ok |-> TRUE, root |-> ArgRoot]
        ELSE blocking("Validation")

Taken(c) == [root |-> resolve_data_root(c).root, broker |-> load(c).cfg["name"]]

\* AccountDataDir::create validates the id, which never fails for a configured
\* one that matched; ensure fails with Internal.
ensure == Unless("mkdir" \in faults, Fail(make_error("Internal")))

\* Mutant of open_or_rebuild: a projection that cannot be read is rebuilt too.
OpenRebuildsUnread ==
    [ok |-> TRUE, needs_rebuild |-> faults \cap {"storedb", "damaged"} # {}]

\* A projection that cannot be read refuses the start; one that is damaged is
\* dropped and opened empty.
open_or_rebuild ==
    IF "storedb" \in faults THEN Fail(Error("Internal", "DoNotRetry"))
    ELSE [ok |-> TRUE, needs_rebuild |-> "damaged" \in faults]

read_pinned_public_key == Unless("pinned" \in faults, blocking("Validation"))
ledger_chain_present   == Unless("probe" \in faults, blocking("Internal"))
verify_chain           == Unless("chain" \in faults, Fail(make_error("Internal")))
verify_against_checkpoint == Unless("checkpoint" \in faults, Fail(make_error("Internal")))

needs_reauth_error == Error("SessionExpired", "ReEstablishSession")

session_state_to_result(state) == Unless(state # "Healthy", Fail(needs_reauth_error))

\* main's session probe: Kite only, and then validate().
session_probe ==
    IF main.broker = "other"
    THEN [ok |-> FALSE, error |-> Error("NotSupported", "BlockStrategy")]
    ELSE validate_session("line" \notin faults)

SessionVerdict ==
    LET p == session_probe IN IF p.ok THEN session_state_to_result(p.state) ELSE p

require_crypto_keys ==
    IF "tokenkey" \in faults THEN Fail(make_error("Validation"))
    ELSE read_pinned_public_key

require_egress_ip_allowed == Unless("egress" \in faults, blocking("Validation"))

\* The clock and reference data checks: stale data is refreshed and looked at
\* again, so only a refresh that fails refuses.
ClockVerdict == Unless("clock" \in faults, blocking("DataStale"))
FreshOrRefreshed(f) == Unless(f \in faults, Fail(make_error("DataStale")))

is_legacy_trigger_less_stop(r) == r = "LegacyStop"

\* Mutant of is_unreconciled: an order that was sent and never answered passes.
UnreconciledUnknownOnly(r) == r = "Unknown"

is_unreconciled(r) == r \in {"Sent", "Unknown"}

require_no_legacy_stops == Unless(\E r \in rows : is_legacy_trigger_less_stop(r), blocking("Validation"))
require_no_unreconciled_orders == Unless(\E r \in rows : is_unreconciled(r), blocking("Validation"))

\* The config check loads the file again and holds both it and the one boot
\* loaded to the arguments; the strategy names were validated by load.
ConfigCheck == IF load(conf).ok THEN require_config_consistent(conf) ELSE ConfigVerdict

SafeVerdict(check) ==
    CASE check = "config"            -> ConfigCheck
      [] check = "strategy-names"    -> Ok
      [] check = "crypto-keys"       -> require_crypto_keys
      [] check = "clock"             -> ClockVerdict
      [] check = "session"           -> SessionVerdict
      [] check = "egress-IP"         -> require_egress_ip_allowed
      [] check = "instrument-master" -> FreshOrRefreshed("instruments")
      [] check = "calendar"          -> FreshOrRefreshed("calendar")
      [] check = "legacy-stops"      -> require_no_legacy_stops
      [] check = "reconciliation"    -> require_no_unreconciled_orders

-----------------------------------------------------------------------------
(* Steps of the process.                                                   *)

Ends(class) ==
    /\ on_exit(exit_code_for(class))
    /\ at' = "down" /\ cause' = at
    /\ UNCHANGED <<main, boot, byHuman>>

Continues ==
    /\ at' = Steps[Position(at) + 1]
    /\ UNCHANGED <<sup, cause, byHuman>>

\* report_error (main) and fail_step (boot) with the class the step gives it.
Take(s, verdict, class) ==
    /\ at = s
    /\ IF verdict.ok THEN Continues /\ UNCHANGED <<main, boot>> ELSE Ends(class)
    /\ UNCHANGED <<tokenVars, worldVars, left>>

\* run_boot, before boot(): every failure is classed by its error.  Main keeps
\* the configuration it loaded; a step that reads it sees the sources as they
\* were, so its decisions fall in one step.
MainConfigure ==
    /\ at = "m_config"
    /\ LET v == IF ~load(conf).ok THEN ConfigVerdict
                ELSE IF ~require_config_consistent(conf).ok THEN require_config_consistent(conf)
                ELSE resolve_data_root(conf)
       IN  IF v.ok THEN /\ at' = "m_ensure" /\ main' = Taken(conf)
                        /\ UNCHANGED <<sup, cause, byHuman, boot>>
                   ELSE Ends(exit_class_for(v.error))
    /\ UNCHANGED <<tokenVars, worldVars, left>>

MainEnsure == Take("m_ensure", ensure, exit_class_for(make_error("Internal")))

\* A reset empties the projection and the boot goes on: needs_rebuild reaches
\* the health snapshot of this process (deps.replay_clean) and nothing else, and
\* the intent log is not replayed.
MainStore ==
    /\ at = "m_store"
    /\ LET opened == open_or_rebuild
       IN  IF ~opened.ok THEN Ends("FailClosedNeedsHuman") /\ UNCHANGED worldVars
           ELSE /\ Continues /\ UNCHANGED <<main, boot>>
                /\ IF opened.needs_rebuild
                   THEN /\ rows' = {} /\ faults' = faults \ {"damaged"}
                        /\ lost' = (lost \/ ("damaged" \in faults /\ open # {}))
                        /\ UNCHANGED <<conf, open>>
                   ELSE UNCHANGED worldVars
    /\ UNCHANGED <<tokenVars, left>>

\* boot 1 and 2: the configuration again, its consistency and the data root
\* fail closed.
BootConfigure ==
    /\ at = "LoadConfig"
    /\ IF load(conf).ok /\ require_config_consistent(conf).ok /\ resolve_data_root(conf).ok
       THEN /\ at' = "ensure" /\ boot' = Taken(conf)
            /\ UNCHANGED <<sup, cause, byHuman, main>>
       ELSE Ends("FailClosedNeedsHuman")
    /\ UNCHANGED <<tokenVars, worldVars, left>>

\* A directory that cannot be made is a crash here.
BootEnsure == Take("ensure", ensure, "Crash")

\* boot 3: the pinned key, whether there is a chain, the chain, the checkpoint.
OpenLedger ==
    \/ Take("pinned", read_pinned_public_key, "FailClosedNeedsHuman")
    \/ Take("present", ledger_chain_present, "Crash")
    \/ Take("chain", verify_chain, "FailClosedNeedsHuman")
    \/ Take("checkpoint", verify_against_checkpoint, "FailClosedNeedsHuman")

\* boot 4: a probe that failed is classed by its error, a session that is not
\* healthy fails closed.
EstablishSession ==
    Take("EstablishSession", SessionVerdict,
         IF session_probe.ok THEN "FailClosedNeedsHuman"
                             ELSE exit_class_for(session_probe.error))

\* boot 5: any check that refuses fails closed, whatever its error says.
SafeStart ==
    \E i \in 1 .. Len(SafeChecks) :
        Take(SafeChecks[i], SafeVerdict(SafeChecks[i]), "FailClosedNeedsHuman")

\* boot 6 to 9.  Only the Kite transport is wired (make_broker validates it).
ComposeBroker ==
    Take("ComposeBroker",
         Unless("broker" \in faults \/ boot.broker = "other", blocking("Validation")),
         "FailClosedNeedsHuman")
ComposeEngine == Take("ComposeEngine", Unless("engine" \in faults, blocking("Validation")),
                      "FailClosedNeedsHuman")
PublishHealth ==
    \/ Take("PublishHealth", Unless("health" \in faults, Fail(Error("Internal", "DoNotRetry"))),
            exit_class_for(Error("Internal", "DoNotRetry")))
    \/ Take("PublishHealth", Unless("health" \in faults, blocking("Internal")), "Crash")
StartHealthEndpoint ==
    \E e \in {make_error("Network"), make_error("Internal")} :
        Take("StartHealthEndpoint", Unless("endpoint" \in faults, Fail(e)), exit_class_for(e))

\* boot 10: a boot-check ends at once and well; the shipped run phase refuses;
\* an engine that trades runs on, and leaves an order in any state.
RunEnds ==
    /\ at = "Run" /\ Spend("run")
    /\ \/ Ends("Clean")
       \/ \E e \in {make_error("Network"), Error("Internal", "BlockStrategy")} :
             Ends(exit_class_for(e))
    /\ UNCHANGED <<tokenVars, worldVars>>

Trade ==
    /\ at = "Run" /\ Spend("trade")
    /\ \E r \in Rows \ {"LegacyStop"} :
          rows' = {r} /\ open' = (IF lost THEN open ELSE {}) \cup ({r} \cap OpenRows)
    /\ UNCHANGED <<tokenVars, sup, faults, conf, lost, procVars>>

\* An exception main catches, or a signal: a crash at any step.
Killed ==
    /\ at # "down" /\ Spend("kill")
    /\ Ends("Crash")
    /\ UNCHANGED <<tokenVars, worldVars>>

BootStep ==
    \/ MainConfigure \/ MainEnsure \/ MainStore
    \/ BootConfigure \/ BootEnsure \/ OpenLedger \/ EstablishSession \/ SafeStart
    \/ ComposeBroker \/ ComposeEngine \/ PublishHealth \/ StartHealthEndpoint

-----------------------------------------------------------------------------
(* The supervisor, the operator and the world.                             *)

Start(human) ==
    /\ at = "down" /\ note_started
    /\ at' = "m_config" /\ main' = NoConfig /\ boot' = NoConfig /\ byHuman' = human
    /\ UNCHANGED <<tokenVars, worldVars, cause>>

Restart == may_restart /\ Start(FALSE) /\ UNCHANGED left

OperatorStarts == Spend("start") /\ Start(TRUE)

Tick == SupTick /\ UNCHANGED <<tokenVars, worldVars, procVars, left>>

Healthy ==
    /\ at = "Run" /\ Spend("healthy") /\ note_healthy
    /\ UNCHANGED <<tokenVars, worldVars, procVars>>

OperatorAcknowledges ==
    /\ sup.alarm /\ Spend("ack") /\ clear_alarm
    /\ cause' = "acknowledged"
    /\ UNCHANGED <<tokenVars, worldVars, at, main, boot, byHuman>>

Breaks ==
    /\ Spend("fault")
    /\ \/ \E f \in (Passing \cup Lasting) \ faults : faults' = faults \cup {f} /\ UNCHANGED <<conf, orderVars>>
       \/ conf' \in Confs \ {conf} /\ UNCHANGED <<faults, orderVars>>
       \/ /\ at = "down"
          /\ rows' = rows \cup {"LegacyStop"} /\ open' = open \cup {"LegacyStop"}
          /\ UNCHANGED <<faults, conf, lost>>
    /\ UNCHANGED <<tokenVars, sup, procVars>>

\* A passing fault ends; the operator repairs, or resolves the open orders
\* while the account is down.
Repairs ==
    /\ \/ \E f \in faults : faults' = faults \ {f} /\ UNCHANGED <<conf, orderVars>>
       \/ conf # Sound /\ conf' = Sound /\ UNCHANGED <<faults, orderVars>>
       \/ /\ rows \cup open # {} /\ at = "down"
          /\ rows' = {} /\ open' = {} /\ lost' = FALSE
          /\ UNCHANGED <<faults, conf>>
    /\ UNCHANGED <<tokenVars, sup, procVars, left>>

Login ==
    /\ \/ \E l \in Logins, b \in {"kite", "kotak"}, s \in BOOLEAN :
             Establish(l, b, s) /\ Spend("login")
       \/ \E l \in Logins : LoginStep(l) /\ UNCHANGED left
       \/ \E l \in Logins : LoginDies(l) /\ Spend("die")
       \/ TokenExpires /\ Spend("expire")
    /\ UNCHANGED <<sup, worldVars, procVars>>

\* The host loses power: the process is gone, and with it the supervisor, whose
\* plan lives in memory; the new one registers the account afresh.
HostFails ==
    /\ Spend("power") /\ PowerLoss
    /\ sup' = Registered
    /\ at' = "down" /\ cause' = at
    /\ UNCHANGED <<worldVars, main, boot, byHuman>>

Next ==
    \/ BootStep \/ RunEnds \/ Trade \/ Killed
    \/ Restart \/ OperatorStarts \/ Tick \/ Healthy \/ OperatorAcknowledges
    \/ Breaks \/ Repairs \/ Login \/ HostFails

\* The process takes its steps, time passes and the supervisor restarts what
\* is due; the operator and the world owe nothing.
Spec == Init /\ [][Next]_vars /\ WF_vars(BootStep) /\ WF_vars(Tick) /\ WF_vars(Restart)

-----------------------------------------------------------------------------
TypeOK ==
    /\ TokenTypeOK /\ SupTypeOK
    /\ faults \subseteq Passing \cup Lasting
    /\ conf \in Confs \cup {Sound}
    /\ rows \subseteq Rows /\ open \subseteq OpenRows /\ lost \in BOOLEAN
    /\ at \in {"down"} \cup {Steps[i] : i \in 1 .. Len(Steps)}
    /\ {main, boot} \subseteq [root : {"none", "good", "other"}, broker : {"none", "good", "other"}]
    /\ byHuman \in BOOLEAN

\* The engine is composed only when no order is open, neither one whose send was
\* never confirmed nor a working stop without a trigger, however often the account
\* was killed, lost power or failed to read its projection since: the projection
\* still holds every such order and refuses the boot until they are resolved
\* (require_no_unreconciled_orders, require_no_legacy_stops).  The exception is
\* a projection found damaged: the reset drops the orders, and neither this boot
\* nor a later one misses them (main.cpp, open_or_rebuild).
NoEngineOverOpenOrders == at \in Verified => open = {} \/ lost

\* The tree whose ledger is verified and whose token is probed is the tree main
\* opened the store in, and the account is the one the process was started for.
OneTree == at \in Verified => main.root = boot.root /\ boot.root = "good"

\* After a fail-closed exit nothing but the operator starts the account again.
FailClosedWaitsForHuman ==
    at = "down" /\ at' # "down" /\ sup.reason = "FailClosedNeedsHuman" => byHuman'

\* An account that is down after anything but a clean stop has a restart
\* coming, a standing alarm, or an operator who acknowledged it.
NeverSilentlyAbsent ==
    sup.down /\ sup.reason # "CleanShutdown" =>
        sup.due # NotDue \/ sup.alarm \/ cause = "acknowledged"

\* A crash loop ends: an account that crashed is escalated or gets as far as
\* its run phase (SupervisorPlan: starting does not reset the crash count), or
\* the host loses power and the plan is forgotten with its count.
CrashLoopEnds == (sup.down /\ sup.due # NotDue)
                     ~> (sup.escalated \/ at = "Run" \/ sup = Registered)

\* boot() composes an engine only over a verified world: no order whose send was
\* never confirmed, unless a reset of the projection lost it, and one tree for the
\* store, the ledger and the token.
EngineOverVerifiedWorld == TypeOK /\ NoEngineOverOpenOrders /\ OneTree

\* The supervisor's duty as a whole: an absent account is never silent, and one
\* that failed closed is not started but by the operator.
SupervisionHolds == [][NeverSilentlyAbsent' /\ FailClosedWaitsForHuman]_vars
=============================================================================
