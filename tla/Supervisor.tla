----------------------------- MODULE Supervisor -----------------------------
(***************************************************************************)
(* supervisor/supervisor_policy.cpp and supervisor_plan.cpp: what becomes  *)
(* of an account whose process ended.  Time counts down in `due', the      *)
(* seconds until restart_due; NotDue is an empty restart_due.              *)
(***************************************************************************)
EXTENDS Integers

CONSTANTS BaseSeconds, MaxSeconds,  \* BackoffConfig
          MaxRestarts               \* max_consecutive_restarts

ASSUME BackoffAssumption ==
    /\ BaseSeconds \in Int /\ MaxSeconds \in Int
    /\ MaxRestarts \in Nat

VARIABLE sup    \* AccountSupervision of the account

NotDue == -1
Reasons == {"CleanShutdown", "FailClosedNeedsHuman", "Crash"}

kExitClean == 0
kExitFailClosedNeedsHuman == 70
kExitCrash == 1

\* An account the plan has just been told of: nothing is known of its past.
Registered == [crashes |-> 0, down |-> TRUE, alarm |-> FALSE, escalated |-> FALSE,
               due |-> NotDue, reason |-> "CleanShutdown"]

SupInit == sup = Registered

\* Any code but 0 and 70, a signal's included, is a crash.
exit_reason_from_code(code) ==
    CASE code = kExitClean -> "CleanShutdown"
      [] code = kExitFailClosedNeedsHuman -> "FailClosedNeedsHuman"
      [] OTHER -> "Crash"

\* A base that is not positive counts as one second, a cap below it as the base.
backoff_base == IF BaseSeconds > 0 THEN BaseSeconds ELSE 1
backoff_cap  == IF MaxSeconds >= backoff_base THEN MaxSeconds ELSE backoff_base

\* The base, doubled with every crash after the first and held at the cap.
backoff[n \in Nat] ==
    IF n <= 1 THEN backoff_base
    ELSE IF 2 * backoff[n - 1] >= backoff_cap THEN backoff_cap ELSE 2 * backoff[n - 1]
backoff_for(crashes) == backoff[crashes]

\* Mutant of decide: the breaker trips without the alarm.
DecideNoAlarm(reason, crashes) ==
    [action |-> CASE reason = "CleanShutdown" -> "NoRestartCleanShutdown"
                  [] reason = "Crash" /\ crashes <= MaxRestarts -> "RestartWithBackoff"
                  [] OTHER -> "NoRestartEscalate",
     alarm  |-> reason = "FailClosedNeedsHuman"]

decide(reason, crashes) ==
    CASE reason = "CleanShutdown" -> [action |-> "NoRestartCleanShutdown", alarm |-> FALSE]
      [] reason = "FailClosedNeedsHuman" -> [action |-> "NoRestartEscalate", alarm |-> TRUE]
      [] reason = "Crash" /\ crashes > MaxRestarts ->
           [action |-> "NoRestartEscalate", alarm |-> TRUE]
      [] OTHER -> [action |-> "RestartWithBackoff", alarm |-> FALSE]

\* Mutant of on_exit: a fail-closed exit sets the alarm and is still restarted.
OnExitAlwaysDue(code) ==
    LET reason == exit_reason_from_code(code)
    IN  sup' = [sup EXCEPT !.crashes = IF reason = "Crash" THEN @ + 1 ELSE 0,
                           !.down = TRUE, !.reason = reason, !.due = BaseSeconds,
                           !.alarm = reason = "FailClosedNeedsHuman"]

on_exit(code) ==
    LET reason  == exit_reason_from_code(code)
        crashes == CASE reason = "Crash" -> sup.crashes + 1
                     [] reason = "CleanShutdown" -> 0
                     [] OTHER -> sup.crashes
        d == decide(reason, crashes)
    IN  sup' = [crashes   |-> crashes,
                down      |-> TRUE,
                alarm     |-> sup.alarm \/ d.alarm,
                escalated |-> sup.escalated \/ d.action = "NoRestartEscalate",
                due       |-> IF d.action = "RestartWithBackoff"
                              THEN backoff_for(crashes) ELSE NotDue,
                reason    |-> reason]

\* Mutant of note_started: starting counts as recovery.
NoteStartedResets == sup' = [sup EXCEPT !.down = FALSE, !.due = NotDue, !.crashes = 0]

\* Starting clears down and the pending restart, not the crash count.
note_started == sup' = [sup EXCEPT !.down = FALSE, !.due = NotDue]

note_healthy == sup' = [sup EXCEPT !.crashes = 0, !.alarm = FALSE, !.escalated = FALSE]

clear_alarm == sup' = [sup EXCEPT !.alarm = FALSE, !.escalated = FALSE]

may_restart == sup.down /\ ~sup.escalated /\ sup.due = 0

\* A second passes.
SupTick == sup.due > 0 /\ sup' = [sup EXCEPT !.due = @ - 1]

SupTypeOK ==
    sup \in [crashes : Nat, down : BOOLEAN, alarm : BOOLEAN, escalated : BOOLEAN,
             due : {NotDue} \cup 0 .. backoff_cap, reason : Reasons]
=============================================================================
