----------------------------- MODULE MCStartup ------------------------------
(* Two faults with kills, runs and acknowledgements between them; an order  *)
(* with a fault and a power loss after it; two logins with deaths and a     *)
(* power loss.                                                              *)
EXTENDS Startup

Nothing == [k \in {"fault", "kill", "run", "trade", "start", "healthy", "ack", "login",
                  "die", "expire", "power"} |-> 0]

MCBudgets == {[Nothing EXCEPT !.fault = 2, !.start = 1],
              [Nothing EXCEPT !.fault = 1, !.start = 2, !.ack = 1, !.kill = 1],
              [Nothing EXCEPT !.kill = 2, !.run = 2, !.trade = 1, !.start = 2,
                              !.healthy = 1, !.ack = 1],
              [Nothing EXCEPT !.trade = 1, !.start = 2, !.fault = 1, !.power = 1],
              [Nothing EXCEPT !.login = 1, !.start = 1, !.power = 1],
              [Nothing EXCEPT !.login = 1, !.start = 1, !.expire = 1],
              [Nothing EXCEPT !.login = 2, !.die = 1, !.power = 1]}

Odd(f, file, env) == [field |-> f, file |-> file, env |-> env]

\* One source pair for every way a loader decides.
MCConfs == {Odd("account_id", "good", "other"), Odd("account_id", "ill", "good"),
            Odd("data_dir", "other", "absent"), Odd("data_dir", "invalid", "good"),
            Odd("name", "good", "other"), Odd("name", "invalid", "absent"), Odd("names", "good", "ill"),
            Odd("mode", "invalid", "good"), Odd("mode", "ill", "good"),
            Odd("timeout_ms", "good", "ill"), Odd("timeout_ms", "invalid", "absent"),
            Odd("secret", "good", "absent")}
=============================================================================
