----------------------------- MODULE ConfigLoad -----------------------------
(***************************************************************************)
(* config/config.cpp: one configuration out of a TOML file and the         *)
(* environment.  A configuration source gives every field a raw value:     *)
(*   absent, good, other (a second good value), invalid (the right type    *)
(*   but a value validate or a parser refuses), ill (the wrong type).      *)
(* One field at a time is odd, the rest are good in the file, so a source  *)
(* pair is [field, file, env].                                             *)
(***************************************************************************)
EXTENDS Integers

Strings == {"account_id", "name", "base_url"}
Ints    == {"timeout_ms", "max_order_value_paise", "max_open_positions"}
Paths   == {"data_dir", "log_dir"}
Enums   == {"mode", "level"}
Lists   == {"names"}
Fields  == Strings \cup Ints \cup Paths \cup Enums \cup Lists

Raw == {"absent", "good", "other", "invalid", "ill"}
Sources == [field : Fields \cup {"secret", "file", "none"}, file : Raw, env : Raw]
Sound == [field |-> "none", file |-> "good", env |-> "absent"]

Refused == "refused"
Present(raw) == raw # "absent"

\* The environment overrides the file, the file the default.
Override(file, env, default) ==
    IF Present(env) THEN env ELSE IF Present(file) THEN file ELSE default

\* apply_string: a file node of another type is refused even when the
\* environment overrides it; text from the environment is always a string.
apply_string(file, env) ==
    IF file = "ill" THEN Refused
    ELSE Override(file, IF env = "ill" THEN "invalid" ELSE env, "invalid")

\* apply_int64: the file's node must be an integer exactly and the
\* environment's text must parse to its end, each on its own.
apply_int64(file, env) ==
    IF "ill" \in {file, env} THEN Refused ELSE Override(file, env, "good")

\* apply_path: the raw text that wins must be a well-formed path.
apply_path(file, env) ==
    IF file = "ill" THEN Refused
    ELSE IF env = "ill" THEN Refused
    ELSE Override(file, env, "invalid")

\* apply_run_profile and apply_log_level: the text that wins must parse.
apply_enum(file, env) ==
    IF file = "ill" THEN Refused
    ELSE LET raw == Override(file, env, "good")
         IN  IF raw \in {"invalid", "ill"} THEN Refused ELSE raw

\* apply_string_list: an array of strings in the file, a comma list outside.
apply_string_list(file, env) ==
    IF file = "ill" THEN Refused
    ELSE Override(file, IF env = "ill" THEN "invalid" ELSE env, "good")

apply(field, file, env) ==
    CASE field \in Strings -> apply_string(file, env)
      [] field \in Ints    -> apply_int64(file, env)
      [] field \in Paths   -> apply_path(file, env)
      [] field \in Enums   -> apply_enum(file, env)
      [] field \in Lists   -> apply_string_list(file, env)

\* validate: an empty account, broker or data directory, a timeout that is not
\* positive, a negative limit and a bad strategy name are refused; base_url
\* and log_dir may be anything.
validate(cfg) == \A f \in Fields \ {"base_url", "log_dir"} : cfg[f] # "invalid"

Configured(c, f) == IF c.field = f THEN apply(f, c.file, c.env) ELSE "good"

\* load: a missing or unparsable file ("file") and a secret-shaped key anywhere
\* in it (scan_secrets: "secret") are refused before any field is read.
load(c) ==
    LET cfg == [f \in Fields |-> Configured(c, f)]
    IN  IF \/ c.field \in {"file", "secret"}
           \/ \E f \in Fields : cfg[f] = Refused
           \/ ~validate(cfg)
        THEN [ok |-> FALSE] ELSE [ok |-> TRUE, cfg |-> cfg]
=============================================================================
