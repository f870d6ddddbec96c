-------------------------- MODULE MCBrokerAdapter ---------------------------
(* What a behaviour of the model may contain: the retries of a flatten with *)
(* a fetch and a restart among them, the retries beside a foreign order,    *)
(* and the correlation of two entries.                                      *)
EXTENDS BrokerAdapter

Budget(e, m, f, s, o, r) ==
    [entry |-> e, modify |-> m, fetch |-> f, flatten |-> s, foreign |-> o, restart |-> r]

MCBudgets == {Budget(1, 0, 0, 2, 0, 1), Budget(1, 0, 1, 2, 0, 0),
              Budget(1, 0, 0, 2, 1, 0), Budget(1, 0, 1, 0, 1, 0),
              Budget(2, 1, 1, 0, 0, 0), Budget(2, 0, 1, 0, 0, 1),
              Budget(2, 2, 0, 0, 0, 1)}

\* The names of the entries are interchangeable.
RefSymmetry == Permutations(Refs)
=============================================================================
