----------------------------- MODULE MCRestServer -----------------------------
(***************************************************************************)
(* Two signals, and another process that migrates, but not both at once.   *)
(***************************************************************************)
EXTENDS RestServer, TLC

First == CHOOSE s \in Signals : TRUE

\* The bound of the run: a second signal comes after the first (the signals are alike), and only
\* where the other process does not migrate.  No action under fairness leaves it, and every action
\* outside of it is one of the environment, which need not happen.
Apart ==
    \A s \in Signals \ {First} : stop[s] # "none" =>
        stop[First] # "none" /\ \A p \in Procs \ {Rest} : mig[p] = "idle"
=============================================================================
