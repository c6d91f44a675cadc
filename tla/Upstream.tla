------------------------------ MODULE Upstream ------------------------------
(***************************************************************************)
(* The two ways data from outside gets in: tariffs in one process, weather *)
(* in the jobs of the worker.  They have the code of Retry in common and   *)
(* no state.                                                               *)
(***************************************************************************)
EXTENDS UrdbRates, TmyFetch

vars == <<ratesVars, tmyVars>>

Init == RatesInit /\ TmyInit

Next == \/ RatesNext /\ UNCHANGED tmyVars
        \/ TmyNext /\ UNCHANGED ratesVars

Spec == Init /\ [][Next]_vars

FairSpec == Spec /\ RatesFairness /\ TmyFairness

\* The type invariant, with one entry of the OrderedDict and one row of the table
\* for each key.
TypeOK == RatesTypeOK /\ TmyTypeOK
=============================================================================
