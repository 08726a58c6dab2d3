------------------------------ MODULE EventLog ------------------------------
(***************************************************************************)
(* What the event pipeline promises, with nothing said about how: an event *)
(* is recorded in the database once or not at all, and one that was lost   *)
(* or has been pruned never comes back.                                    *)
(***************************************************************************)
CONSTANT Events

VARIABLE fate   \* fate[e]: where event e is on its way

Fates == {"new", "pending", "logged", "gone"}

\* The moves an event can make.  A request that finds the buffer full loses its event at once.
Moves ==
    {<<"new", "pending">>, <<"new", "gone">>, <<"pending", "logged">>, <<"pending", "gone">>,
     <<"logged", "gone">>}

LogInit == fate = [e \in Events |-> "new"]

\* Any number of events move at once: a batch is inserted, a batch is lost, old rows go.
LogNext ==
    /\ fate' \in [Events -> Fates]
    /\ \A e \in Events : fate'[e] # fate[e] => <<fate[e], fate'[e]>> \in Moves

LogSpec == LogInit /\ [][LogNext]_fate
=============================================================================
