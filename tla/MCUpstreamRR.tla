---------------------------- MODULE MCUpstreamRR ----------------------------
(* Server lists for the model checking of NgxUpstreamRR. *)
EXTENDS NgxUpstreamRR, TLC

Srv(weight, max_fails, max_conns) ==
    [weight |-> weight, max_fails |-> max_fails, max_conns |-> max_conns,
     down |-> FALSE, backup |-> FALSE]

AsBackup(s) == [s EXCEPT !.backup = TRUE]
AsDown(s)   == [s EXCEPT !.down = TRUE]

MCConfigs == {
    <<Srv(1, 1, 1)>>,
    <<Srv(2, 1, 0), Srv(1, 2, 0), AsBackup(Srv(1, 1, 1))>>,
    <<AsDown(Srv(1, 1, 0)), AsBackup(Srv(2, 1, 0)), AsBackup(Srv(1, 0, 0))>>,
    <<Srv(3, 3, 1), Srv(1, 0, 0), Srv(2, 2, 0)>>
}

\* Requests are told apart by nothing but their name.
Symmetry == Permutations(Requests)
=============================================================================
