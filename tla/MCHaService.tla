---------------------------- MODULE MCHaService ----------------------------
(* Small instances of HaService.                                           *)
EXTENDS HaService

Budget(nsaves, nfailures, nposts, nflips) ==
    [saves |-> nsaves, failures |-> nfailures, posts |-> nposts, flips |-> nflips]

AllAtOnce == {Budget(MaxSaves, MaxFailures, MaxPosts, MaxFlips)}
SavesOrFaults == {Budget(2, 0, 0, 0), Budget(1, 1, 0, 1), Budget(1, 0, 1, 0)}
=============================================================================
