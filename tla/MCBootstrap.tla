---------------------------- MODULE MCBootstrap -----------------------------
(* VaultBootstrap with two envelopes and the command lines that matter. *)
EXTENDS VaultBootstrap

Limit(slippage) ==
    [trade |-> 1, cap |-> 1, slippage |-> slippage, cooldown |-> 0, horizon |-> 1]
MCEnvelopes == {Limit(0)}
Line(slippage, deposit) ==
    [limits |-> Limit(slippage), deposit |-> deposit, exercise |-> 1, floor |-> 1,
     execute |-> TRUE, swap |-> FALSE, unpause |-> FALSE]
MCCommands == {[Line(1, 1) EXCEPT !.execute = FALSE],
               [Line(1, 2) EXCEPT !.swap = TRUE, !.unpause = TRUE],
               Line(0, 1)}
=============================================================================
