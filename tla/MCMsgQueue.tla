----------------------------- MODULE MCMsgQueue -----------------------------
(***************************************************************************)
(* Message lists for TLC.  In the units of these runs a message of up to   *)
(* two fits the local buffer, and a packet holds six.  A behaviour has the *)
(* constants of the configuration, or those of Short.                      *)
(***************************************************************************)
EXTENDS MsgQueue

Msg(type, text, size, reliable) ==
  [type |-> type, text |-> text, size |-> size, reliable |-> reliable]

(* Stufftexts and effects that compete for the packet; Long has the prints. *)
Mixed == {Msg("stufftext", "st", 3, TRUE), Msg("stufftext", "play", 4, FALSE), Msg("gunshot", "g", 1, FALSE),
          Msg("layout", "L1", 3, FALSE), Msg("layout", "L2", 2, FALSE)}

Skins == {Msg("modelskins", "m", 2, TRUE)}

(* Large messages and a short list, to fill it. *)
Long == {Msg("print", "p", 3, TRUE), Msg("stufftext", "s", 2, TRUE)}

Short == INSTANCE MsgQueue WITH Requests <- Long, MaxList <- 5, Compress <- FALSE,
                                MaxSequence <- 5, MaxAdds <- 4

CONSTANT Setups
VARIABLE setup
MCInit == Init /\ setup \in Setups
MCNext == /\ UNCHANGED setup
          /\ \/ setup = "mixed" /\ Next
             \/ setup = "short" /\ Short!Next
MCSpec == MCInit /\ [][MCNext]_<<client, setup>>
=============================================================================
