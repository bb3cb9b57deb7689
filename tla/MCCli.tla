-------------------------------- MODULE MCCli --------------------------------
(* Flags at and beyond their limits, two requests and two signals. *)
EXTENDS Cli

MCVersions == {Dev, Unparsable, <<1, 2, 0>>, <<1, 10, 0>>}
==============================================================================
