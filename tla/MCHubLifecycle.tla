---------------------------- MODULE MCHubLifecycle ----------------------------
(* A version that is unknown, one that is migrated, the current one and a  *)
(* later one; the threshold of the code and a counter that ends just after *)
(* it; one configuration that hangs the board; three releases.             *)
EXTENDS HubLifecycle

CONSTANTS Factory, Mine, Hangs, Bypass, None

MCContents == {Factory, Mine, Hangs}
MCCrashing == {Hangs}
MCFlags == {None, Bypass}
==============================================================================
