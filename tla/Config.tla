-------------------------------- MODULE Config --------------------------------
(***************************************************************************)
(* Which configurations chef-load starts with, and the mode they select    *)
(* (commands/root.go, configFromViper).  URLs, names and keys are TRUE     *)
(* when they are set.                                                      *)
(***************************************************************************)

RawConfig ==
  [ChefServerURL : BOOLEAN, DataCollectorURL : BOOLEAN,
   ClientName : BOOLEAN, ClientKey : BOOLEAN]

\* Slip: the credentials are only asked for when there is no data collector.
Accepts__NoKey(raw) ==
  /\ raw.ChefServerURL \/ raw.DataCollectorURL
  /\ raw.ChefServerURL /\ ~raw.DataCollectorURL => raw.ClientName /\ raw.ClientKey

Accepts(raw) ==
  /\ raw.ChefServerURL \/ raw.DataCollectorURL
  /\ raw.ChefServerURL => raw.ClientName /\ raw.ClientKey

\* Without a Chef Server a made-up URL is put in, for its organization only.
FromViper(raw) ==
  [RunChefClient |-> raw.ChefServerURL,
   ChefServerURL |-> raw.ChefServerURL \/ raw.DataCollectorURL,
   DataCollectorURL |-> raw.DataCollectorURL,
   Credentials |-> raw.ClientName /\ raw.ClientKey]
==============================================================================
