--------------------------- MODULE MCChefClientRun ---------------------------
(* Instances of ChefClientRun for TLC. *)
EXTENDS ChefClientRun

\* Every configuration with at most one malformed option.
MCConfigs ==
  {cfg \in
     [mode : {FromViper(raw) : raw \in {x \in RawConfig : Accepts(x)}},
      Organization : BOOLEAN, ClientKeyReadable : BOOLEAN,
      Malformed : {{}} \cup {{option} : option \in Options},
      SkipClientCreation : BOOLEAN, EnableReporting : BOOLEAN, Compliance : BOOLEAN,
      DownloadCookbooks : {"never", "first", "always"}, RunLists : BOOLEAN,
      NodeSaveFrequency : {"never", "sometimes", "always"}] :
     cfg.mode.RunChefClient \/ (cfg.Organization /\ cfg.ClientKeyReadable)}
==============================================================================
