--------------------------- MODULE MCProvisioning ---------------------------
(***************************************************************************)
(* Two netlists, the second of which needs fewer triples and no inputs of  *)
(* party 1, behind two paths.                                              *)
(***************************************************************************)
EXTENDS Provisioning, TLC

MCNumberOf == "2" :> 2 @@ "4" :> 4 @@ "62" :> 62 @@ "64" :> 64 @@ "65" :> 65 @@ "255" :> 255
MCRealOf   == "2" :> 2 @@ "4" :> 4

SettingLines(n, i, l, path) ==
  <<Entry("N_BIT", n), Entry("I_BIT", i), Entry("L_BIT", l), Entry("CIRCUIT", path),
    Entry("PREPROCESSING_DIR", "preprocessing"), Entry("INPUT_DIR", "inputs"),
    Entry("PARTY0_ADDR", "address")>>

(* Two formats, the second by a setting that is repeated; a sum that wraps *)
(* around; a line that is no pair.                                         *)
MCEnvFiles ==
  {SettingLines("64", "62", "2", "smoke"),
   SettingLines("4", "62", "2", "smoke") \o <<Blank, Entry("I_BIT", "2")>>,
   SettingLines("64", "255", "65", "smoke"),
   <<Entry("N_BIT", "64"), Broken>>}

MCEnvironments == {<<>>, "CIRCUIT" :> "collision", "N_BIT" :> "wide"}

(* In the second there is no file at the other path.                       *)
MCCircuitFiles ==
  {"smoke" :> "small" @@ "collision" :> "large", "smoke" :> "large"}

MCInputFiles ==
  {<<Entry("I1", "2"), Blank, Entry("I1", "4")>>, <<Entry("I1", "near")>>, <<Broken>>}

MCTriples     == "large" :> 2 @@ "small" :> 1
MCInputOwners == "large" :> {0, 1} @@ "small" :> {0}
=============================================================================
