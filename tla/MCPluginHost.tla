---------------------------- MODULE MCPluginHost ----------------------------
(* Two plugins, the second one without tools, and what a reload may find in   *)
(* config.toml: both kinds of plugin replaced with and without their grants,  *)
(* failed, and gone.                                                          *)
EXTENDS PluginHost

Found(f, g, h, k) ==
  [p \in Plugins |-> IF p \in Toolless THEN [file |-> h, grants |-> k]
                     ELSE [file |-> f, grants |-> g]]

MCConfigs == {
  Found("good", {}, "good", Grants),
  Found("good", Grants, "good", {}),
  Found("none", {}, "bad", Grants),
  Found("bad", {}, "none", {}) }
=============================================================================
