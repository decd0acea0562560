---------------------------- MODULE MCPluginHost ----------------------------
(* PluginHost with up to two cameras and two configurations, for TLC.      *)
EXTENDS PluginHost

CONSTANTS c1, c2, v1, v2

FirstAndBoth == (v1 :> {c1}) @@ (v2 :> {c1, c2})
FirstOnly == (v1 :> {c1}) @@ (v2 :> {})
=============================================================================
