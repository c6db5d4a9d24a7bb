-------------------------- MODULE MCFrontendPages --------------------------
(* The elements of MCDofiPanel, the configuration file of MCGosipPanel.    *)
EXTENDS FrontendPages, MCDofiPanel, MCGosipPanel
=============================================================================
