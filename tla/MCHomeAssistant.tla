--------------------------- MODULE MCHomeAssistant ---------------------------
(***************************************************************************)
(* A small instance of the calls to Home Assistant for TLC.                *)
(***************************************************************************)
EXTENDS HomeAssistant

AllServices == {"automation.reload", "script.reload", "homeassistant.reload_all"}

SomeServices == {AllServices, {"automation.reload"}}

BadVersions == {1}
=============================================================================
