-------------------------- MODULE MCEventStreams --------------------------
(* Instances of EventStreams for TLC.                                      *)
EXTENDS EventStreams, TLC

CONSTANTS web, other, app, page

BothAtWeb == app :> web @@ page :> web
=============================================================================
