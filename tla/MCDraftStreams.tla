---------------------------- MODULE MCDraftStreams ---------------------------
(* A structured and a plain request; both engines.                          *)
EXTENDS DraftStreams
CONSTANTS plain, grammar
ThreeBatches == { <<plain>>, <<grammar>>, <<plain, grammar>> }
=============================================================================
