--------------------------- MODULE MCWeatherPack ---------------------------
(* WeatherPack for TLC: a file that the archive has is asked for twice, *)
(* and before one that the archive has not.                         *)
EXTENDS WeatherPack

CONSTANTS seoul, busan

MCPacked == {seoul}
MCRequests == {<<seoul, seoul>>, <<seoul, busan>>}
=============================================================================
