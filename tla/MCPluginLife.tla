----------------------------- MODULE MCPluginLife -----------------------------
(* Two connections, in one load or in two; the port is the default one or that of
   settings.ini, and noise_cancelnoise comes from either source. *)
EXTENDS PluginLife

Option(audio, cancel) ==
    [o \in Options |-> IF o = "ts_audio_port" THEN audio ELSE cancel]

MCDefaults == Option(8000, 0)
MCEnvironments == {Option(NotSet, NotSet), Option(8001, 0)}
MCFiles == {Option(8001, 1)}
=============================================================================
