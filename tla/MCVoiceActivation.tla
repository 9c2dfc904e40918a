-------------------------- MODULE MCVoiceActivation --------------------------
(* VoiceActivation for TLC: sounds of no packets up to two.                *)
EXTENDS VoiceActivation

SomeSounds ==
  {<<>>, <<"voice">>, <<"silence">>, <<"invalid">>,
   <<"voice", "silence">>, <<"silence", "voice">>}
==============================================================================
