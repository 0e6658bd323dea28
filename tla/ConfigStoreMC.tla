---------------------------- MODULE ConfigStoreMC ----------------------------
EXTENDS ConfigLines

(* threadaudio.cpp:69 and :72, with their defaults. *)
TwoElements == <<"streamCacheSize", "mainVolumeLeft">>
TheirDefaults == [e \in ElementNames |-> IF e = "streamCacheSize" THEN 320 ELSE 100]

Comment == <<"#", "c", "nl", "#", "nl">>
Foreign == <<".", "skinName", "sp", "=", "sp", "w", "w", "nl">>
Volume == <<".", "mainVolumeLeft", "sp", "=", "sp", "4", "0", "nl">>

(* No file; one setting; comments and a foreign field between settings; an *)
(* empty value and a word that is ignored.                                 *)
WellFormedFiles ==
  {<<>>,
   Volume,
   Comment \o <<"nl">> \o Foreign \o Volume \o Comment,
   <<".", "streamCacheSize", "=", "nl">> \o Foreign \o <<"w", "sp", "nl">>}

(* All the text of these files and of the settings, in tokens. *)
TheirTokens ==
  Marks \union {"sp", "-", "c", "w", "skinName"} \union Range(DigitTokens)
    \union {"streamCacheSize", "mainVolumeLeft"}

ASSUME RegularAssumption == Regular
==============================================================================
