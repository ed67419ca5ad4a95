-------------------------------- MODULE MCWire --------------------------------
(* Wire on two headsets: the WH-1000XM5 of tests/test_sony_mdr.py and a pair  *)
(* of Fast Pair earbuds.  Levels of 60 to 62 are the special bytes.           *)
EXTENDS Wire

MCTruths ==
    "sony-mdr" :>
        [firmware |-> <<50, 46, 53>>, battery |-> 60, charging |-> FALSE, codec |-> "LDAC",
         noise |-> "ambient", focus_on_voice |-> FALSE, ambient_level |-> 20,
         noise_variant |-> \h17, eq_preset |-> "bright", eq_clear_bass |-> <<-1>>,
         eq_bands |-> <<0, 5, 7, 7, 9>>, speak_to_chat |-> TRUE,
         speak_to_chat_sensitivity |-> "auto", speak_to_chat_timeout |-> "standard",
         pause_on_removal |-> TRUE, voice_guidance |-> TRUE, dsee |-> FALSE,
         touch_sensor |-> TRUE]
    @@ "fast-pair" :>
        [battery_parts |-> <<[left |-> [level |-> 90, charging |-> FALSE],
                              right |-> [level |-> 80, charging |-> FALSE]]>>,
         battery |-> <<80>>, charging |-> <<FALSE>>, model_id |-> <<1, 2, 3>>,
         noise |-> <<"anc">>, noise_modes |-> <<"off", "transparent", "anc">>,
         noise_settable |-> <<"off", "anc">>]

\* The headphones alone.
MCHeadphones == [d \in {"sony-mdr"} |-> MCTruths[d]]

MCWishes ==
    "noise" :> {"off"} @@ "ambient_level" :> {25}
    @@ "focus_on_voice" :> {TRUE} @@ "eq_bands" :> {<<2, -3, 11, -1, 6>>, <<1>>}
    @@ "eq_clear_bass" :> {<<4>>} @@ "eq_preset" :> {"mellow", "loud"}
    @@ "speak_to_chat" :> {FALSE} @@ "speak_to_chat_sensitivity" :> {"low"}
    @@ "pause_on_removal" :> {FALSE} @@ "voice_guidance" :> {FALSE} @@ "dsee" :> {TRUE}

MCNews ==
    "sony-mdr" :>
        {[id |-> "battery", set |-> [battery |-> 61, charging |-> TRUE]],
         [id |-> "noise", set |-> [noise |-> "anc"]],
         [id |-> "touch_sensor", set |-> [touch_sensor |-> FALSE]]}
    @@ "fast-pair" :>
        {[id |-> "battery",
          set |-> [battery_parts |-> <<[left |-> [level |-> 100, charging |-> TRUE],
                                        case |-> [level |-> 5, charging |-> FALSE]]>>,
                   battery |-> <<100>>, charging |-> <<TRUE>>]],
         [id |-> "battery",
          set |-> [battery_parts |-> <<>>, battery |-> <<>>, charging |-> <<>>]],
         [id |-> "model", set |-> [model_id |-> <<255, 0, 0>>]],
         [id |-> "noise", set |-> [noise |-> <<"transparent">>]],
         [id |-> "noise", set |-> [noise |-> <<>>]]}

\* Headers, trailers and escapes out of place, a whole frame with a bad
\* checksum, a frame that never ends, lengths that are no length.
MCGarbage ==
    {<<HEADER>>, <<TRAILER>>, <<ESCAPE>>, <<7, HEADER, ESCAPE, TRAILER>>,
     <<HEADER, 12, 0, 0, 0, 0, 2, 35, 0, TRAILER>>, <<255>>,
     <<HEADER>> \o [i \in 1..MaxFrame |-> 3], <<0, 0, 9>>}

MCDamagedTo == {16, TRAILER, ESCAPE}
=============================================================================
