------------------------------- MODULE MCCodec -------------------------------
(* Model-checking instance of Codec: timer and counter words with legal and  *)
(* illegal digits under every base and reserved bit, integers at the ends of *)
(* their range, strings from empty to too long.                              *)
EXTENDS Codec

Words == {c * 4096 + h * 256 + t * 16 + o :
            c \in {0, 1, 2, 3, 4, 8, 15}, h \in {0, 1, 9, 10}, t \in {0, 9, 15}, o \in {0, 5, 9, 10}}

MCBuffers ==
    {<<w \div 256, w % 256>> : w \in Words}
    \cup {<<>>, <<0>>, <<255>>, <<1, 0, 9>>, <<4, 2, 65, 66, 67, 68>>, <<7, 7, 7, 7>>,
          <<255, 255, 255, 255, 255, 255, 255, 255>>}

MCValues ==
    ({1} \X {-128, -1, 0, 1, 127}) \cup ({2} \X {-32768, -129, -1, 0, 255, 256, 32767})
    \cup ({4, 8} \X {-2147483647 - 1, -65537, -1, 0, 16777216, 2147483647})

\* The numbers of TLC end below 2^31.
MCUnsigned ==
    ({1} \X {0, 127, 128, 255}) \cup ({2} \X {0, 255, 32768, 65279, 65535})
    \cup ({4, 8} \X {0, 65536, 16777215, 2147483647})

MCStrings ==
    {<<0, <<>>, TRUE>>, <<1, <<>>, TRUE>>, <<1, <<5>>, FALSE>>, <<2, <<5>>, TRUE>>,
     <<2, <<5>>, FALSE>>, <<2, <<5, 6>>, TRUE>>, <<2, <<5, 6, 7>>, TRUE>>,
     <<4, <<>>, FALSE>>, <<4, <<9, 9, 9>>, TRUE>>, <<255, <<>>, TRUE>>}

\* In units of a hundredth of a millisecond.
MCDurations ==
    {-1000, 1, 999, 1001, 500, 1500, 999001, 999500, 9989999, 998999999} \cup
    {1000 * n : n \in {0, 1, 9, 10, 11, 998, 999, 1000, 1001, 9980, 9990, 9991, 10000, 99800, 99900,
                       99990, 100000, 998000, 999000, 999990, 1000000}}
MCCounts == {-1, 0, 9, 10, 99, 100, 990, 999, 1000}
=============================================================================
