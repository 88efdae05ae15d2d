-------------------------------- MODULE MCA2S ---------------------------------
(* A2S with short strings, which are empty, hold the bytes of the header   *)
(* and of the tags, and with zero bytes among the numbers behind them.     *)
EXTENDS A2S

MCInfos ==
  [protocol : {0, 17}, name : {<< >>, <<65>>, <<255, 73>>},
   map : {<< >>, <<70>>}, folder : {<< >>, <<100>>}, game : {<< >>, <<68>>},
   rest : {<<0, 0, 0, 6>>, <<0, 0, 3, 0>>, <<1, 0, 2, 6, 9>>}]

MCTokens ==
  {<< >>, <<7, 0, 9>>, <<7, 0, 9, 1>>,
   <<7, 0, 9, 0, 0, 0, 0, 2, 2, 2, 2, 2, 2, 2, 2, 2>>}

MCJunk ==
  {<< >>, <<255, 255, 255, 255>>, <<255, 255, 255, 255, 66, 1>>,
   <<255, 255, 255, 254, 73, 0, 0, 0, 0, 0, 1, 1, 1, 1>>}

=============================================================================
