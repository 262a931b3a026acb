-------------------------------- MODULE MCTuner -------------------------------
EXTENDS Tuner, TLC

CONSTANTS p1, p2

MCProcess == {p1, p2}
MCFile == {Profile, Versions}
MCNumDevices == <<1>>
MCMaxEvents == (p1 :> 3) @@ (p2 :> 1)
MCNumData == (p1 :> 1) @@ (p2 :> 0)

Values(gang, worker, vector) == [versions |-> <<1>>, gang |-> gang, worker |-> worker, vector |-> vector]
Space(devices, portions) == [devices |-> devices, portions |-> portions]

\* One version with a loop of length 4, of which the compiler makes tiles of 2
\* first and no tiles the second time: the valid gang is 2, then 4.
MCGenData == Space(<<Values(<<2, 4>>, <<1>>, <<1>>)>>, 1)

Loop(v, tiles, length) == [version |-> v, tiles |-> tiles, length |-> length]
MCCompiled ==
  <<<<Loop(1, <<1, 0, 1, 1, 1, 1, 2>>, 4)>>,
    <<Loop(1, <<1, 0, 1, 1, 1, 1, 1>>, 4)>>>>

\* Spaces of up to three devices.
Several == [Values(<<1, 2>>, <<1, 2, 3>>, <<2>>) EXCEPT !.versions = <<1, 2>>]
MCSpaces ==
  {[gen |-> Space(devices, portions),
    loops |-> <<<<Loop(1, <<0, 0, 1, 1, 1, 0, 1>>, 4)>>,
                <<Loop(2, <<2, 0, 1, 0, 1, 1, 1>>, 8), Loop(2, <<1, 1, 1, 1, 1, 1, 1>>, 1)>>>>] :
     devices \in {<<Several>>, <<Several, Values(<<1>>, <<1>>, <<1>>)>>, <<Several, Several>>,
                  <<Several, Several, Several>>},
     portions \in 0 .. 4}
==============================================================================
