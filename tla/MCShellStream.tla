---------------------------- MODULE MCShellStream ----------------------------
(***************************************************************************)
(* Instances for TLC of the way of the output, from the channel to the UI  *)
(* thread, and of the scrollback and selection of the terminal that shows  *)
(* it.  A behaviour is one of one of the two.                              *)
(***************************************************************************)
EXTENDS ShellStream, TermBuffer

VARIABLE part

TwoHeights == {5, 6}
SomeChunks == {<<"line", "line", "line">>, <<"nl", "text">>, <<"line">>, <<"same", "same">>,
               <<"over", "line">>, <<"over", "line", "over", "over">>, <<"home", "text">>, <<"home", "erase", "line">>,
               <<"line", "altOn", "line">>, <<"altOff", "text">>}
Corners    == {<<1, 1>>, <<3, 0>>}
WideRows   == {4}

\* Lines of two rows each, and the cells at the end of two rows.
TwoRowLines == {<<"line">>, <<"line", "line">>, <<"over", "line", "over", "line">>}
RightEdge   == {<<0, 2>>, <<1, 2>>}

OutputInit ==
  /\ part \in {"stream", "terminal"}
  /\ StreamInit /\ BufferInit
  /\ part = "stream" => Height = 5
  /\ part = "terminal" => integration

OutputNext ==
  /\ UNCHANGED part
  /\ \/ part = "stream" /\ StreamNext /\ UNCHANGED bufferVars
     \/ part = "terminal" /\ BufferNext /\ UNCHANGED streamVars

outputVars == <<part, streamVars, bufferVars>>

OutputSpec == OutputInit /\ [][OutputNext]_outputVars /\ StreamFairness
=============================================================================
