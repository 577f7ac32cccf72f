----------------------------- MODULE MCStartup -----------------------------
EXTENDS Startup

UpToThree == {1, 2, 3}

\* Too few, too many, not numbers, out of range; the last two: a block for each of two
\* workers, and for one.
Lists == {
  <<>>, <<1>>, <<1, Text>>, <<1, 7, 2, Text>>, <<1, 7, 2, 3, 4>>, <<Text, 7>>,
  <<1, 7>>, <<3, 7>>, <<1, 7, 0>>, <<1, 7, 33>>, <<1, 7, 2, 0>>, <<1, 7, 2, 33>>,
  <<0, 7, 2, 2>>, <<1, 7, 2, 1>> }
=============================================================================
