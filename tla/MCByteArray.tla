--------------------------- MODULE MCByteArray ----------------------------
(* Instantiation of ByteArray for TLC.                                    *)
EXTENDS ByteArray

CONSTANTS a, b

\* Two distinguishable byte values.
MCVals == {a, b}
\* Values of a 16-bit codec around every 7-bit group boundary and the ends.
MCVarintInputs ==
    {0, 1, 2, 63, 64, 126, 127, 128, 129, 255, 256, 8191, 8192,
     16383, 16384, 16385, 32767, 32768, 65534, 65535}
\* Signed 16-bit values around zero, the shift wrap-around and the ends.
MCZigzagInputs ==
    {-32768, -32767, -16385, -16384, -16383, -129, -128, -65, -64, -2, -1,
     0, 1, 2, 63, 64, 127, 128, 16383, 16384, 32766, 32767}
=============================================================================
