---------------------------------- MODULE MCUdp ----------------------------------
EXTENDS Udp
CONSTANTS a, b
Bounds == {<<3, 0>>, <<2, 1>>, <<1, 2>>}
===============================================================================
