-------------------------- MODULE MCPortForwarding --------------------------
EXTENDS PortForwarding, TLC

CONSTANTS p1, q1, d1, d2

MCOnePost == {p1}
MCPlugins == {q1}
MCDeletes == {d1, d2}
MCNone == {}
MCOneDelete == {d1}
MCOnePort == {40001}
\* Nothing is left of 22222, 23456 loses its first digit and becomes the port of nobody,
\* and 43456 is kept as it is; other programs bind 43456.
MCOddPorts == {22222, 3456, 23456, 43456}
MCOddEphemeral == {22222, 23456, 43456}
MCContested == {43456}
=============================================================================
