-------------------------- MODULE MCConnectorPull --------------------------
EXTENDS ConnectorPull

CONSTANTS i1, i2, p1, p2

MCItems == {i1, i2}
OnePull == {p1}
TwoPulls == {p1, p2}
=============================================================================
