------------------------------- MODULE MCGateway -------------------------------
\* Module Gateway with its bounds, for an owner that calls reconnect_with_resume when
\* the connection is gone, as the tests do.
EXTENDS Gateway
================================================================================
