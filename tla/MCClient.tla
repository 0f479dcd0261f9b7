------------------------------ MODULE MCClient ------------------------------
EXTENDS Client

\* The server's own light, another resource, and lights whose URIs just fit and
\* just do not.
MCLinks == {
  [uri |-> 8, light |-> TRUE], [uri |-> 8, light |-> FALSE],
  [uri |-> MAX_URI_LENGTH - 1, light |-> TRUE], [uri |-> MAX_URI_LENGTH, light |-> TRUE] }
=============================================================================
