-------------------------------- MODULE MCRelay --------------------------------
\* Three tiles, of which a client looks at two.
EXTENDS Relay

MCViews == {{1, 2}, {2, 3}}
================================================================================
