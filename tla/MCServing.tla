----------------------------- MODULE MCServing -----------------------------
EXTENDS Serving

CONSTANTS mantle, other

MCHostNames == {mantle, other}
MCAllowedNames == {mantle}
=============================================================================
