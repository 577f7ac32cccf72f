-------------------------- MODULE MCBlockTransfer --------------------------
EXTENDS BlockTransfer

CONSTANTS v1, v2   \* fill values, as model values

TwoFills == {v1, v2}
=============================================================================
