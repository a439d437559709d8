-------------------------- MODULE MCInventorySync ---------------------------
EXTENDS InventorySync, TLC
=============================================================================
