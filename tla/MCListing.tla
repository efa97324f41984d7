------------------------------ MODULE MCListing ------------------------------
EXTENDS Listing

RowSet == 1 .. 3
KeySet == 1 .. 3
=============================================================================
