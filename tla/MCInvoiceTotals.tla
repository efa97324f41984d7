-------------------------- MODULE MCInvoiceTotals --------------------------
EXTENDS InvoiceTotals

ThreeLines == 1 .. 3
TwoLines   == 1 .. 2
=============================================================================
