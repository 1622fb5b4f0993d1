--------------------------- MODULE MCInvoiceDesk ---------------------------
(* Instances of InvoiceDesk for TLC: one invoice to read, one that cannot be  *)
(* read, and two in one upload.                                               *)
EXTENDS InvoiceDesk

CONSTANTS a, b, c, u

ThreeUploads == {{a}, {u}, {b, c}}
NoneRead     == {u}
=============================================================================
