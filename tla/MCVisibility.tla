----------------------------- MODULE MCVisibility -----------------------------
EXTENDS Visibility

CONSTANTS p1, p2, p3

\* A file that names one recipient twice and another with a broken number.
Rows == <<p1, p3, p2, p1>>

=============================================================================
