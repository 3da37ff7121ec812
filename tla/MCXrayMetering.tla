-------------------------- MODULE MCXrayMetering --------------------------
(* Small instances of XrayMetering for TLC. *)
EXTENDS XrayMetering

CONSTANTS u1, u2

OneUser == {u1}
TwoUsers == {u1, u2}
OneTransport == {"direct"}
TwoTransports == {"direct", "netlify"}

=============================================================================
