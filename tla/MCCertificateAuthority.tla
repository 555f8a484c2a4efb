----------------------- MODULE MCCertificateAuthority -----------------------
(* Instances of CertificateAuthority for TLC.                              *)
EXTENDS CertificateAuthority
=============================================================================
