------------------------------ MODULE MCRtpGbn ------------------------------
EXTENDS RtpGbn
CONSTANTS a, b, c
MCFile1 == <<a>>
MCFile3 == <<a, b, c>>
=============================================================================
