---------------------------- MODULE MCRtpRepeat ----------------------------
EXTENDS RtpRepeat
CONSTANTS a
MCFile == <<a>>
=============================================================================
