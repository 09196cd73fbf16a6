---------------------------- MODULE MCCronQueue ----------------------------
EXTENDS CronQueue

CONSTANTS s1, s2, s3, s4, s5

\* The listing is in key order, which has nothing to do with staleness.
MCKeys == <<s1, s2, s3, s4, s5>>
=============================================================================
