--------------------------- MODULE MCMeetingScore ---------------------------
EXTENDS MeetingScore
=============================================================================
